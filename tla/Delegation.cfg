SPECIFICATION Spec
CONSTANTS
  Residents = {A, B}
  Delegations = {d1, d2}
  None = None
  MaxSlots = 2
  Capacity = 2
  Addressed = {A, B}
  MaxUser = 2
  MaxTroubles = 1
SYMMETRY Symmetry
INVARIANTS
  CallbackIsTrue
  StopSilences
  
CHECK_DEADLOCK FALSE
