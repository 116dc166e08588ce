SPECIFICATION Spec
CONSTANTS
  Files = {f, g}
  Texts = 2
  Messages = 2
  Modes = {"both", "conversation", "code"}
  Rewinds = 2
  Edits = 2
  Faults = 1
  Moves = 3
  None = None
SYMMETRY Symmetry
INVARIANTS
  RewindIsExact
  EditsSurvive
  RedoReturns
  PendingIsOffered
CHECK_DEADLOCK FALSE
