SPECIFICATION FairSpec
CONSTANTS
  r1 = r1
  r2 = r2
  late = late
  Residents = {r1}
  Latecomers = {}
  ResidentParent <- MCRoots
  Ephemerals = {e1, e2}
  NoParent = NoParent
  NoOne = NoOne
  Mutators = {m1}
  Kinds = {"checkpoint"}
  MaxFailures = 1
INVARIANTS
  NothingLeaks
  CompletionIsTheEnd
PROPERTIES
  EndedIsReleased
CHECK_DEADLOCK FALSE
