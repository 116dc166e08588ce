SPECIFICATION Spec
CONSTANTS
  r1 = r1
  r2 = r2
  late = late
  Residents = {r1, late}
  Latecomers = {late}
  ResidentParent <- MCRoots
  Ephemerals = {e1}
  NoParent = NoParent
  NoOne = NoOne
  Mutators = {m1}
  Kinds = {"checkpoint", "delete", "reload"}
  MaxFailures = 0
INVARIANTS
  TreeIsOwned
  HoldIsQuiet
CHECK_DEADLOCK FALSE
