SPECIFICATION Spec
CONSTANTS
  s1 = s1
  s2 = s2
  c1 = c1
  c2 = c2
  c3 = c3
  c4 = c4
  Nothing = Nothing
  Sids = {s1, s2}
  Calls = {c1, c2, c3, c4}
  Kinds = {"open", "close", "delete"}
  MaxSessions = 1
  Stored = {s1}
INVARIANTS
  DeletedIsDown
CHECK_DEADLOCK FALSE
