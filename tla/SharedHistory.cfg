SPECIFICATION Spec
CONSTANTS
  codex = codex
  cursor = cursor
  u1 = u1
  u2 = u2
  u3 = u3
  m1 = m1
  Nothing = Nothing
  Kernels = {codex, cursor}
  Remembering = {cursor}
  Checkpointing = {codex}
  Inputs = {u1, u2, u3}
  Silent = {m1}
  MaxTurns = 3
  MaxRestarts = 1
INVARIANTS
  FullContext
  NothingReplayed
SYMMETRY InputSymmetry
CHECK_DEADLOCK FALSE
