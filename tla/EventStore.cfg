SPECIFICATION FairSpec
CONSTANTS
  reg = reg
  end = end
  b1 = b1
  b2 = b2
  h1 = h1
  x1 = x1
  Tasks = {reg, end, b1, b2}
  Required = {reg, end}
  Hooks = {h1}
  Registration = reg
  Terminals = {end}
  Aborts = {x1}
  Nobody = Nobody
  HighWater = 1
  CheckInterval = 2
  ShardLines = 2
  Lifetimes = {"resident", "ephemeral"}
  MaxTears = 1
INVARIANTS
  LogReadsBack
  RequiredIsHonest
  FlushCovers
  SealedOnce
PROPERTIES
  RequiredAnswered
CHECK_DEADLOCK FALSE
