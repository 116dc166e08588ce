SPECIFICATION FairSpec
CONSTANTS
  Handoffs = {"h1", "h2"}
  Commands = {"a", "b", "c"}
  CommandsOf <- MCCommandsOf
  ScopeOf <- MCScopeOf
  MaxPending = 3
  MaxRetained = 3
  MaxAttempts = 2
  MaxJournal = 7
  Refusals = {"b"}
  Faults = 2
INVARIANTS
  AcceptedIsKept
  ScopeOrder
  JournalIsKnown
  ReleasedIsQuiet
PROPERTIES
  AcceptedIsSettled
CHECK_DEADLOCK FALSE
