--------------------------- MODULE MemoryCommands ---------------------------
(***************************************************************************)
(* What the outbox and the file writer of an NPC's memory share: commands,  *)
(* each of a scope, which the one keeps and delivers and the other carries  *)
(* out.                                                                     *)
(***************************************************************************)
CONSTANTS
  Commands,
  ScopeOf          \* the scope of a command: its NPC and its game
=============================================================================
