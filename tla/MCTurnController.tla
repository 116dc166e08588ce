------------------------- MODULE MCTurnController -------------------------
(* Bounded instances of TurnController for TLC. *)
EXTENDS TurnController

Event(handoff, type, agent, feedback) ==
  [handoff |-> handoff, urgent |-> FALSE, type |-> type, agent |-> agent,
   required |-> FALSE, feedback |-> feedback]

Hint == Event("passive", "message", FALSE, FALSE)
PeerResult == Event("turn", "message", TRUE, FALSE)
PeerAssignment == Event("turn", "user_input", TRUE, FALSE)
AgentCommand == Event("turn", "agent_command", FALSE, FALSE)

MCInputs == {Hint, PeerResult, PeerAssignment, AgentCommand}

=============================================================================
