----------------------------- MODULE MCAgentTurn -----------------------------
(* Instance of AgentTurn for TLC: the two tool calls are interchangeable. *)
EXTENDS AgentTurn, TLC

CallsAlike == Permutations(Calls)
=============================================================================
