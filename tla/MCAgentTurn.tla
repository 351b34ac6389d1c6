----------------------------- MODULE MCAgentTurn -----------------------------
(* A provider that answers, asks for one tool or for two, and may report   *)
(* no usage.                                                               *)
EXTENDS AgentTurn

MCResponses ==
  {[completionTokens |-> 1, toolCalls |-> 0],
   [completionTokens |-> NoUsage, toolCalls |-> 1],
   [completionTokens |-> 1, toolCalls |-> 2]}
=============================================================================
