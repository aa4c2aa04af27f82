------------------------------ MODULE MCAgentRun ------------------------------
(* An instance of AgentRun for TLC: a registry that keeps one record, so that   *)
(* the second turn of the conversation makes the first one's record evictable.  *)
EXTENDS AgentRun
=============================================================================
