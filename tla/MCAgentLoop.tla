---------------------------- MODULE MCAgentLoop ----------------------------
(* Small instances of AgentLoop and its clients for TLC. *)
EXTENDS Demo
=============================================================================
