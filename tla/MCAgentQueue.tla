----------------------------- MODULE MCAgentQueue ------------------------------
(* A deck of two slides. *)
EXTENDS AgentQueue

CONSTANTS s1, s2

DeckOrder == <<s1, s2>>
================================================================================
