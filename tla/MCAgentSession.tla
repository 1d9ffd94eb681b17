---------------------------- MODULE MCAgentSession ----------------------------
(* Instances of AgentSession for TLC. *)
EXTENDS AgentSession

MCSessions == {1, 2}
OneSession == {1}
===============================================================================
