---------------------------- MODULE MCAgentGraph ----------------------------
(* Configurations of AgentGraph for TLC.                                   *)
EXTENDS AgentGraph

AllAnalysts  == <<"market", "fundamentals", "news", "social">>
NewsAlone    == <<"news">>
=============================================================================
