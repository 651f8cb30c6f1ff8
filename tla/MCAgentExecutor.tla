---------------------------- MODULE MCAgentExecutor ----------------------------
(* Two tokens, two cooldowns. *)
EXTENDS AgentExecutor

MCTokens == <<"MNT", "mETH">>
================================================================================
