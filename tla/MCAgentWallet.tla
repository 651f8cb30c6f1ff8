--------------------------- MODULE MCAgentWallet ---------------------------
(* AgentWallet on a day of three ticks and a budget of a few dollars.      *)
EXTENDS AgentWallet

Limits(max, daily, cooldown) ==
  [maxTradeUSD |-> max, dailyLimitUSD |-> daily, cooldownSec |-> cooldown]

MCAmounts  == 1..3
MCDefaults == Limits(2, 3, 1)
(* a cut below what a day may already have spent; no cooldown at all and  *)
(* a budget that only the width of a uint256 keeps from growing; a         *)
(* cooldown so long that adding it to a timestamp overflows                *)
MCPolicies == {Limits(1, 1, 2), Limits(3, 7, 0), Limits(2, 3, 7)}
=============================================================================
