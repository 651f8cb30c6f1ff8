------------------------------ MODULE MCTrading ------------------------------
(* The trading agent: its wallet on chain and its executor.  Nothing in    *)
(* the executor calls the wallet, and they have no state in common: a      *)
(* behaviour is of one of them, while the other stands still, so that      *)
(* their states add up instead of multiplying.                             *)
EXTENDS MCAgentWallet, MCAgentExecutor

VARIABLE part   \* whose steps the behaviour has

TradingInit == part \in {"wallet", "executor"} /\ Init /\ ExecutorInit

TradingNext ==
  \/ part = "wallet" /\ Next /\ UNCHANGED <<executor, part>>
  \/ part = "executor" /\ ExecutorNext /\ UNCHANGED <<vars, part>>

TradingSpec == TradingInit /\ [][TradingNext]_<<vars, executor, part>> /\ Fairness
==============================================================================
