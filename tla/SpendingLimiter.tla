-------------------------- MODULE SpendingLimiter --------------------------
(***************************************************************************)
(* What contracts/AgentWallet.sol promises its owner, stated without its   *)
(* storage layout: a budget that is refilled at every midnight, a ceiling  *)
(* on each trade and a pause between trades.                               *)
(*                                                                         *)
(* The budget here is reset EAGERLY, by the clock.  The contract has no    *)
(* clock of its own: it resets lazily, when the first trade of a day is    *)
(* booked.  AgentWallet shows that the two cannot be told apart.           *)
(***************************************************************************)
EXTENDS Integers

CONSTANTS
  DaySec,     \* length of a day in clock units ("1 days" in the contract)
  Start,      \* the clock when the wallet is deployed
  Initial     \* the limits the wallet is deployed with

VARIABLES
  clock,      \* time of the latest block
  policy,     \* limits in force: [maxTradeUSD, dailyLimitUSD, cooldownSec]
  spentToday, \* USD spent since the last midnight
  lastSpend   \* time of the latest trade, 0 before the first

limiterVars == <<clock, policy, spentToday, lastSpend>>

Today(t) == t \div DaySec

Init ==
  /\ clock = Start
  /\ policy = Initial
  /\ spentToday = 0
  /\ lastSpend = 0

Advance ==
  /\ clock' \in Nat
  /\ clock' > clock
  /\ spentToday' = IF Today(clock') = Today(clock) THEN spentToday ELSE 0
  /\ UNCHANGED <<policy, lastSpend>>

Spend ==
  /\ spentToday' \in Nat
  /\ spentToday' >= spentToday
  /\ spentToday' - spentToday <= policy.maxTradeUSD
  /\ spentToday' <= policy.dailyLimitUSD
  /\ clock >= lastSpend + policy.cooldownSec
  /\ lastSpend' = clock
  /\ UNCHANGED <<clock, policy>>

Reconfigure ==
  /\ policy' \in [maxTradeUSD : Nat, dailyLimitUSD : Nat, cooldownSec : Nat]
  /\ UNCHANGED <<clock, spentToday, lastSpend>>

Next == Advance \/ Spend \/ Reconfigure

Spec == Init /\ [][Next]_limiterVars
=============================================================================
