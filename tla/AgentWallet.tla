---------------------------- MODULE AgentWallet ----------------------------
(***************************************************************************)
(* contracts/AgentWallet.sol: the wallet whose swaps are bounded by a      *)
(* ceiling per trade, a budget per calendar day and a pause between        *)
(* trades.                                                                 *)
(*                                                                         *)
(* A transaction is one step: the EVM either applies all of it or, when a  *)
(* require fails, an addition overflows or the router reverts, none of it. *)
(* Several transactions may share a block, hence a timestamp.  Owner and   *)
(* agent are externally owned keys, so nothing re-enters a call.           *)
(*                                                                         *)
(* deposit, withdraw and withdrawETH write no storage of the contract:     *)
(* they move balances kept by the tokens (and the chain), which no check   *)
(* of this contract reads, so they are stuttering steps here.              *)
(***************************************************************************)
EXTENDS Integers, Sequences

CONSTANTS
  Address,      \* senders of transactions, and address(0)
  ZeroAddress,  \* address(0)
  Deployer,     \* msg.sender of the constructor
  FirstAgent,   \* _agent of the constructor
  Amounts,      \* values of tradeUSD a caller may pass to swap
  Defaults,     \* the limits the contract is deployed with
  Policies,     \* limits the owner may set
  DaySec,       \* "1 days"
  StartTime,    \* block.timestamp of the deployment
  MaxUint,      \* largest uint256
  MaxTime,      \* bound: block.timestamp of the last block
  MaxTrades     \* bound: swaps booked in one behaviour

PolicyType == [maxTradeUSD : Nat, dailyLimitUSD : Nat, cooldownSec : Nat]

ASSUME WalletAssumption ==
  /\ ZeroAddress \in Address
  /\ Deployer \in Address \ {ZeroAddress}
  /\ FirstAgent \in Address
  /\ MaxUint \in Nat
  /\ DaySec \in Nat \ {0}
  /\ MaxTime \in Nat /\ MaxTime <= MaxUint
  /\ StartTime \in 0..MaxTime
  /\ MaxTrades \in Nat
  /\ Amounts \subseteq 0..MaxUint
  /\ Policies \subseteq PolicyType
  /\ Defaults \in PolicyType

VARIABLES
  now,            \* block.timestamp
  owner, agent,   \* the two keys
  limits,         \* maxTradeUSD, dailyLimitUSD, cooldownSec
  dailySpentUSD, lastTradeDay, lastTradeTs,
  trades,         \* the trade log; a trade carries the limits it was made under
  spentOn,        \* history: what the Swapped events of each day add up to
  capOn           \* history: dailyLimitUSD at the latest trade of each day

roles   == <<owner, agent>>
booking == <<dailySpentUSD, lastTradeDay, lastTradeTs, trades, spentOn, capOn>>
vars    == <<now, roles, limits, booking>>

DayOf(t) == t \div DaySec
Days     == 0..MaxTime      \* more days than DayOf(0..MaxTime) can name

-----------------------------------------------------------------------------
(* Definitions marked "wrong" are slips this code might contain: each is   *)
(* put in the place of the definition after it, to see a property fail.    *)

(* Wrong: the counter is never reset; it is reset by every trade.        *)
SpentAtStale(t) == dailySpentUSD
SpentAtForgotten(t) == 0

(* What _checkLimits reads as already spent: a total left over from an     *)
(* earlier day does not count.                                             *)
SpentAt(t) == IF DayOf(t) = lastTradeDay THEN dailySpentUSD ELSE 0

(* _checkLimits(usd) at time t.  Solidity 0.8 reverts on overflow: the two *)
(* sums must fit a uint256.                                                *)
CheckLimits(t, usd) ==
  /\ usd <= limits.maxTradeUSD
  /\ SpentAt(t) + usd <= MaxUint
  /\ SpentAt(t) + usd <= limits.dailyLimitUSD
  /\ lastTradeTs + limits.cooldownSec <= MaxUint
  /\ t >= lastTradeTs + limits.cooldownSec

OnlyOwner(sender) == sender = owner
OnlyAgent(sender) == sender = agent \/ sender = owner

(* The constructor. *)
Init ==
  /\ now = StartTime
  /\ owner = Deployer
  /\ agent = FirstAgent
  /\ limits = Defaults
  /\ dailySpentUSD = 0
  /\ lastTradeDay = 0
  /\ lastTradeTs = 0
  /\ trades = <<>>
  /\ spentOn = [d \in Days |-> 0]
  /\ capOn = [d \in Days |-> 0]

(* The chain moves on to a block with a later timestamp. *)
NewBlock ==
  /\ now' \in (now + 1)..MaxTime
  /\ UNCHANGED <<roles, limits, booking>>

(* Wrong: the total is carried over midnight. *)
BookCarrying(usd) ==
  /\ dailySpentUSD' = dailySpentUSD + usd
  /\ lastTradeDay' = DayOf(now) /\ lastTradeTs' = now
  /\ trades' = Append(trades, [timestamp |-> now, limits |-> limits])
  /\ spentOn' = [spentOn EXCEPT ![DayOf(now)] = @ + usd]
  /\ capOn' = [capOn EXCEPT ![DayOf(now)] = limits.dailyLimitUSD]

(* Book a trade of usd at time now: the lazy rollover of the day, the      *)
(* running total, the time and the log.                                    *)
Book(usd) ==
  /\ dailySpentUSD' = SpentAt(now) + usd
  /\ lastTradeDay' = DayOf(now)
  /\ lastTradeTs' = now
  /\ trades' = Append(trades, [timestamp |-> now, limits |-> limits])
  /\ spentOn' = [spentOn EXCEPT ![DayOf(now)] = @ + usd]
  /\ capOn' = [capOn EXCEPT ![DayOf(now)] = limits.dailyLimitUSD]

(* The calls of token and router (approve, swap) come before the booking.  *)
(* One step for both takes it that no swap is nested in these calls, which *)
(* onlyAgent allows only to a token or router that has one of the keys.    *)
Swap(sender, usd) ==
  /\ Len(trades) < MaxTrades
  /\ OnlyAgent(sender)
  /\ CheckLimits(now, usd)
  /\ Book(usd)
  /\ UNCHANGED <<now, roles, limits>>

SetAgent(sender, new) ==
  /\ OnlyOwner(sender)
  /\ agent' = new
  /\ UNCHANGED <<now, owner, limits, booking>>

SetLimits(sender, new) ==
  /\ OnlyOwner(sender)
  /\ limits' = new
  /\ UNCHANGED <<now, roles, booking>>

TransferOwnership(sender, new) ==
  /\ OnlyOwner(sender)
  /\ new # ZeroAddress
  /\ owner' = new
  /\ UNCHANGED <<now, agent, limits, booking>>

Next ==
  \/ NewBlock
  \/ \E sender \in Address \ {ZeroAddress} :
       \/ \E usd \in Amounts : Swap(sender, usd)
       \/ \E new \in Address : SetAgent(sender, new)
       \/ \E new \in Policies : SetLimits(sender, new)
       \/ \E new \in Address : TransferOwnership(sender, new)

Spec == Init /\ [][Next]_vars

-----------------------------------------------------------------------------
(* Type invariant. *)
TypeOK ==
  /\ now \in 0..MaxTime
  /\ owner \in Address /\ agent \in Address
  /\ limits \in PolicyType
  /\ dailySpentUSD \in Nat
  /\ lastTradeDay \in Days
  /\ lastTradeTs \in 0..MaxTime
  /\ trades \in Seq([timestamp : 0..MaxTime, limits : PolicyType])
  /\ spentOn \in [Days -> Nat]
  /\ capOn \in [Days -> Nat]

(* On no day do the trades booked by swap add up to more than the daily    *)
(* limit in force when the latest of them was made, whatever the owner     *)
(* does to the limits between trades and however late the day's first      *)
(* trade resets the counter.                                               *)
DailyCap == \A d \in Days : spentOn[d] <= capOn[d]

(* Two trades next to each other in the log are at least one cooldown      *)
(* apart: the one that was in force when the later one was made.           *)
TradesSpaced ==
  \A i \in 2..Len(trades) :
    trades[i].timestamp >= trades[i-1].timestamp + trades[i].limits.cooldownSec

(* The contract's counters agree with the log: the total is what the       *)
(* events of lastTradeDay add up to, no later day has any, the time is     *)
(* that of the latest trade, and neither day nor time runs ahead.          *)
BooksAgree ==
  /\ lastTradeDay <= DayOf(now)
  /\ lastTradeTs <= now
  /\ dailySpentUSD = spentOn[lastTradeDay]
  /\ \A d \in Days : d > lastTradeDay => spentOn[d] = 0
  /\ trades # <<>> => lastTradeTs = trades[Len(trades)].timestamp

(* All of this together is inductive.  DailyCap alone is not: that a trade *)
(* keeps a day within its cap needs the contract's running total to be the *)
(* day's true total, and days after lastTradeDay to be untouched.          *)
IInv == TypeOK /\ BooksAgree /\ DailyCap /\ TradesSpaced

(* A budget used up, or cut below what was already spent, stops the agent  *)
(* until the next midnight at the latest and the running cooldown, never   *)
(* for good: from then on any amount within the limits passes the checks.  *)
NeverLockedOut ==
  \A t \in Days, usd \in Amounts :
    /\ DayOf(t) > DayOf(now)
    /\ lastTradeTs + limits.cooldownSec <= t
    /\ usd <= limits.maxTradeUSD /\ usd <= limits.dailyLimitUSD
    => CheckLimits(t, usd)

(* The contract implements the eagerly refilled budget: its lazy rollover  *)
(* of lastTradeDay cannot be observed.                                     *)
Limiter == INSTANCE SpendingLimiter WITH
  Start <- StartTime, Initial <- Defaults,
  clock <- now, policy <- limits, spentToday <- SpentAt(now),
  lastSpend <- lastTradeTs

ImplementsLimiter == Limiter!Spec
=============================================================================
