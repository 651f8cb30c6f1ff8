----------------------------- MODULE AgentProofs -----------------------------
(***************************************************************************)
(* The safety of the agent: of its wallet, AgentWallet, for every set of   *)
(* keys, amounts and limits, every length of the day and every width of    *)
(* the integers; and below of the program that trades with it,             *)
(* AgentExecutor, for any tokens, cooldowns and bounds.  The two have      *)
(* clocks of their own: the chain's, and the ticks of the executor.        *)
(***************************************************************************)
EXTENDS AgentWallet, AgentExecutor, TLAPS

-----------------------------------------------------------------------------
(* The day of a timestamp is one of the days of the ledger, and grows with *)
(* the timestamp.                                                          *)
LEMMA DayInDays == ASSUME NEW t \in 0..MaxTime PROVE DayOf(t) \in Days
  BY WalletAssumption, Z3 DEF DayOf, Days

LEMMA DayMonotone ==
  ASSUME NEW s \in Nat, NEW t \in Nat, s <= t PROVE DayOf(s) <= DayOf(t)
  BY WalletAssumption, Z3 DEF DayOf

(* A trade adds to the ledger of today and of no other day.                *)
LEMMA BookPreserves ==
  ASSUME IInv, NEW usd \in Nat, CheckLimits(now, usd), Book(usd),
         UNCHANGED <<now, owner, agent, limits>>
  PROVE  IInv'
<1> DEFINE today == DayOf(now)
<1>1. /\ now \in 0..MaxTime /\ MaxTime \in Nat
      /\ today \in Days /\ lastTradeDay \in Days /\ lastTradeDay <= today
  BY WalletAssumption, DayInDays DEF IInv, TypeOK, BooksAgree
<1>2. SpentAt(now) \in Nat /\ SpentAt(now) = spentOn[today]
  <2>1. CASE today = lastTradeDay
    BY <2>1 DEF IInv, TypeOK, BooksAgree, SpentAt
  <2>2. CASE today # lastTradeDay
    <3>1. today > lastTradeDay  BY <1>1, <2>2 DEF Days
    <3> QED  BY <1>1, <2>2, <3>1 DEF IInv, TypeOK, BooksAgree, SpentAt
  <2> QED  BY <2>1, <2>2
<1>3. /\ spentOn'[today] = spentOn[today] + usd
      /\ capOn'[today] = limits.dailyLimitUSD
      /\ \A d \in Days : d # today => spentOn'[d] = spentOn[d] /\ capOn'[d] = capOn[d]
  BY <1>1 DEF Book, IInv, TypeOK
<1>4. limits \in PolicyType /\ limits.dailyLimitUSD \in Nat /\ limits.cooldownSec \in Nat
  BY DEF IInv, TypeOK, PolicyType
<1>5. TypeOK'
  <2>1. [timestamp |-> now, limits |-> limits] \in [timestamp : 0..MaxTime, limits : PolicyType]
    BY <1>1, <1>4
  <2>2. trades' \in Seq([timestamp : 0..MaxTime, limits : PolicyType])
    BY <2>1 DEF Book, IInv, TypeOK
  <2> QED  BY <1>1, <1>2, <1>4, <2>2 DEF Book, IInv, TypeOK
<1>6. BooksAgree'
  <2>1. lastTradeDay' = today /\ DayOf(now)' = today /\ lastTradeTs' = now /\ now' = now
    BY DEF Book, DayOf
  <2>2. \A d \in Days : d > today => spentOn'[d] = 0
    BY <1>1, <1>3 DEF IInv, BooksAgree, Days
  <2>3. dailySpentUSD' = spentOn'[today]
    BY <1>2, <1>3 DEF Book
  <2>4. trades'[Len(trades')].timestamp = now
    BY DEF Book, IInv, TypeOK
  <2> QED  BY <1>1, <2>1, <2>2, <2>3, <2>4 DEF BooksAgree, Days
<1>7. DailyCap'
  <2>1. spentOn'[today] <= capOn'[today]
    BY <1>2, <1>3, <1>4 DEF CheckLimits
  <2> QED  BY <1>1, <1>3, <2>1 DEF IInv, DailyCap
<1>8. TradesSpaced'
  <2> SUFFICES ASSUME NEW i \in 2..Len(trades')
               PROVE  trades'[i].timestamp >= trades'[i-1].timestamp + trades'[i].limits.cooldownSec
    BY DEF TradesSpaced
  <2>1. Len(trades') = Len(trades) + 1 /\ Len(trades) \in Nat
    BY DEF Book, IInv, TypeOK
  <2>2. CASE i <= Len(trades)
    <3>1. trades'[i] = trades[i] /\ trades'[i-1] = trades[i-1]
      BY <2>1, <2>2 DEF Book, IInv, TypeOK
    <3> QED  BY <2>1, <2>2, <3>1 DEF IInv, TradesSpaced
  <2>3. CASE i = Len(trades) + 1
    <3>1. /\ trades'[i].timestamp = now /\ trades'[i].limits = limits
          /\ trades'[i-1] = trades[Len(trades)]
      BY <2>1, <2>3 DEF Book, IInv, TypeOK
    <3>2. trades # <<>>  BY <2>1, <2>3
    <3>3. trades[Len(trades)].timestamp = lastTradeTs
      BY <3>2 DEF IInv, BooksAgree
    <3> QED  BY <3>1, <3>3 DEF CheckLimits
  <2> QED  BY <2>1, <2>2, <2>3
<1> QED  BY <1>5, <1>6, <1>7, <1>8 DEF IInv

LEMMA InitIInv == Init => IInv
<1> SUFFICES ASSUME Init PROVE IInv
  OBVIOUS
<1>1. TypeOK
  BY WalletAssumption DEF Init, TypeOK, Days
<1>2. BooksAgree
  <2>1. DayOf(now) \in Nat  BY WalletAssumption, DayInDays DEF Init, Days
  <2> QED  BY WalletAssumption, <2>1 DEF Init, BooksAgree, Days
<1>3. DailyCap /\ TradesSpaced
  BY DEF Init, DailyCap, TradesSpaced
<1> QED  BY <1>1, <1>2, <1>3 DEF IInv

LEMMA NextIInv == IInv /\ [Next]_vars => IInv'
<1> SUFFICES ASSUME IInv, [Next]_vars PROVE IInv'
  OBVIOUS
<1> USE DEF IInv
<1>1. CASE NewBlock
  <2>1. now \in Nat /\ now' \in Nat /\ now <= now' /\ now' \in 0..MaxTime
    BY <1>1, WalletAssumption DEF NewBlock, TypeOK
  <2>2. DayOf(now) <= DayOf(now')
    BY <2>1, DayMonotone
  <2>3. DayOf(now) \in Nat /\ DayOf(now') \in Nat /\ DayOf(now)' = DayOf(now')
    BY <2>1, DayInDays, <1>1 DEF TypeOK, Days, DayOf
  <2>4. BooksAgree'
    BY <1>1, <2>1, <2>2, <2>3 DEF NewBlock, BooksAgree, TypeOK, booking, Days
  <2> QED
    BY <1>1, <2>1, <2>4 DEF NewBlock, TypeOK, DailyCap, TradesSpaced, roles, booking
<1>2. ASSUME NEW sender \in Address, NEW usd \in Amounts, Swap(sender, usd) PROVE IInv'
  <2>1. usd \in Nat  BY WalletAssumption
  <2> QED  BY <1>2, <2>1, BookPreserves DEF Swap, roles
<1>3. ASSUME NEW sender \in Address, NEW new \in Address, SetAgent(sender, new) PROVE IInv'
  BY <1>3 DEF SetAgent, TypeOK, BooksAgree, DailyCap, TradesSpaced, booking, DayOf
<1>4. ASSUME NEW sender \in Address, NEW new \in Policies, SetLimits(sender, new) PROVE IInv'
  BY <1>4, WalletAssumption
     DEF SetLimits, TypeOK, BooksAgree, DailyCap, TradesSpaced, roles, booking, DayOf
<1>5. ASSUME NEW sender \in Address, NEW new \in Address, TransferOwnership(sender, new) PROVE IInv'
  BY <1>5 DEF TransferOwnership, TypeOK, BooksAgree, DailyCap, TradesSpaced, booking, DayOf
<1>6. CASE UNCHANGED vars
  BY <1>6 DEF vars, TypeOK, BooksAgree, DailyCap, TradesSpaced, roles, booking, DayOf
<1> QED  BY <1>1, <1>2, <1>3, <1>4, <1>5, <1>6 DEF Next

(* The inductive invariant holds in every reachable state.                 *)
THEOREM Invariance == Spec => []IInv
  BY InitIInv, NextIInv, PTL DEF Spec

(* Every value has its type, however the keys and limits are changed.      *)
THEOREM TypeCorrect == Spec => []TypeOK
<1>1. IInv => TypeOK  BY DEF IInv
<1> QED  BY <1>1, Invariance, PTL

(* The daily limit of AgentWallet.sol bounds what swap books on any day.   *)
THEOREM DailyCapHolds == Spec => []DailyCap
<1>1. IInv => DailyCap  BY DEF IInv
<1> QED  BY <1>1, Invariance, PTL

(* The cooldown of AgentWallet.sol separates any two successive trades.    *)
THEOREM TradesSpacedHolds == Spec => []TradesSpaced
<1>1. IInv => TradesSpaced  BY DEF IInv
<1> QED  BY <1>1, Invariance, PTL

(* The counters of AgentWallet.sol agree with its event log.               *)
THEOREM BooksAgreeHolds == Spec => []BooksAgree
<1>1. IInv => BooksAgree  BY DEF IInv
<1> QED  BY <1>1, Invariance, PTL

(* No spending and no cut of the limits locks the agent out beyond the     *)
(* next midnight and the cooldown.                                         *)
THEOREM NeverLockedOutHolds == Spec => []NeverLockedOut
<1>1. IInv => NeverLockedOut
  <2> SUFFICES ASSUME IInv, NEW t \in Days, NEW usd \in Amounts,
                      DayOf(t) > DayOf(now),
                      lastTradeTs + limits.cooldownSec <= t,
                      usd <= limits.maxTradeUSD, usd <= limits.dailyLimitUSD
               PROVE  CheckLimits(t, usd)
    BY DEF NeverLockedOut
  <2>1. t \in Nat /\ t <= MaxUint /\ usd \in Nat /\ usd <= MaxUint
    BY WalletAssumption DEF Days
  <2>2. /\ lastTradeTs \in Nat /\ limits.cooldownSec \in Nat
        /\ limits.maxTradeUSD \in Nat /\ limits.dailyLimitUSD \in Nat
    BY DEF IInv, TypeOK, PolicyType
  <2>3. DayOf(t) # lastTradeDay
    <3>1. DayOf(t) \in Nat /\ DayOf(now) \in Nat /\ lastTradeDay \in Nat
      BY DayInDays DEF IInv, TypeOK, Days
    <3> QED  BY <3>1 DEF IInv, BooksAgree
  <2>4. SpentAt(t) = 0  BY <2>3 DEF SpentAt
  <2> QED  BY WalletAssumption, <2>1, <2>2, <2>4 DEF CheckLimits
<1> QED  BY <1>1, Invariance, PTL

-----------------------------------------------------------------------------
(* A step of the contract is a step of the budget, or changes nothing that *)
(* the budget can see.                                                     *)
LEMMA StepRefines ==
  IInv /\ IInv' /\ [Next]_vars => [Limiter!Next]_(Limiter!limiterVars)
<1> SUFFICES ASSUME IInv, IInv', [Next]_vars
             PROVE  [Limiter!Next]_(Limiter!limiterVars)
  OBVIOUS
<1> USE DEF Limiter!Next, Limiter!limiterVars
<1>1. CASE NewBlock
  <2>1. now \in Nat /\ now' \in Nat /\ now' > now
    BY <1>1, WalletAssumption DEF NewBlock, IInv, TypeOK
  <2>2. DayOf(now) <= DayOf(now') /\ DayOf(now) \in Nat /\ DayOf(now') \in Nat
    <3>1. now \in 0..MaxTime /\ now' \in 0..MaxTime
      BY DEF IInv, TypeOK
    <3> QED  BY <2>1, <3>1, DayMonotone, DayInDays DEF Days
  <2>3. lastTradeDay \in Nat /\ lastTradeDay <= DayOf(now)
    BY WalletAssumption DEF IInv, TypeOK, BooksAgree, Days
  <2>4. SpentAt(now)' = IF DayOf(now') = lastTradeDay THEN dailySpentUSD ELSE 0
    BY <1>1 DEF SpentAt, NewBlock, booking, DayOf
  <2>5. SpentAt(now)' = IF DayOf(now') = DayOf(now) THEN SpentAt(now) ELSE 0
    BY <2>2, <2>3, <2>4 DEF SpentAt
  <2>6. Limiter!Advance
    BY <1>1, <2>1, <2>5 DEF NewBlock, booking, Limiter!Advance, Limiter!Today, DayOf
  <2> QED  BY <2>6
<1>2. ASSUME NEW sender \in Address, NEW usd \in Amounts, Swap(sender, usd)
      PROVE  Limiter!Spend
  <2>1. usd \in Nat /\ now \in Nat  BY WalletAssumption DEF IInv, TypeOK
  <2>2. SpentAt(now) \in Nat  BY DEF SpentAt, IInv, TypeOK
  <2>3. SpentAt(now)' = SpentAt(now) + usd
    BY <1>2 DEF Swap, Book, SpentAt, DayOf
  <2>4. CheckLimits(now, usd) /\ lastTradeTs' = now /\ UNCHANGED <<now, limits>>
    BY <1>2 DEF Swap, Book
  <2>5. limits.maxTradeUSD \in Nat /\ limits.dailyLimitUSD \in Nat /\ limits.cooldownSec \in Nat
    BY DEF IInv, TypeOK, PolicyType
  <2> QED  BY <2>1, <2>2, <2>3, <2>4, <2>5 DEF CheckLimits, Limiter!Spend
<1>3. ASSUME NEW sender \in Address, NEW new \in Policies, SetLimits(sender, new)
      PROVE  Limiter!Reconfigure
  BY <1>3, WalletAssumption
     DEF SetLimits, booking, SpentAt, DayOf, PolicyType, Limiter!Reconfigure
<1>4. ASSUME NEW sender \in Address, NEW new \in Address,
             SetAgent(sender, new) \/ TransferOwnership(sender, new)
      PROVE  UNCHANGED Limiter!limiterVars
  BY <1>4 DEF SetAgent, TransferOwnership, booking, SpentAt, DayOf
<1>5. CASE UNCHANGED vars
  BY <1>5 DEF vars, booking, SpentAt, DayOf
<1> QED  BY <1>1, <1>2, <1>3, <1>4, <1>5 DEF Next

(* AgentWallet.sol, which resets its counter lazily at the first trade of  *)
(* a day, implements the budget that is refilled at every midnight.        *)
THEOREM Refinement == Spec => ImplementsLimiter
<1>1. Init => Limiter!Init
  BY DEF Init, Limiter!Init, SpentAt
<1> QED
  BY <1>1, StepRefines, Invariance, PTL DEF Spec, ImplementsLimiter, Limiter!Spec

-----------------------------------------------------------------------------
(* AgentExecutor: its ExecutorInv is inductive; signals keep their         *)
(* distance and the chain's log repeats none of them.                      *)
SignalRow == [token : Token, at : 0..MaxTicks, gap : Nat]
log == <<signals, marked, told, chain>>

(* Initially nothing was decided, stored or sent. *)
LEMMA ExecutorInitially == ExecutorInit => ExecutorInv
<1> SUFFICES ASSUME ExecutorInit PROVE ExecutorInv
  OBVIOUS
<1>1. WorldOK
  <2>1. clock \in 0..MaxTicks /\ faults \in 0..MaxFaults
    BY AgentAssumption DEF ExecutorInit
  <2>2. due \in BOOLEAN
    BY Zenon DEF ExecutorInit
  <2> QED
    BY <2>1, <2>2 DEF ExecutorInit, WorldOK
<1>2. LoopOK
  BY DEF ExecutorInit, LoopOK
<1>3. LogOK
  BY DEF ExecutorInit, LogOK
<1>4. SignalsSpaced /\ HandSpaced
  BY DEF ExecutorInit, SignalsSpaced, HandSpaced
<1>5. AuditTrail /\ Final
  BY DEF ExecutorInit, AuditTrail, Final, Sent
<1> QED
  BY <1>1, <1>2, <1>3, <1>4, <1>5 DEF ExecutorInv, ExecutorTypeOK

(* The actions, by what they do to the table and to the chain's log. *)
LEMMA NextCases ==
  ASSUME [ExecutorNext]_executor
  PROVE  \/ UNCHANGED log \/ Mine \/ Drop
         \/ Store \/ StoreFails \/ Record \/ RecordFails \/ Announce
<1>1. ExecutorNext => \/ Tick \/ \E t \in Token : PriceMoves(t)
                      \/ \E t \in Token, c \in Cooldowns : StoreStrategy(t, c)
                      \/ Restart \/ StartPass \/ Signal \/ SignalBlind \/ Quiet \/ LoadFails
                      \/ Mine \/ Drop
                      \/ Store \/ StoreFails \/ Record \/ RecordFails \/ Announce
  BY DEF ExecutorNext, Executor
<1>2. \/ Tick \/ \E t \in Token : PriceMoves(t)
      \/ \E t \in Token, c \in Cooldowns : StoreStrategy(t, c)
      \/ Restart \/ StartPass \/ Signal \/ SignalBlind \/ Quiet \/ LoadFails
      \/ UNCHANGED executor
      => UNCHANGED log
  BY DEF Tick, PriceMoves, StoreStrategy, Restart, StartPass, Signal, SignalBlind,
         Decide, Quiet, LoadFails, executor, log, chain, db
<1> QED
  BY <1>1, <1>2

(* A row that is stored has the type of a row and the time of its insert.  *)
LEMMA Stored ==
  ASSUME ExecutorTypeOK, step = "store", signals' = Append(signals, Row)
  PROVE  /\ signals' \in Seq(SignalRow)
         /\ Len(signals') = Len(signals) + 1
         /\ signals'[Len(signals) + 1] = Row
         /\ \A i \in 1..Len(signals) : signals'[i] = signals[i]
<1>1. Row \in SignalRow
  BY DEF ExecutorTypeOK, WorldOK, LoopOK, T, Token, Row, SignalRow
<1> QED
  BY <1>1 DEF ExecutorTypeOK, LogOK, SignalRow

(* The executor's position after a return. *)
LEMMA Returned ==
  ASSUME LoopOK, NextToken
  PROVE  LoopOK'
<1>1. Len(Tokens) \in Nat /\ DOMAIN Tokens = 1..Len(Tokens)
  BY AgentAssumption
<1>2. at \in Nat
  BY DEF LoopOK
<1>3. at < Len(Tokens) => at + 1 \in DOMAIN Tokens
  BY <1>1, <1>2
<1> QED
  BY <1>2, <1>3 DEF NextToken, LoopOK

(* Neither the executor nor the environment leaves the types of the world. *)
LEMMA WorldStep == ExecutorTypeOK /\ [ExecutorNext]_executor => WorldOK'
<1> SUFFICES ASSUME ExecutorTypeOK, [ExecutorNext]_executor PROVE WorldOK'
  OBVIOUS
<1>1. faults' \in 0..MaxFaults
  <2>1. faults' = faults \/ Fault
    BY DEF ExecutorNext, Executor, Tick, PriceMoves, StoreStrategy, Mine, Drop, Restart,
           StartPass, Signal, SignalBlind, Quiet, LoadFails, Store, StoreFails,
           Record, RecordFails, Announce, executor
  <2> QED
    BY <2>1, AgentAssumption DEF Fault, ExecutorTypeOK, WorldOK
<1>2. CASE Tick
  <2>1. clock' \in 0..MaxTicks
    BY <1>2, AgentAssumption DEF Tick, ExecutorTypeOK, WorldOK
  <2>2. due' \in BOOLEAN
    BY <1>2, Zenon DEF Tick
  <2> QED
    BY <1>1, <1>2, <2>1, <2>2 DEF Tick, db, ExecutorTypeOK, WorldOK
<1>3. CASE \E t \in Token : PriceMoves(t)
  BY <1>1, <1>3 DEF PriceMoves, db, ExecutorTypeOK, WorldOK
<1>4. CASE \E t \in Token, c \in Cooldowns : StoreStrategy(t, c)
  BY <1>1, <1>4 DEF StoreStrategy, world, ExecutorTypeOK, WorldOK
<1>5. CASE UNCHANGED <<clock, deviates, strategy>> /\ (UNCHANGED due \/ due' = FALSE)
  <2>1. due' \in BOOLEAN
    BY <1>5, Zenon DEF ExecutorTypeOK, WorldOK
  <2> QED
    BY <1>1, <1>5, <2>1 DEF ExecutorTypeOK, WorldOK
<1>6. \/ Mine \/ Drop \/ Restart \/ Executor \/ UNCHANGED executor
      => UNCHANGED <<clock, deviates, strategy>> /\ (UNCHANGED due \/ due' = FALSE)
  BY DEF Executor, Mine, Drop, Restart, StartPass, Signal, SignalBlind, Decide, Quiet,
         LoadFails, Store, StoreFails, Record, RecordFails, Announce, executor, world,
         db
<1> QED
  BY <1>2, <1>3, <1>4, <1>5, <1>6 DEF ExecutorNext

(* The cooldown of the token under evaluation, or 0. *)
LEMMA StrategyNat ==
  ASSUME ExecutorTypeOK, step = "evaluate"
  PROVE  strategy[T] \in Nat
<1>1. T \in Token
  BY DEF ExecutorTypeOK, LoopOK, T, Token
<1>2. Cooldowns \union {NoStrategy} \subseteq Nat
  BY AgentAssumption DEF NoStrategy
<1> QED
  BY <1>1, <1>2 DEF ExecutorTypeOK, WorldOK

(* The executor stays within its tokens. *)
LEMMA LoopStep == ExecutorTypeOK /\ [ExecutorNext]_executor => LoopOK'
<1> SUFFICES ASSUME ExecutorTypeOK, [ExecutorNext]_executor PROVE LoopOK'
  OBVIOUS
<1>1. CASE UNCHANGED loop
  BY <1>1 DEF loop, ExecutorTypeOK, LoopOK
<1>2. CASE NextToken
  BY <1>2, Returned DEF ExecutorTypeOK
<1>3. CASE Restart
  BY <1>3 DEF Restart, LoopOK
<1>4. CASE StartPass
  BY <1>4, AgentAssumption DEF StartPass, LoopOK
<1>5. ASSUME NEW gap \in Nat, Decide(gap) PROVE LoopOK'
  BY <1>5 DEF Decide, ExecutorTypeOK, LoopOK
<1>6. CASE UNCHANGED <<at, hand>> /\ step # "idle" /\ step' \in {"record", "announce"}
  BY <1>6 DEF ExecutorTypeOK, LoopOK
<1>7. \/ UNCHANGED loop \/ NextToken \/ Restart \/ StartPass
      \/ (step = "evaluate" /\ Decide(strategy[T])) \/ Decide(0)
      \/ UNCHANGED <<at, hand>> /\ step # "idle" /\ step' \in {"record", "announce"}
  BY DEF ExecutorNext, Executor, Tick, PriceMoves, StoreStrategy, Mine, Drop, Signal,
         SignalBlind, Quiet, LoadFails, Store, StoreFails, Record, RecordFails,
         Announce, executor, loop
<1> QED
  BY <1>1, <1>2, <1>3, <1>4, <1>5, <1>6, <1>7, StrategyNat

(* Ids refer to rows of the table. *)
LEMMA LogStep == ExecutorInv /\ [ExecutorNext]_executor => LogOK'
<1> SUFFICES ASSUME ExecutorInv, [ExecutorNext]_executor PROVE LogOK'
  OBVIOUS
<1> USE DEF db, chain
<1>1. /\ Len(signals) \in Nat /\ Len(registry) \in Nat
      /\ step \in {"record", "announce"} => Len(signals) \in 1..Len(signals)
  BY DEF ExecutorInv, ExecutorTypeOK, LogOK, Final, Id
<1>2. CASE UNCHANGED log
  BY <1>2 DEF log, ExecutorInv, ExecutorTypeOK, LogOK
<1>3. CASE Mine
  BY <1>3 DEF Mine, ExecutorInv, ExecutorTypeOK, LogOK
<1>4. CASE Drop
  BY <1>4 DEF Drop, ExecutorInv, ExecutorTypeOK, LogOK
<1>5. CASE /\ step = "store" /\ signals' = Append(signals, Row)
           /\ UNCHANGED <<marked, told, mempool, registry, lost>>
  <2>1. signals' \in Seq(SignalRow) /\ Len(signals') = Len(signals) + 1
    BY <1>5, Stored DEF ExecutorInv
  <2>2. 1..Len(signals) \subseteq 1..Len(signals')
    BY <1>1, <2>1
  <2>3. mempool \subseteq [nonce : Nat, signal : 1..Len(signals')]
    BY <2>2 DEF ExecutorInv, ExecutorTypeOK, LogOK
  <2>4. registry \in Seq(1..Len(signals'))
    <3>1. registry \in Seq(1..Len(signals))
      BY DEF ExecutorInv, ExecutorTypeOK, LogOK
    <3>2. \A i \in 1..Len(registry) : registry[i] \in 1..Len(signals')
      BY <2>2, <3>1
    <3> QED
      BY <3>1, <3>2
  <2>5. marked' \subseteq 1..Len(signals') /\ told' \subseteq 1..Len(signals')
    BY <1>5, <2>2 DEF ExecutorInv, ExecutorTypeOK, LogOK
  <2>6. lost' \subseteq 1..Len(signals')
    BY <1>5, <2>2 DEF ExecutorInv, ExecutorTypeOK, LogOK
  <2> QED
    BY <1>5, <2>1, <2>3, <2>4, <2>5, <2>6 DEF LogOK, SignalRow
<1>6. ASSUME Transact, step = "record"
      PROVE  mempool' \subseteq [nonce : Nat, signal : 1..Len(signals)]
  BY <1>1, <1>6 DEF Transact, Id, ExecutorInv, ExecutorTypeOK, LogOK
<1>7. CASE Record
  BY <1>1, <1>6, <1>7 DEF Record, Id, ExecutorInv, ExecutorTypeOK, LogOK
<1>8. CASE RecordFails
  BY <1>6, <1>8 DEF RecordFails, ExecutorInv, ExecutorTypeOK, LogOK
<1>9. CASE Announce
  BY <1>1, <1>9 DEF Announce, Id, ExecutorInv, ExecutorTypeOK, LogOK
<1> QED
  BY <1>2, <1>3, <1>4, <1>5, <1>7, <1>8, <1>9, NextCases DEF Store, StoreFails, log

LEMMA TypeStep == ExecutorInv /\ [ExecutorNext]_executor => ExecutorTypeOK'
BY WorldStep, LoopStep, LogStep DEF ExecutorInv, ExecutorTypeOK

(* The table and the loop, as the distances of signals need them. *)
LEMMA Times ==
  ASSUME ExecutorTypeOK
  PROVE  /\ clock \in Int /\ hand \in Nat /\ Len(signals) \in Nat
         /\ DOMAIN signals = 1..Len(signals)
         /\ \A i \in DOMAIN signals : signals[i].at \in Int /\ signals[i].gap \in Int
<1>1. clock \in Int /\ hand \in Nat
  BY AgentAssumption DEF ExecutorTypeOK, WorldOK, LoopOK
<1>2. signals \in Seq(SignalRow)
  BY DEF ExecutorTypeOK, LogOK, SignalRow
<1>3. /\ Len(signals) \in Nat /\ DOMAIN signals = 1..Len(signals)
      /\ \A i \in DOMAIN signals : signals[i] \in SignalRow
  BY <1>2
<1> QED
  BY <1>1, <1>3 DEF SignalRow

(* The clock only adds to the distance of the signal in hand. *)
LEMMA SpacedStep == ExecutorInv /\ [ExecutorNext]_executor => SignalsSpaced' /\ HandSpaced'
<1> SUFFICES ASSUME ExecutorInv, [ExecutorNext]_executor PROVE SignalsSpaced' /\ HandSpaced'
  OBVIOUS
<1> USE DEF db, chain, world
<1>1. CASE /\ signals' = Append(signals, Row) /\ clock' = clock
           /\ step = "store" /\ step' # "store"
  <2> SUFFICES ASSUME NEW i \in DOMAIN signals', NEW j \in DOMAIN signals'
               PROVE  /\ signals'[j].at <= clock'
                      /\ i < j /\ signals'[i].token = signals'[j].token
                         => signals'[j].at - signals'[i].at >= signals'[j].gap
    BY <1>1 DEF SignalsSpaced, HandSpaced
  <2>1. /\ Len(signals') = Len(signals) + 1
        /\ DOMAIN signals' = 1..Len(signals')
        /\ signals'[Len(signals) + 1] = Row
        /\ \A k \in 1..Len(signals) : signals'[k] = signals[k]
    BY <1>1, Stored DEF ExecutorInv
  <2>2. CASE j \in 1..Len(signals)
    BY <1>1, <2>1, <2>2, Times DEF ExecutorInv, SignalsSpaced, HandSpaced
  <2>3. CASE j = Len(signals) + 1
    <3>1. /\ signals'[j].at = clock /\ signals'[j].gap = hand /\ signals'[j].token = T
      BY <2>1, <2>3 DEF Row
    <3>2. i < j => i \in DOMAIN signals /\ signals'[i] = signals[i]
      BY <2>1, <2>3, Times DEF ExecutorInv
    <3> QED
      BY <1>1, <3>1, <3>2, Times DEF ExecutorInv, HandSpaced
  <2> QED
    BY <2>1, <2>2, <2>3, Times DEF ExecutorInv
<1>2. CASE UNCHANGED <<signals, clock>> /\ step' # "store"
  BY <1>2 DEF ExecutorInv, SignalsSpaced, HandSpaced
<1>3. CASE UNCHANGED <<signals, loop>> /\ (clock' = clock \/ clock' = clock + 1)
  BY <1>3, Times DEF ExecutorInv, SignalsSpaced, HandSpaced, loop, T
<1>4. CASE Signal
  BY <1>4, Times, StrategyNat
     DEF Signal, Decide, Cooling, ExecutorInv, SignalsSpaced, HandSpaced, T
<1>5. CASE SignalBlind
  BY <1>5, Times DEF SignalBlind, Decide, ExecutorInv, SignalsSpaced, HandSpaced
<1>6. NextToken => step' # "store"
  BY DEF NextToken
<1>7. \/ /\ signals' = Append(signals, Row) /\ clock' = clock
         /\ step = "store" /\ step' # "store"
      \/ UNCHANGED <<signals, clock>> /\ step' # "store"
      \/ UNCHANGED <<signals, loop>> /\ (clock' = clock \/ clock' = clock + 1)
      \/ Signal \/ SignalBlind
  BY <1>6 DEF ExecutorNext, Executor, Tick, PriceMoves, StoreStrategy, Mine, Drop,
              Restart, StartPass, Quiet, LoadFails, Store, StoreFails, Record,
              RecordFails, Announce, executor
<1> QED
  BY <1>1, <1>2, <1>3, <1>4, <1>5, <1>7

(* What was sent are rows; a new row was never sent or announced. *)
LEMMA SentAreRows ==
  ASSUME ExecutorTypeOK
  PROVE  Sent \subseteq 1..Len(signals) /\ told \subseteq 1..Len(signals)
<1>1. \A i \in DOMAIN registry : registry[i] \in 1..Len(signals)
  BY DEF ExecutorTypeOK, LogOK
<1>2. \A x \in mempool : x.signal \in 1..Len(signals)
  BY DEF ExecutorTypeOK, LogOK
<1> QED
  BY <1>1, <1>2 DEF ExecutorTypeOK, LogOK, Sent

(* A transaction that is sent is the first one for its signal. *)
LEMMA Sending ==
  ASSUME ExecutorInv, step = "record", Transact, step' = "announce",
         UNCHANGED <<signals, registry, lost>>, marked' \subseteq marked \union {Id}
  PROVE  AuditTrail' /\ Final'
<1>1. PICK new : /\ \A x \in mempool : x.nonce # new.nonce
                 /\ new.signal = Id
                 /\ mempool' = mempool \union {new}
  <2>1. PICK n \in Int : /\ \A x \in mempool : x.nonce # n
                         /\ mempool' = mempool \union {[nonce |-> n, signal |-> Id]}
    BY DEF Transact, ExecutorInv, ExecutorTypeOK, LogOK
  <2> WITNESS [nonce |-> n, signal |-> Id]
  <2> QED
    BY <2>1
<1>2. Id \notin Sent /\ Id > 0
  BY DEF ExecutorInv, Final
<1>3. Sent' = Sent \union {Id}
  <2>1. {x.signal : x \in mempool'} = {x.signal : x \in mempool} \union {Id}
    BY <1>1
  <2> QED
    BY <2>1 DEF Sent
<1>4. AuditTrail'
  <2>1. \A x \in mempool' : \A i \in DOMAIN registry' : x.signal # registry'[i]
    BY <1>1, <1>2 DEF ExecutorInv, AuditTrail, Sent
  <2>2. \A x, y \in mempool' : x.signal = y.signal \/ x.nonce = y.nonce => x = y
    BY <1>1, <1>2 DEF ExecutorInv, AuditTrail, Sent
  <2>3. marked' \subseteq Sent'
    BY <1>3 DEF ExecutorInv, AuditTrail
  <2> QED
    BY <2>1, <2>2, <2>3 DEF ExecutorInv, AuditTrail
<1>5. Final'
  <2>1. lost' \intersect ({registry'[i] : i \in DOMAIN registry'}
                         \union {x.signal : x \in mempool'}) = {}
    BY <1>1, <1>2 DEF ExecutorInv, Final, Sent
  <2>2. Id' > 0
    BY <1>2 DEF Id
  <2> QED
    BY <2>1, <2>2 DEF Final
<1> QED
  BY <1>4, <1>5

(* The chain's log repeats nothing. *)
LEMMA TrailStep == ExecutorInv /\ [ExecutorNext]_executor => AuditTrail' /\ Final'
<1> SUFFICES ASSUME ExecutorInv, [ExecutorNext]_executor PROVE AuditTrail' /\ Final'
  OBVIOUS
<1> USE DEF db, chain
<1>1. NextToken => step' \in {"idle", "evaluate"}
  BY DEF NextToken
<1>2. CASE UNCHANGED log /\ (UNCHANGED step \/ step' \notin {"record", "announce"})
  BY <1>2 DEF log, ExecutorInv, AuditTrail, Final, Sent, Id
<1>3. CASE Mine
  <2>1. PICK x \in mempool :
          registry' = Append(registry, x.signal) /\ mempool' = mempool \ {x}
    BY <1>3 DEF Mine
  <2>2. /\ Len(registry) \in Nat /\ Len(registry') = Len(registry) + 1
        /\ DOMAIN registry = 1..Len(registry) /\ DOMAIN registry' = 1..Len(registry')
        /\ registry'[Len(registry) + 1] = x.signal
        /\ \A i \in 1..Len(registry) : registry'[i] = registry[i]
    BY <2>1 DEF ExecutorInv, ExecutorTypeOK, LogOK
  <2>3. {registry'[i] : i \in DOMAIN registry'}
          = {registry[i] : i \in DOMAIN registry} \union {x.signal}
    BY <2>2
  <2>4. Sent' = Sent
    BY <1>3, <2>1, <2>3 DEF Mine, Sent
  <2>5. AuditTrail'
    BY <1>3, <2>1, <2>2, <2>4 DEF Mine, ExecutorInv, AuditTrail
  <2>6. Final'
    BY <1>3, <2>1, <2>3, <2>4 DEF Mine, ExecutorInv, Final, Id, loop
  <2> QED
    BY <2>5, <2>6
<1>4. CASE Drop
  <2>1. PICK x \in mempool : mempool' = mempool \ {x} /\ lost' = lost \union {x.signal}
    BY <1>4 DEF Drop
  <2>2. Sent' = Sent
    BY <1>4, <2>1 DEF Drop, Sent
  <2>3. AuditTrail'
    BY <1>4, <2>1, <2>2 DEF Drop, ExecutorInv, AuditTrail
  <2>4. Final'
    BY <1>4, <2>1, <2>2 DEF Drop, ExecutorInv, AuditTrail, Final, Id, loop
  <2> QED
    BY <2>3, <2>4
<1>5. CASE Store
  <2>1. Id' = Len(signals) + 1 /\ Len(signals) \in Nat
    BY <1>5, Stored, Times DEF Store, Id, ExecutorInv
  <2>2. Sent' = Sent /\ told' = told
    BY <1>5 DEF Store, Sent
  <2>3. Id' \notin Sent' /\ Id' \notin told' /\ Id' > 0
    BY <2>1, <2>2, SentAreRows DEF ExecutorInv
  <2> QED
    BY <1>5, <2>2, <2>3 DEF Store, ExecutorInv, AuditTrail, Final
<1>6. CASE StoreFails
  BY <1>1, <1>6 DEF StoreFails, ExecutorInv, AuditTrail, Final, Sent
<1>7. CASE Record
  BY <1>7, Sending DEF Record
<1>8. CASE RecordFails
  <2>1. CASE Transact
    BY <1>8, <2>1, Sending DEF RecordFails
  <2>2. CASE UNCHANGED mempool
    BY <1>8, <2>2 DEF RecordFails, ExecutorInv, AuditTrail, Final, Sent, Id
  <2> QED
    BY <1>8, <2>1, <2>2 DEF RecordFails
<1>9. CASE Announce
  BY <1>1, <1>9 DEF Announce, ExecutorInv, AuditTrail, Final, Sent, Id
<1>10. UNCHANGED log => \/ UNCHANGED step \/ step' \notin {"record", "announce"}
                        \/ Store \/ Record \/ RecordFails
  BY <1>1 DEF ExecutorNext, Executor, Tick, PriceMoves, StoreStrategy, Mine, Drop,
              Restart, StartPass, Signal, SignalBlind, Decide, Quiet, LoadFails,
              StoreFails, Announce, executor, loop
<1> QED
  BY <1>2, <1>3, <1>4, <1>5, <1>6, <1>7, <1>8, <1>9, <1>10, NextCases

(* The inductive invariant holds in every reachable state. *)
THEOREM ExecutorInvariance == ExecutorSpec => []ExecutorInv
<1>1. ExecutorInv /\ [ExecutorNext]_executor => ExecutorInv'
  BY TypeStep, SpacedStep, TrailStep DEF ExecutorInv
<1> QED
  BY ExecutorInitially, <1>1, PTL DEF ExecutorSpec

(* A token's signals are a cooldown apart, as far as the query for the     *)
(* previous signal was answered.                                           *)
THEOREM SignalsSpacedHolds == ExecutorSpec => []SignalsSpaced
<1>1. ExecutorInv => SignalsSpaced
  BY DEF ExecutorInv
<1> QED
  BY ExecutorInvariance, <1>1, PTL

(* The contract's log repeats no signal, whatever is dropped or doubted.   *)
THEOREM AuditTrailHolds == ExecutorSpec => []AuditTrail
<1>1. ExecutorInv => AuditTrail
  BY DEF ExecutorInv
<1> QED
  BY ExecutorInvariance, <1>1, PTL
=============================================================================
