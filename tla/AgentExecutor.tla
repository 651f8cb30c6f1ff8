---------------------------- MODULE AgentExecutor ----------------------------
(***************************************************************************)
(* scanner/agent_executor.go: the trading agent.  Every quarter of an hour *)
(* it evaluates its tokens one after the other: a strategy found by the    *)
(* optimizer and a price away from its average make a signal, unless the   *)
(* token's last signal is younger than the strategy's cooldown.  A signal  *)
(* is stored in agent_signals, then sent to SignalRegistry.sol, then       *)
(* broadcast to Telegram.  Errors are logged and nothing is retried.       *)
(*                                                                         *)
(* Whether a price deviates beyond a threshold is an input, and BUY is not *)
(* told from SELL.  (In the present program no price ever does: the hours  *)
(* of a series all carry one price, see VwapOptimizer.)  Transactions wait *)
(* in the memory pool by their nonce.  Time is in ticks of the agent; the  *)
(* optimizer replaces strategies at any moment.                            *)
(***************************************************************************)
EXTENDS Integers, Sequences, SequencesExt

CONSTANTS
  Tokens,       \* mantleTokens, in the order of the loop
  Cooldowns,    \* cooldowns of the optimizer's grid
  OnChain,      \* SIGNAL_REGISTRY_ADDR and AGENT_PRIVATE_KEY are set
  MaxTicks,      \* bound: the clock
  MaxFaults     \* bound: database and network errors and restarts

ASSUME AgentAssumption ==
  /\ Tokens \in Seq(STRING)
  /\ Cooldowns \subseteq Nat \ {0}
  /\ OnChain \in BOOLEAN
  /\ MaxTicks \in Nat /\ MaxFaults \in Nat

Token == {Tokens[i] : i \in DOMAIN Tokens}
NoStrategy == 0

VARIABLES
  clock,
  due,       \* a tick of the agent's ticker waits in its channel
  strategy,  \* agent_strategies: the cooldown of a token's strategy
  deviates,  \* the tokens whose price is beyond a threshold
  at, step,  \* the executor: index of the token, "idle" or what it does next
  hand,      \* the distance to the last signal that was checked, or 0
  signals,   \* agent_signals, in the order of insertion
  marked,    \* the ids of signals whose on_chain_id is set
  mempool,   \* transactions of the agent's key that are not mined yet
  registry,  \* SignalRegistry.signals, as ids of agent_signals
  told,      \* signals that were broadcast
  lost,      \* history: signals whose transaction was dropped
  faults     \* errors and restarts so far

db    == <<strategy, signals, marked>>
chain == <<mempool, registry, lost>>
loop  == <<at, step, hand>>
world == <<clock, due, deviates>>
executor  == <<world, loop, db, chain, told, faults>>

Fault == faults < MaxFaults /\ faults' = faults + 1

ExecutorInit ==
  /\ clock = 0 /\ due = FALSE
  /\ strategy = [t \in Token |-> NoStrategy]
  /\ deviates = {}
  /\ at = 1 /\ step = "idle" /\ hand = 0
  /\ signals = <<>> /\ marked = {}
  /\ mempool = {} /\ registry = <<>> /\ lost = {}
  /\ told = {}
  /\ faults = 0

-----------------------------------------------------------------------------
(* The environment.  A tick that finds another one waiting is dropped. *)
Tick ==
  /\ clock < MaxTicks
  /\ clock' = clock + 1 /\ due' = TRUE
  /\ UNCHANGED <<deviates, loop, db, chain, told, faults>>

PriceMoves(t) ==
  /\ \/ deviates' = deviates \union {t}
     \/ deviates' = deviates \ {t}
  /\ UNCHANGED <<clock, due, loop, db, chain, told, faults>>

(* saveOptimResult: a token has one row, which each pass replaces. *)
StoreStrategy(t, c) ==
  /\ strategy' = [strategy EXCEPT ![t] = c]
  /\ UNCHANGED <<world, loop, signals, marked, chain, told, faults>>

Sent == {registry[i] : i \in DOMAIN registry} \union {x.signal : x \in mempool} \union lost

(* SignalRegistry.recordSignal appends. *)
Mine ==
  \E x \in mempool :
    /\ x.nonce = Len(registry)
    /\ registry' = Append(registry, x.signal)
    /\ mempool' = mempool \ {x}
    /\ UNCHANGED <<world, loop, db, lost, told, faults>>

(* The pool drops a transaction; its nonce goes to the next one sent. *)
Drop ==
  /\ Fault
  /\ \E x \in mempool : mempool' = mempool \ {x} /\ lost' = lost \union {x.signal}
  /\ UNCHANGED <<world, loop, db, registry, told>>

-----------------------------------------------------------------------------
(* Run: a pass over the tokens. *)
StartPass ==
  /\ step = "idle" /\ due
  /\ due' = FALSE
  /\ step' = IF Tokens = <<>> THEN "idle" ELSE "evaluate"
  /\ at' = 1 /\ hand' = 0
  /\ UNCHANGED <<clock, deviates, db, chain, told, faults>>

(* Definitions marked "wrong" are slips this code might contain: each is   *)
(* put in the place of the definition after it, to see a property fail.    *)

(* Wrong: the first token without a signal ends the pass. *)
NextTokenReturning ==
  /\ hand' = 0
  /\ IF at < Len(Tokens) /\ step # "evaluate"
     THEN at' = at + 1 /\ step' = "evaluate"
     ELSE at' = 1 /\ step' = "idle"

(* evaluateToken returns, with an error or without. *)
NextToken ==
  /\ hand' = 0
  /\ IF at < Len(Tokens) THEN at' = at + 1 /\ step' = "evaluate"
                         ELSE at' = 1 /\ step' = "idle"

T == Tokens[at]

(* Wrong: only the last signal stored is looked at, whichever token's. *)
CoolingLast(t, c) ==
  /\ signals # <<>>
  /\ Last(signals).token = t /\ clock - Last(signals).at < c

(* The token's last signal is younger than the cooldown c. *)
Cooling(t, c) ==
  \E i \in DOMAIN signals : signals[i].token = t /\ clock - signals[i].at < c

Wanted(t) == strategy[t] # NoStrategy /\ t \in deviates

Decide(gap) ==
  /\ step = "evaluate" /\ Wanted(T)
  /\ step' = "store"
  /\ hand' = gap
  /\ UNCHANGED <<world, at, db, chain, told>>

(* A signal is due ... *)
Signal ==
  /\ step = "evaluate" /\ ~Cooling(T, strategy[T])
  /\ Decide(strategy[T])
  /\ UNCHANGED faults

(* ... or the query for the last signal fails: its error is dropped, and   *)
(* the empty row it leaves looks like a signal of the year 1.              *)
SignalBlind ==
  /\ Fault
  /\ Decide(0)

(* No strategy, no deviation, or the cooldown is not over. *)
Quiet ==
  /\ step = "evaluate"
  /\ ~Wanted(T) \/ Cooling(T, strategy[T])
  /\ NextToken
  /\ UNCHANGED <<world, db, chain, told, faults>>

(* The strategy or the hourly points cannot be read: return nil. *)
LoadFails ==
  /\ step = "evaluate"
  /\ Fault
  /\ NextToken
  /\ UNCHANGED <<world, db, chain, told>>

Row == [token |-> T, at |-> clock, gap |-> hand]

Store ==
  /\ step = "store"
  /\ signals' = Append(signals, Row)
  /\ step' = IF OnChain THEN "record" ELSE "announce"
  /\ UNCHANGED <<world, at, hand, strategy, marked, chain, told, faults>>

(* Wrong: the error of the insert is logged only. *)
StoreFailsGoingOn ==
  /\ step = "store"
  /\ Fault
  /\ step' = IF OnChain THEN "record" ELSE "announce"
  /\ UNCHANGED <<world, at, hand, db, chain, told>>

(* The insert reports an error; the row may be there.  It is neither       *)
(* recorded nor announced.                                                 *)
StoreFails ==
  /\ step = "store"
  /\ Fault
  /\ UNCHANGED signals \/ signals' = Append(signals, Row)
  /\ NextToken
  /\ UNCHANGED <<world, strategy, marked, chain, told>>

Id == Len(signals)

(* Transact, with PendingNonceAt's first nonce that no transaction holds.  *)
Transact ==
  \E n \in Len(registry)..(Len(registry) + Len(signals)) :
    /\ \A x \in mempool : x.nonce # n
    /\ \A k \in Len(registry)..(n - 1) : \E x \in mempool : x.nonce = k
    /\ mempool' = mempool \union {[nonce |-> n, signal |-> Id]}

(* The transaction is sent, and on_chain_id set to the constant 0 that     *)
(* recordSignalOnChain returns, or that UPDATE fails, unnoticed.           *)
Record ==
  /\ step = "record"
  /\ Transact
  /\ \/ marked' = marked \union {Id} /\ UNCHANGED faults
     \/ UNCHANGED marked /\ Fault
  /\ step' = "announce"
  /\ UNCHANGED <<world, at, hand, strategy, signals, registry, lost, told>>

(* Wrong: a transaction that reports an error is sent again. *)
RecordFailsRetrying ==
  /\ step = "record"
  /\ Fault
  /\ Transact
  /\ UNCHANGED <<world, loop, db, registry, lost, told>>

(* Transact reports an error; the node may have taken the transaction. *)
RecordFails ==
  /\ step = "record"
  /\ Fault
  /\ UNCHANGED mempool \/ Transact
  /\ step' = "announce"
  /\ UNCHANGED <<world, at, hand, db, registry, lost, told>>

(* NotifyAgentTrade: to the first 100 users; an error is only logged. *)
Announce ==
  /\ step = "announce"
  /\ told' = told \union {Id}
  /\ NextToken
  /\ UNCHANGED <<world, db, chain, faults>>

(* A restart; the new ticker has not fired. *)
Restart ==
  /\ Fault
  /\ at' = 1 /\ step' = "idle" /\ hand' = 0 /\ due' = FALSE
  /\ UNCHANGED <<clock, deviates, db, chain, told>>

Executor ==
  \/ StartPass \/ Signal \/ SignalBlind \/ Quiet \/ LoadFails
  \/ Store \/ StoreFails \/ Record \/ RecordFails \/ Announce

ExecutorNext ==
  \/ Tick
  \/ \E t \in Token :
       \/ PriceMoves(t)
       \/ \E c \in Cooldowns : StoreStrategy(t, c)
  \/ Mine \/ Drop \/ Restart
  \/ Executor

(* The goroutine of the executor, the clock and the chain go on. *)
Fairness == WF_executor(Executor) /\ WF_executor(Tick) /\ WF_executor(Mine)

ExecutorSpec == ExecutorInit /\ [][ExecutorNext]_executor /\ Fairness

-----------------------------------------------------------------------------
WorldOK ==
  /\ clock \in 0..MaxTicks /\ faults \in 0..MaxFaults
  /\ due \in BOOLEAN
  /\ strategy \in [Token -> Cooldowns \union {NoStrategy}]
  /\ deviates \subseteq Token

LoopOK ==
  /\ step \in {"idle", "evaluate", "store", "record", "announce"}
  /\ at \in Nat
  /\ step # "idle" => at \in DOMAIN Tokens
  /\ hand \in Nat

LogOK ==
  /\ signals \in Seq([token : Token, at : 0..MaxTicks, gap : Nat])
  /\ marked \subseteq 1..Len(signals) /\ told \subseteq 1..Len(signals)
  /\ mempool \subseteq [nonce : Nat, signal : 1..Len(signals)]
  /\ registry \in Seq(1..Len(signals))
  /\ lost \subseteq 1..Len(signals)

ExecutorTypeOK == WorldOK /\ LoopOK /\ LogOK

(* A signal never follows the previous one of its token within the         *)
(* cooldown of the strategy that made it, whatever restarts, lost replies  *)
(* and new strategies come in between - unless the query that looks for    *)
(* the previous one failed (gap 0); and rows are stored in order of time.  *)
SignalsSpaced ==
  \A i, j \in DOMAIN signals :
    i < j /\ signals[i].token = signals[j].token
    => signals[j].at - signals[i].at >= signals[j].gap

(* The signal in hand, decided by a query that is some time old, still     *)
(* keeps its distance when it is stored.                                   *)
HandSpaced ==
  /\ \A i \in DOMAIN signals : signals[i].at <= clock
  /\ step = "store" => \A i \in DOMAIN signals :
                         signals[i].token = T => clock - signals[i].at >= hand

(* The chain's log is a log of the table: no signal is in it twice, mined  *)
(* or waiting, and a row with an on_chain_id has, or had, its transaction. *)
(* The order may differ: a dropped transaction's nonce is used by a later  *)
(* signal.                                                                 *)
AuditTrail ==
  /\ \A i, j \in DOMAIN registry : registry[i] = registry[j] => i = j
  /\ \A x, y \in mempool :
       x.signal = y.signal \/ x.nonce = y.nonce => x = y
  /\ \A x \in mempool : \A i \in DOMAIN registry : x.signal # registry[i]
  /\ marked \subseteq Sent

(* A dropped transaction is never sent again, and a signal is announced    *)
(* only when nothing more will be sent for it.                             *)
Final ==
  /\ lost \intersect ({registry[i] : i \in DOMAIN registry}
                       \union {x.signal : x \in mempool}) = {}
  /\ step \in {"record", "announce"} => Id > 0
  /\ step = "record" => Id \notin Sent /\ Id \notin told

(* The inductive invariant. *)
ExecutorInv == ExecutorTypeOK /\ SignalsSpaced /\ HandSpaced /\ AuditTrail /\ Final

(* A price that stays away from its average makes a signal: the agent,     *)
(* which never waits for an answer on another token, gets to it within the *)
(* next tick, unless the price comes back, the cooldown is not over or an  *)
(* error or a restart intervenes.                                          *)
SignalComes ==
  \A t \in Token, f \in 0..MaxFaults :
    clock < MaxTicks /\ Wanted(t) /\ faults = f
    ~> ~Wanted(t) \/ Cooling(t, strategy[t]) \/ faults > f
=============================================================================
