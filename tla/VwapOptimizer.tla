---------------------------- MODULE VwapOptimizer ----------------------------
(***************************************************************************)
(* scanner/strategy_optimizer.go: the optimizer of one token.  Every pass  *)
(* loads the hours that have activity, joined with token_prices, backtests *)
(* each combination of parameters and stores the one with the best Sharpe  *)
(* ratio.                                                                  *)
(*                                                                         *)
(* Prices and volumes are whole numbers and the arithmetic is exact:       *)
(* ratios are compared by cross-multiplication.  Thresholds are in tenths  *)
(* of a percent, the buy threshold as its absolute value.  The Sharpe      *)
(* ratio is not computed: any combination the backtest does not reject may *)
(* be the best.                                                            *)
(***************************************************************************)
EXTENDS Integers, Sequences, SequencesExt

CONSTANTS
  Prices,      \* prices a feed may report
  Volumes,     \* total_volume_usd of an hour; 0 when it is not known
  Grid,        \* the combinations: [vwap, buy, sell, cooldown]
  MinHours,    \* hours needed (48)
  MinTrades,   \* trades needed (3)
  RowLimit,    \* hours loaded (30 * 24)
  MaxHours     \* bound: hours with activity

None == [vwap |-> 0, buy |-> 0, sell |-> 0, cooldown |-> 0]

ASSUME OptimizerAssumption ==
  /\ Prices \subseteq Nat \ {0} /\ Volumes \subseteq Nat
  /\ Grid \subseteq [vwap : Nat \ {0}, buy : Nat \ {0}, sell : Nat \ {0}, cooldown : Nat]
  /\ MinHours \in Nat /\ MinTrades \in Nat \ {0}
  /\ RowLimit \in Nat \ {0} /\ MaxHours \in Nat

VARIABLES
  price,     \* the token's row in token_prices, 0 before the first price
  hours,     \* its rows in token_hourly_activity: the volume and, as history,
             \* the price the token had in that hour
  strategy,  \* its row in agent_strategies, None while there is none
  fresh      \* history: the latest pass has seen these hours and this price

optimizer == <<price, hours, strategy, fresh>>

-----------------------------------------------------------------------------
(* Definitions marked "wrong" are slips this code might contain: each is   *)
(* put in the place of the definition after it, to see a property fail.    *)

(* loadHourlyPoints: token_prices has one row per token (uniq_chain_contract), *)
(* and every hour is joined with it.                                           *)
Latest(rows) == SubSeq(rows, IF Len(rows) > RowLimit THEN Len(rows) - RowLimit + 1 ELSE 1,
                       Len(rows))

LoadHourlyPoints ==
  [i \in DOMAIN Latest(hours) |-> [volume |-> Latest(hours)[i].volume, price |-> price]]

(* computeVWAP at point i, as the two sums it divides: over the last       *)
(* period points, those with a volume and a price.                         *)
(* (WindowAll is wrong: the window has no beginning.)                      *)
WindowAll(pts, i, period) ==
  {j \in DOMAIN pts : j <= i /\ pts[j].volume > 0 /\ pts[j].price > 0}

Window(pts, i, period) ==
  {j \in DOMAIN pts : i - period < j /\ j <= i /\ pts[j].volume > 0 /\ pts[j].price > 0}

Vwap(pts, i, period) ==
  LET S == Window(pts, i, period)
  IN [pv |-> SumFunctionOnSet([j \in S |-> pts[j].price * pts[j].volume], S),
      v  |-> SumFunctionOnSet([j \in S |-> pts[j].volume], S)]

(* deviation <= buyPct and deviation >= sellPct. *)
Dips(p, w, buy)   == 1000 * (w.pv - p * w.v) >= buy * w.pv
Rises(p, w, sell) == 1000 * (p * w.v - w.pv) >= sell * w.pv

BacktestHourHasty(pts, g, s, i) ==
  LET w == Vwap(pts, i, g.vwap)
      p == pts[i].price
      usable == p > 0 /\ w.pv > 0
  IN CASE usable /\ s.entry = 0 /\ Dips(p, w, g.buy) -> [s EXCEPT !.entry = i]
       [] usable /\ s.entry > 0 /\ Rises(p, w, g.sell) ->
            [entry |-> 0, lastTrade |-> i,
             trades |-> Append(s.trades, [entry |-> s.entry, exit |-> i])]
       [] OTHER -> s

(* One hour of backtest: enter on a dip once the cooldown since the last   *)
(* exit is over, leave on a rise.                                          *)
BacktestHour(pts, g, s, i) ==
  LET w == Vwap(pts, i, g.vwap)
      p == pts[i].price
      usable == p > 0 /\ w.pv > 0
  IN CASE usable /\ s.entry = 0 /\ Dips(p, w, g.buy) /\ i - s.lastTrade >= g.cooldown ->
            [s EXCEPT !.entry = i]
       [] usable /\ s.entry > 0 /\ Rises(p, w, g.sell) ->
            [entry |-> 0, lastTrade |-> i,
             trades |-> Append(s.trades, [entry |-> s.entry, exit |-> i])]
       [] OTHER -> s

(* The trades backtest makes of a series of points. *)
Backtest(pts, g) ==
  LET after[i \in 0..Len(pts)] ==
        IF i = 0 THEN [entry |-> 0, lastTrade |-> -g.cooldown, trades |-> <<>>]
        ELSE BacktestHour(pts, g, after[i - 1], i)
  IN  after[Len(pts)].trades

SameReturn(pts, a, b) ==
  pts[a.exit].price * pts[b.entry].price = pts[b.exit].price * pts[a.entry].price

(* Enough trades, and a standard deviation of the returns that is not 0. *)
Valid(pts) ==
  {g \in Grid :
     LET trades == Backtest(pts, g)
     IN /\ Len(trades) >= MinTrades
        /\ \E i, j \in DOMAIN trades : ~SameReturn(pts, trades[i], trades[j])}

-----------------------------------------------------------------------------
OptimizerInit ==
  /\ price = 0
  /\ hours = <<>>
  /\ strategy = None
  /\ fresh = FALSE

(* The price daemon stores the price of the feed. *)
SetPrice(p) ==
  /\ price' = p
  /\ fresh' = FALSE
  /\ UNCHANGED <<hours, strategy>>

(* An hour with transfers of the token is over; an hour without any leaves *)
(* no row.                                                                 *)
CloseHour(v) ==
  /\ Len(hours) < MaxHours
  /\ hours' = Append(hours, [volume |-> v, price |-> price])
  /\ fresh' = FALSE
  /\ UNCHANGED <<price, strategy>>

(* RunStrategyOptimizer.  When no combination is valid, or there are not   *)
(* enough hours, the row stays as it is.                                   *)
RunStrategyOptimizer ==
  /\ fresh' = TRUE
  /\ LET found == IF Len(LoadHourlyPoints) < MinHours THEN {} ELSE Valid(LoadHourlyPoints)
     IN strategy' \in (IF found = {} THEN {strategy} ELSE found)
  /\ UNCHANGED <<price, hours>>

OptimizerNext ==
  \/ \E p \in Prices : SetPrice(p)
  \/ \E v \in Volumes : CloseHour(v)
  \/ RunStrategyOptimizer

OptimizerSpec == OptimizerInit /\ [][OptimizerNext]_optimizer

-----------------------------------------------------------------------------
OptimizerTypeOK ==
  /\ price \in Prices \union {0}
  /\ hours \in Seq([volume : Volumes, price : Prices \union {0}])
  /\ strategy \in Grid \union {None}
  /\ fresh \in BOOLEAN

(* The volume-weighted average of the latest hours lies between the lowest *)
(* and the highest of their prices, hours without volume or price in the   *)
(* window or not.                                                          *)
VwapWithinPrices ==
  \A g \in Grid :
    LET w == Vwap(hours, Len(hours), g.vwap)
        S == Window(hours, Len(hours), g.vwap)
    IN S # {} => /\ \E j \in S : hours[j].price * w.v <= w.pv
                 /\ \E j \in S : hours[j].price * w.v >= w.pv

(* The backtest does not look ahead: one more hour adds a trade or none to *)
(* those of the hours before it, and changes none.                         *)
BacktestCausal ==
  \A g \in Grid :
    hours # <<>> => IsPrefix(Backtest(Front(hours), g), Backtest(hours, g))

(* Trades do not overlap, and each waits for the cooldown after the exit   *)
(* of the one before.                                                      *)
TradesSeparate ==
  \A g \in Grid :
    LET trades == Backtest(hours, g)
    IN \A i \in DOMAIN trades :
         /\ trades[i].entry < trades[i].exit
         /\ i > 1 => trades[i].entry - trades[i-1].exit >= g.cooldown

(* The executor evaluates the latest hour on the last vwap + 1 points      *)
(* alone; the optimizer saw the whole series.  Their averages agree.       *)
ShortLoadSuffices ==
  \A g \in Grid :
    LET short == SubSeq(hours, IF Len(hours) > g.vwap + 1 THEN Len(hours) - g.vwap ELSE 1,
                        Len(hours))
    IN hours # <<>> => Vwap(short, Len(short), g.vwap) = Vwap(hours, Len(hours), g.vwap)

(* Types, and trades that neither look ahead nor follow too soon.          *)
BacktestInv == OptimizerTypeOK /\ BacktestCausal /\ TradesSeparate

(* The average is one of the window's prices, and the same for optimizer   *)
(* and executor.                                                           *)
AverageInv == VwapWithinPrices /\ ShortLoadSuffices

(* What "the last 30 days of hourly data" of the README are: each hour     *)
(* with the price it had.                                                  *)
OwnPrices == Latest(hours)

(* A pass over hours whose data yield a winner leaves a strategy.  README: *)
(* the optimizer backtests the hourly data of the token every 6 hours, and *)
(* "the winning parameters are written"; its example has 22 trades.        *)
WinnerStored ==
  fresh /\ Len(OwnPrices) >= MinHours /\ Valid(OwnPrices) # {} => strategy # None

(* Instead, however the price moves from hour to hour, no strategy comes   *)
(* of it: the points of a series all carry the price of the moment, their  *)
(* average is that price, and nothing deviates from it.                    *)
FlatSeriesIdle == strategy = None
=============================================================================
