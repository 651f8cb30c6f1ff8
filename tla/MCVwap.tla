------------------------------- MODULE MCVwap -------------------------------
EXTENDS VwapOptimizer
MCGrid == {[vwap |-> 2, buy |-> 100, sell |-> 100, cooldown |-> 2],
           [vwap |-> 3, buy |-> 100, sell |-> 200, cooldown |-> 0]}
=============================================================================
