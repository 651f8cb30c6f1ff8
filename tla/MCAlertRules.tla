----------------------------- MODULE MCAlertRules -----------------------------
(* Two users whose wallets meet in a transaction; a rule with three        *)
(* filters on one wallet, two of them, of different users, on its          *)
(* finances.                                                               *)
EXTENDS AlertRules

On(address, gas, finance, tokens, min) ==
  [named |-> TRUE, address |-> address, gas |-> gas, finance |-> finance,
   tokens |-> tokens, min |-> min]

Swaps    == On("alice", NoGas, NoFinance, {"usdt", "mnt"}, 5)
Finances == On("alice", NoGas, 10, {"usdt"}, 0)
Dear     == On("alice", 30, 12, {}, 0)
Bobs     == On("bob", NoGas, NoFinance, {"usdt"}, 0)
NoWallet == On("", NoGas, NoFinance, {"pepe", "dai"}, 0)
Unnamed  == [Bobs EXCEPT !.named = FALSE]

MCConditions == {Bobs, NoWallet, Unnamed}
MCStoredRules == ("r1" :> "ann") @@ ("r2" :> "ben")
Filter(id, rule, user, when) == [id |-> id, rule |-> rule, user |-> user, when |-> when]
MCStoredFilters ==
  <<Filter(1, "r1", "ann", Swaps), Filter(2, "r1", "ann", Finances),
    Filter(3, "r2", "ben", Bobs), Filter(4, "r1", "ben", Dear)>>

Transfer(token, from, to, usd) == [token |-> token, from |-> from, to |-> to, usd |-> usd]
Buy == [from |-> "alice", to |-> "pool", gwei |-> 50, value |-> 0,
        transfers |-> {Transfer("usdt", "alice", "pool", 6), Transfer("dai", "alice", "pool", 6),
                       Transfer("mnt", "pool", "alice", 7)}]
Pay == [from |-> "carol", to |-> "bob", gwei |-> 10, value |-> 3,
        transfers |-> {Transfer("usdt", "carol", "bob", 4), Transfer("pepe", "pool", "alice", 9)}]
MCBlocks == {<<Buy, Pay>>, <<Pay>>}
=============================================================================
