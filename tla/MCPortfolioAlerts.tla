-------------------------- MODULE MCPortfolioAlerts --------------------------
(* Two portfolios, two tokens, and transfers on both sides of the          *)
(* thresholds.                                                             *)
EXTENDS PortfolioAlerts

MCHolds == [p \in Portfolios |-> IF p = "p1" THEN {"usdt", "mnt"} ELSE {"usdt"}]
MCProfile == [p \in Portfolios |-> IF p = "p1" THEN "balanced" ELSE "aggressive"]

T(token, amount) ==
  [token |-> token, exchange |-> TRUE, priced |-> TRUE,
   amount |-> amount, avg |-> 5, total |-> 4 * amount]

Large == T("usdt", 30)
Whale == T("usdt", 160)
WhaleMnt == T("mnt", 160)
Wallets == [Whale EXCEPT !.exchange = FALSE]
NoPrice == [T("mnt", 20) EXCEPT !.priced = FALSE]

AllTransactions == {<<Large, WhaleMnt>>, <<NoPrice, Whale>>, <<Wallets, Whale>>}
ReportTransactions == {<<Large>>, <<Large, WhaleMnt>>}
==============================================================================
