------------------------ MODULE MCPortfolioTokens ------------------------
EXTENDS PortfolioTokens

CONSTANTS held, other, fresh, bogus

(* A sale of two units is of more than is there, and of a part.             *)
TwoHoldings == <<[contract |-> held, amount |-> 1], [contract |-> other, amount |-> 3]>>
NoHoldings == << >>
==========================================================================
