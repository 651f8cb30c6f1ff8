----------------------------- MODULE PriceRefresh -----------------------------
(***************************************************************************)
(* token_prices and the daemons that keep it fresh: StartTokenPriceDaemon  *)
(* for some chains, each of which takes the rows that were updated longest *)
(* ago, whatever their chain, and works on its own among them.  Beside     *)
(* them the goroutines of new stubs write the same rows (the life of a     *)
(* stub and of its holdings is the matter of PortfolioTokens).             *)
(*                                                                         *)
(* Time is the order of updated_at and the question whether a row is       *)
(* younger than the minute TokenPriceTTL.  Prices themselves are left out. *)
(***************************************************************************)
EXTENDS Lists, SequencesExt, FiniteSetsExt

CONSTANTS
  Rows,      \* the contracts there may be
  ChainOf,   \* the chain of each
  Chains,    \* the chains that have a daemon
  Stored,    \* the table when the process starts, the oldest row first
  Quoted,    \* contracts that have a price
  Illiquid,  \* contracts without liquidity, or with a price nobody believes
  Limit,     \* MaxUpdatesPerTick
  MaxStubs,  \* bound: new stubs
  MaxFaults  \* bound: calls that fail, restarts

ASSUME PricesAssumption ==
  /\ ChainOf \in [Rows -> Nat] /\ Chains \subseteq Nat
  /\ Stored \in Seq(Rows) /\ IsInjective(Stored)
  /\ Quoted \subseteq Rows /\ Illiquid \subseteq Rows \ Quoted
  /\ Limit \in Nat \ {0} /\ MaxStubs \in Nat /\ MaxFaults \in Nat

VARIABLES
  table,      \* token_prices in order of updated_at
  fresh,      \* rows younger than TokenPriceTTL
  symbols,    \* rows whose symbol is known; others have "UNKNOWN"
  resolving,  \* stubs with a goroutine at work
  todo,       \* for each daemon the rows it has read and not yet handled
  stubs, faults

prices == <<table, fresh, symbols, resolving, todo, stubs, faults>>

Fault == faults < MaxFaults /\ faults' = faults + 1
InTable(r) == r \in ToSet(table)

PricesInit ==
  /\ table = Stored /\ fresh = {}
  /\ symbols = ToSet(Stored)
  /\ resolving = {}
  /\ todo = [c \in Chains |-> <<>>]
  /\ stubs = 0 /\ faults = 0

-----------------------------------------------------------------------------
(* Definitions marked "wrong" are slips this code might contain: each is   *)
(* put in the place of the definition after it, to see a property fail.    *)

(* updated_at = NOW(), where the row is still there. *)
Renewed(r) == IF InTable(r) THEN Append(Keep(table, Rows \ {r}), r) ELSE table
FreshWith(r) == IF InTable(r) THEN fresh \union {r} ELSE fresh

(* A minute has passed for the row that was updated first among the fresh. *)
Age ==
  /\ fresh # {}
  /\ fresh' = fresh \ {table[Min({i \in DOMAIN table : table[i] \in fresh})]}
  /\ UNCHANGED <<table, symbols, resolving, todo, stubs, faults>>

(* InsertTokenStub, whose updated_at is the epoch, and its goroutine. *)
NewStub(r) ==
  /\ ~InTable(r) /\ stubs < MaxStubs
  /\ stubs' = stubs + 1
  /\ table' = <<r>> \o table
  /\ resolving' = resolving \union {r}
  /\ UNCHANGED <<fresh, symbols, todo, faults>>

Resolved(r) ==
  /\ r \in resolving /\ r \in Quoted
  /\ resolving' = resolving \ {r}
  /\ table' = Renewed(r) /\ fresh' = FreshWith(r)
  /\ symbols' = symbols \union {r}
  /\ UNCHANGED <<todo, stubs, faults>>

RolledBack(r) ==
  /\ r \in resolving
  /\ resolving' = resolving \ {r}
  /\ table' = Keep(table, Rows \ {r})
  /\ fresh' = fresh \ {r} /\ symbols' = symbols \ {r}
  /\ IF r \in Quoted THEN Fault ELSE UNCHANGED faults
  /\ UNCHANGED <<todo, stubs>>

-----------------------------------------------------------------------------
(* Wrong: ORDER BY updated_at DESC. *)
Newest == SubSeq(Reverse(table), 1, Min({Limit, Len(table)}))

(* DB_GetTokensForRefresh: ORDER BY updated_at ASC LIMIT. *)
Oldest == SubSeq(table, 1, Min({Limit, Len(table)}))

(* A row as the daemon reads it. *)
Read(r) == [row |-> r, stale |-> r \notin fresh, symbol |-> r \in symbols]

(* A pass of the daemon begins; it leaves out the rows of other chains. *)
Tick(c) ==
  /\ todo[c] = <<>>
  /\ LET own == Keep(Oldest, {r \in Rows : ChainOf[r] = c})
     IN  own # <<>> /\ todo' = [todo EXCEPT ![c] = [i \in DOMAIN own |-> Read(own[i])]]
  /\ UNCHANGED <<table, fresh, symbols, resolving, stubs, faults>>

Now(c) == Head(todo[c])
Handled(c) ==
  /\ todo[c] # <<>>
  /\ todo' = [todo EXCEPT ![c] = Tail(@)]
  /\ UNCHANGED <<resolving, stubs>>

(* The row was younger than the TTL when it was read, and still is. *)
Skip(c) ==
  /\ Handled(c)
  /\ ~Now(c).stale
  /\ UNCHANGED <<table, fresh, symbols, faults>>

(* Wrong: the symbol is asked for although the row has one. *)
UpdateAsking(c) ==
  /\ Handled(c)
  /\ Now(c).row \in Quoted
  /\ table' = Renewed(Now(c).row) /\ fresh' = FreshWith(Now(c).row)
  /\ \/ InTable(Now(c).row) /\ symbols' = symbols \union {Now(c).row}
     \/ symbols' = symbols \ {Now(c).row}
  /\ UNCHANGED faults

(* DB_UpdateTokenPrice.  It writes the symbol that was read, too; one that *)
(* was not known is asked for, perhaps in vain.                            *)
Update(c) ==
  /\ Handled(c)
  /\ Now(c).row \in Quoted
  /\ table' = Renewed(Now(c).row) /\ fresh' = FreshWith(Now(c).row)
  /\ \/ InTable(Now(c).row) /\ symbols' = symbols \union {Now(c).row}
     \/ ~Now(c).symbol /\ symbols' = symbols \ {Now(c).row}
     \/ ~InTable(Now(c).row) /\ UNCHANGED symbols
  /\ UNCHANGED faults

(* A pool that cannot be asked counts as one without liquidity. *)
NoLiquidity(r) == IF r \in Illiquid THEN UNCHANGED faults ELSE r \in Quoted /\ Fault

(* DB_TouchTokenPrice: no liquidity, or an absurd price. *)
Touch(c) ==
  /\ Handled(c)
  /\ table' = Renewed(Now(c).row) /\ fresh' = FreshWith(Now(c).row)
  /\ NoLiquidity(Now(c).row)
  /\ UNCHANGED symbols

(* An oracle does not answer, or never does. *)
NoAnswer(r) == IF r \in Quoted \union Illiquid THEN Fault ELSE UNCHANGED faults

(* No answer, or the UPDATE fails. *)
LookupFails(c) ==
  /\ Handled(c)
  /\ NoAnswer(Now(c).row)
  /\ UNCHANGED <<table, fresh, symbols>>

PricesRestart ==
  /\ Fault
  /\ resolving' = {} /\ todo' = [c \in Chains |-> <<>>]
  /\ UNCHANGED <<table, fresh, symbols, stubs>>

-----------------------------------------------------------------------------
RefreshSingleToken(c) == Skip(c) \/ Update(c) \/ Touch(c) \/ LookupFails(c)
Daemon(c) == Tick(c) \/ RefreshSingleToken(c)

(* What does not concern the holdings of a portfolio. *)
PricesNext ==
  \/ Age
  \/ \E c \in Chains : Daemon(c)
  \/ \E r \in Rows : Resolved(r)

(* The ticker of each daemon ticks, and calls return. *)
PricesFairness == \A c \in Chains : WF_prices(Daemon(c))

-----------------------------------------------------------------------------
PricesTypeOK ==
  /\ table \in Seq(Rows) /\ IsInjective(table)
  /\ symbols \subseteq ToSet(table)
  /\ \A i, j \in DOMAIN table : table[i] \in fresh /\ i < j => table[j] \in fresh
  /\ fresh \subseteq ToSet(table)
  /\ resolving \subseteq ToSet(table)
  /\ todo \in [Chains -> Seq([row : Rows, stale : BOOLEAN, symbol : BOOLEAN])]
  /\ \A c \in Chains : \A i \in DOMAIN todo[c] : ChainOf[todo[c][i].row] = c
  /\ stubs \in 0..MaxStubs /\ faults \in 0..MaxFaults

(* Rows nobody ever updates: of a chain without a daemon, or with an       *)
(* oracle that does not answer.                                            *)
Stuck == {r \in Rows : ChainOf[r] \notin Chains \/ r \notin Quoted \union Illiquid}

(* As long as there are fewer of these than a daemon reads at once, every  *)
(* other row's turn comes: it does not stay older than the TTL, wherever   *)
(* it stands among the rows of other chains and however many new stubs     *)
(* push in at the front.  With three of them no price is ever refreshed.   *)
EveryRowRefreshed ==
  Cardinality(Stuck) < Limit =>
    \A r \in Rows \ Stuck : (InTable(r) /\ r \notin fresh) ~> (~InTable(r) \/ r \in fresh)

(* A symbol that is known stays, whichever daemon updates the row, once no *)
(* daemon has the row in hand as it was before.  One that has writes       *)
(* "UNKNOWN" over the goroutine's symbol.                                  *)
SettledSymbolStays ==
  [][\A r \in symbols :
       (\A c \in Chains : \A i \in DOMAIN todo[c] :
          todo[c][i].row = r => todo[c][i].symbol)
         => r \in symbols' \/ r \notin ToSet(table')]_prices
=============================================================================
