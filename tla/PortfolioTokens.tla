-------------------------- MODULE PortfolioTokens --------------------------
(***************************************************************************)
(* scanner/handlersApi.go: the HTTP requests that change what a portfolio  *)
(* holds (AddTokenToPortfolioHandler, RealizePortfolioOperationHandler),   *)
(* and the life of a price row they may have to create: EnsureTokenPrice   *)
(* inserts a stub and ProcessTokenAsync completes it or rolls it back, in  *)
(* a goroutine of its own that uses the request's context.                 *)
(*                                                                         *)
(* Every SQL statement is a transaction of its own, so a request is a      *)
(* sequence of steps between which anything may happen.  One portfolio;    *)
(* a token costs one dollar when it is bought, so that a quantity is both  *)
(* an amount and what was invested.                                        *)
(***************************************************************************)
EXTENDS Integers, Sequences, FiniteSets, FiniteSetsExt, Functions

CONSTANTS
  Slots,        \* requests that may be in flight together
  Contracts,    \* tokens users name
  Resolvable,   \* those that have a price and a symbol on their chain
  NeedsCtx,     \* those whose price or symbol is read with the request's ctx
  Quantities,   \* quantities users name
  Opening,      \* what the portfolio holds at first, a sequence of rows
  MaxRequests,  \* bound: requests in a behaviour
  MaxFaults     \* bound: failing statements, failing RPC calls and restarts

ASSUME PortfolioAssumption ==
  /\ Contracts # {} /\ Slots # {} /\ IsFiniteSet(Slots)
  /\ Resolvable \subseteq Contracts /\ NeedsCtx \subseteq Contracts
  /\ Quantities \subseteq Nat \ {0}
  /\ Opening \in Seq([contract : Resolvable, amount : Nat \ {0}])
  /\ \A i, j \in DOMAIN Opening : Opening[i].contract = Opening[j].contract => i = j
  /\ MaxRequests \in Nat /\ MaxFaults \in Nat

None == 0   \* no row
Empty == [i \in {} |-> 0]

VARIABLES
  prices,   \* table token_prices: id -> contract, and whether it has a price
  tokens,   \* table tokens: id -> the price row it refers to, and its amounts
  total,    \* portfolios.total_invested
  lastId,   \* AUTO_INCREMENT of the two tables
  req,      \* the requests
  job,      \* the ProcessTokenAsync under way, by the id of their stub
  spent,    \* requests and faults so far
  owed,     \* history: what the answered requests have left of each contract
  excused,  \* history: contracts two requests met on, or one failed halfway
  alone,    \* history: has the request of a slot met no other and no rollback
  settled   \* history: nothing has disturbed the totals since they were right

rows    == <<prices, tokens, total, lastId>>
history == <<owed, excused, alone, settled>>
vars    == <<rows, req, job, spent, history>>

Kinds == {"add", "cash", "swap", "new", "rule"}
Steps == {"idle", "source", "spend", "credit", "ensure", "stub", "price",
          "find", "write", "read", "total", "poll"}

(* contract: what the request buys, if it does.  from, seen: the row it     *)
(* sells or adds to, and the amounts it has read there.  wrote: has it      *)
(* changed the holdings.                                                    *)
NoRequest == [kind |-> "add", step |-> "idle", contract |-> CHOOSE c \in Contracts : TRUE,
              sells |-> {}, qty |-> 0, from |-> None, to |-> None, price |-> None,
              seen |-> [amount |-> 0, invested |-> 0], sum |-> 0, wrote |-> FALSE]

Amounts == [amount : Nat, invested : Nat]
RequestType ==
  [kind : Kinds, step : Steps, contract : Contracts, sells : SUBSET Contracts,
   qty : Nat, from : Nat, to : Nat, price : Nat, seen : Amounts, sum : Nat, wrote : BOOLEAN]

JobSteps == {"resolving", "resolved", "failed", "emptied"}

(* The portfolio an earlier process has left: priced rows, no two of one    *)
(* contract.                                                                *)
Init ==
  /\ prices = [i \in DOMAIN Opening |-> [contract |-> Opening[i].contract, priced |-> TRUE]]
  /\ tokens = [i \in DOMAIN Opening |->
                 [price |-> i, amount |-> Opening[i].amount, invested |-> Opening[i].amount]]
  /\ lastId = [prices |-> Len(Opening), tokens |-> Len(Opening)]
  /\ total = SumFunctionOnSet([i \in DOMAIN Opening |-> Opening[i].amount], DOMAIN Opening)
  /\ req = [r \in Slots |-> NoRequest]
  /\ job = Empty
  /\ spent = [requests |-> 0, faults |-> 0]
  /\ owed = [c \in Contracts |->
               SumFunctionOnSet([i \in DOMAIN Opening |-> Opening[i].amount],
                                {i \in DOMAIN Opening : Opening[i].contract = c})]
  /\ excused = {} /\ alone = [r \in Slots |-> TRUE] /\ settled = TRUE

-----------------------------------------------------------------------------
(* Helpers. *)
ContractOf(t) == prices[tokens[t].price].contract
RowsOf(c) == {t \in DOMAIN tokens : ContractOf(t) = c}
HeldOf(c) == SumFunctionOnSet([t \in DOMAIN tokens |-> tokens[t].amount], RowsOf(c))
Invested == SumFunctionOnSet([t \in DOMAIN tokens |-> tokens[t].invested], DOMAIN tokens)
PriceRows(c) == {i \in DOMAIN prices : prices[i].contract = c}
InFlight(r) == req[r].step # "idle"
Quiet == \A r \in Slots : ~InFlight(r)
With(f, x, v) == [y \in DOMAIN f \cup {x} |-> IF y = x THEN v ELSE f[y]]

Less(a, b) == IF a > b THEN a - b ELSE 0

(* The contracts whose holdings request q changes. *)
Touches(q) == q.sells \cup (IF q.kind \in {"add", "new", "swap"} THEN {q.contract} ELSE {})

Fault == spent.faults < MaxFaults /\ spent' = [spent EXCEPT !.faults = @ + 1]

At(r, step) == req[r].step = step
Goto(r, step) == req' = [req EXCEPT ![r].step = step]

-----------------------------------------------------------------------------
(* A request arrives.  The application offers rows of the portfolio to sell *)
(* and to swap into.  A "rule" request is CreateAlertRuleHandler, which     *)
(* needs a price row too.                                                   *)
Begin(r, q) ==
  LET others == {s \in Slots \ {r} : InFlight(s) /\ {q.kind, req[s].kind} \cap {"rule"} = {}}
  IN  /\ ~InFlight(r)
      /\ spent.requests < MaxRequests
      /\ spent' = [spent EXCEPT !.requests = @ + 1]
      /\ req' = [req EXCEPT ![r] = q]
      /\ excused' = excused \cup UNION {Touches(q) \cap Touches(req[s]) : s \in others}
      /\ alone' = [s \in Slots |-> IF s = r THEN others = {} ELSE alone[s] /\ s \notin others]
      /\ settled' = (settled /\ others = {})
      /\ UNCHANGED <<rows, job, owed>>

Add(r, c, n) == Begin(r, [NoRequest EXCEPT !.kind = "add", !.step = "ensure", !.contract = c, !.qty = n])

MakeRule(r, c) == Begin(r, [NoRequest EXCEPT !.kind = "rule", !.step = "ensure", !.contract = c])

Sell(r, kind, t, n, c, to) ==
  Begin(r, [NoRequest EXCEPT !.kind = kind, !.step = "source", !.contract = c,
                             !.sells = {ContractOf(t)}, !.qty = n, !.from = t, !.to = to])

SellCash(r, t, n) == Sell(r, "cash", t, n, ContractOf(t), None)
SellSwap(r, t, n, to) == to # t /\ Sell(r, "swap", t, n, ContractOf(to), to)
SellNew(r, t, n, c) == Sell(r, "new", t, n, c, None)

(* The answer to a request.  Its deferred cancel() ends the context of the  *)
(* goroutine it started.                                                    *)
CancelJobs(r) ==
  job' = [i \in DOMAIN job |->
            [job[i] EXCEPT !.ctx = IF @ = {r} THEN {} ELSE @]]

AnswerError(r) ==
  LET q == req[r] IN
  /\ req' = [req EXCEPT ![r] = NoRequest]
  /\ CancelJobs(r)
  /\ excused' = excused \cup IF q.wrote THEN Touches(q) ELSE {}
  /\ settled' = (settled /\ ~q.wrote)
  /\ UNCHANGED <<owed, alone>>

OwedAfter(q, c) ==
  LET left == IF c \in q.sells THEN Less(owed[c], q.qty) ELSE owed[c]
  IN  IF q.kind \in {"add", "new", "swap"} /\ q.contract = c THEN left + q.qty ELSE left

AnswerOk(r) ==
  /\ req' = [req EXCEPT ![r] = NoRequest]
  /\ CancelJobs(r)
  /\ owed' = [c \in Contracts |-> OwedAfter(req[r], c)]
  /\ settled' = (settled \/ (alone[r] /\ req[r].kind # "rule"))
  /\ UNCHANGED <<excused, alone>>

-----------------------------------------------------------------------------
(* EnsureTokenPrice: look for the row, insert a stub if there is none, and  *)
(* start its processing.  The unique key refuses a second stub.             *)
AfterEnsure(kind) ==
  CASE kind = "add" -> "find" [] kind = "new" -> "price" [] kind = "rule" -> "poll"

Ensure(r) ==
  /\ At(r, "ensure")
  /\ LET found == PriceRows(req[r].contract) IN
     \/ /\ found = {}
        /\ Goto(r, "stub")
     \/ \E i \in found :
          req' = [req EXCEPT ![r].price = i, ![r].step = AfterEnsure(req[r].kind)]
  /\ UNCHANGED <<rows, job, spent, history>>

(* Wrong: the table has no unique key. *)
AlwaysNew(c) == TRUE

UniqueKey(c) == PriceRows(c) = {}

InsertStub(r) ==
  LET id == lastId.prices + 1
      q  == req[r] IN
  /\ At(r, "stub")
  /\ \/ /\ UniqueKey(q.contract)
        /\ prices' = With(prices, id, [contract |-> q.contract, priced |-> FALSE])
        /\ lastId' = [lastId EXCEPT !.prices = id]
        /\ job' = With(job, id, [step |-> "resolving", ctx |-> {r}])
        /\ req' = [req EXCEPT ![r].price = id, ![r].step = AfterEnsure(q.kind)]
        /\ UNCHANGED <<tokens, total, spent, history>>
     \/ /\ ~UniqueKey(q.contract)
        /\ AnswerError(r)
        /\ UNCHANGED <<rows, spent>>

(* CreateAlertRuleHandler waits for the price, gives up when the row is     *)
(* gone or when six seconds have passed.                                    *)
PollPrice(r) ==
  LET i == req[r].price IN
  /\ At(r, "poll")
  /\ \/ i \in DOMAIN prices /\ prices[i].priced /\ AnswerOk(r)
     \/ i \notin DOMAIN prices /\ AnswerError(r)
  /\ UNCHANGED <<rows, spent>>

(* Wrong: it waits for as long as it takes. *)
NoDeadline(r) == FALSE

Deadline(r) == At(r, "poll")

PollTimeout(r) ==
  /\ Deadline(r)
  /\ AnswerError(r)
  /\ UNCHANGED <<rows, spent>>

-----------------------------------------------------------------------------
(* Selling: read the amount, then delete or update the row.                 *)
ReadSource(r) ==
  LET t == req[r].from IN
  /\ At(r, "source")
  /\ \/ /\ t \in DOMAIN tokens
        /\ req' = [req EXCEPT ![r].seen = [amount |-> tokens[t].amount, invested |-> 0],
                              ![r].step = "spend"]
        /\ UNCHANGED <<job, history>>
     \/ /\ t \notin DOMAIN tokens
        /\ AnswerError(r)
  /\ UNCHANGED <<rows, spent>>

AfterSpend(kind) ==
  CASE kind = "cash" -> "read" [] kind = "swap" -> "credit" [] kind = "new" -> "ensure"

SoldRow(t, left) ==
  IF left = 0 THEN Restrict(tokens, DOMAIN tokens \ {t})
              ELSE [tokens EXCEPT ![t].amount = left]

SpendSource(r) ==
  LET q    == req[r]
      left == Less(q.seen.amount, q.qty) IN
  /\ At(r, "spend")
  /\ tokens' = IF q.from \in DOMAIN tokens THEN SoldRow(q.from, left) ELSE tokens
  /\ req' = [req EXCEPT ![r].wrote = TRUE, ![r].step = AfterSpend(q.kind)]
  /\ UNCHANGED <<prices, total, lastId, job, spent, history>>

Credited(t, n) ==
  [tokens EXCEPT ![t].amount = @ + n, ![t].invested = @ + n]

(* REALIZE_SWAP: one UPDATE.  A target that is gone is no error. *)
CreditTarget(r) ==
  LET q == req[r] IN
  /\ At(r, "credit")
  /\ tokens' = IF q.to \in DOMAIN tokens THEN Credited(q.to, q.qty) ELSE tokens
  /\ Goto(r, "read")
  /\ UNCHANGED <<prices, total, lastId, job, spent, history>>

(* REALIZE_NEW_TOKEN: the price of the row, fetched and stored by the       *)
(* request itself if there is none yet.                                     *)
FindPrice(r) ==
  LET i == req[r].price IN
  /\ At(r, "price")
  /\ \/ /\ i \in DOMAIN prices /\ prices[i].priced
        /\ UNCHANGED <<prices, spent>>
     \/ /\ ~(i \in DOMAIN prices /\ prices[i].priced)
        /\ req[r].contract \in Resolvable
        /\ prices' = IF i \in DOMAIN prices THEN [prices EXCEPT ![i].priced = TRUE] ELSE prices
        /\ UNCHANGED spent
     \/ /\ req[r].contract \in Resolvable /\ Fault   \* the UPDATE fails, unheeded
        /\ UNCHANGED prices
  /\ Goto(r, "find")
  /\ UNCHANGED <<tokens, total, lastId, job, history>>

NoPrice(r) ==
  LET i == req[r].price IN
  /\ At(r, "price")
  /\ ~(i \in DOMAIN prices /\ prices[i].priced)
  /\ \/ req[r].contract \notin Resolvable /\ UNCHANGED spent
     \/ /\ req[r].contract \in Resolvable /\ Fault
  /\ AnswerError(r)
  /\ UNCHANGED rows

-----------------------------------------------------------------------------
(* Buying: look for the token in the portfolio, then insert or add.         *)
FindToken(r) ==
  LET found == {t \in DOMAIN tokens : tokens[t].price = req[r].price} IN
  /\ At(r, "find")
  /\ \/ /\ found = {}
        /\ req' = [req EXCEPT ![r].to = None, ![r].step = "write"]
     \/ \E t \in found :
          req' = [req EXCEPT ![r].to = t, ![r].step = "write",
                    ![r].seen = [amount |-> tokens[t].amount, invested |-> tokens[t].invested]]
  /\ UNCHANGED <<rows, job, spent, history>>

ForeignKey(i) == i \in DOMAIN prices

InsertToken(r) ==
  LET q  == req[r]
      id == lastId.tokens + 1 IN
  /\ At(r, "write") /\ q.to = None
  /\ \/ /\ ForeignKey(q.price)
        /\ tokens' = With(tokens, id, [price |-> q.price, amount |-> q.qty, invested |-> q.qty])
        /\ lastId' = [lastId EXCEPT !.tokens = id]
        /\ req' = [req EXCEPT ![r].wrote = TRUE, ![r].step = "read"]
        /\ UNCHANGED <<prices, total, job, history>>
     \/ /\ ~ForeignKey(q.price)
        /\ AnswerError(r)
        /\ UNCHANGED rows
  /\ UNCHANGED spent

(* Wrong: the new quantity replaces the old. *)
Replaced(q, row) == [row EXCEPT !.amount = q.qty, !.invested = q.qty]

(* An addition writes back what it has read; a swap adds in the database.   *)
Enlarged(q, row) ==
  IF q.kind = "add"
  THEN [row EXCEPT !.amount = q.seen.amount + q.qty, !.invested = q.seen.invested + q.qty]
  ELSE [row EXCEPT !.amount = @ + q.qty, !.invested = @ + q.qty]

UpdateToken(r) ==
  LET q == req[r] IN
  /\ At(r, "write") /\ q.to # None
  /\ tokens' = IF q.to \in DOMAIN tokens THEN [tokens EXCEPT ![q.to] = Enlarged(q, @)] ELSE tokens
  /\ req' = [req EXCEPT ![r].wrote = TRUE, ![r].step = "read"]
  /\ UNCHANGED <<prices, total, lastId, job, spent, history>>

(* The portfolio's totals: read all rows, then store their sum.             *)
ReadHoldings(r) ==
  /\ At(r, "read")
  /\ req' = [req EXCEPT ![r].sum = Invested, ![r].step = "total"]
  /\ UNCHANGED <<rows, job, spent, history>>

(* Wrong: the sum forgets what this request has bought. *)
SumBefore(q) == Less(q.sum, q.qty)

SumRead(q) == q.sum

WriteTotals(r) ==
  /\ At(r, "total")
  /\ total' = SumRead(req[r])
  /\ AnswerOk(r)
  /\ UNCHANGED <<prices, tokens, lastId, spent>>

(* A statement fails: every handler answers 500 and does nothing more.  (So  *)
(* does a sale whose target is invalid, found out after the source changed.) *)
RequestFails(r) ==
  /\ InFlight(r) /\ ~At(r, "price")
  /\ Fault
  /\ AnswerError(r)
  /\ UNCHANGED rows

-----------------------------------------------------------------------------
(* ProcessTokenAsync. *)
JobAt(i, step) == i \in DOMAIN job /\ job[i].step = step

JobGoto(i, step) == job' = [job EXCEPT ![i].step = step]

JobEnds(i) == job' = Restrict(job, DOMAIN job \ {i})

(* The calls that take ctx fail once the request has been answered.         *)
CtxAllows(i) == prices[i].contract \in NeedsCtx => job[i].ctx # {}

JobResolves(i) ==
  /\ JobAt(i, "resolving")
  /\ prices[i].contract \in Resolvable /\ CtxAllows(i)
  /\ JobGoto(i, "resolved")
  /\ UNCHANGED <<rows, req, spent, history>>

JobFails(i) ==
  /\ JobAt(i, "resolving")
  /\ \/ /\ ~(prices[i].contract \in Resolvable /\ CtxAllows(i))
        /\ UNCHANGED spent
     \/ /\ Fault
  /\ JobGoto(i, "failed")
  /\ UNCHANGED <<rows, req, history>>

(* The result is stored; an error of the UPDATE is ignored.                 *)
JobStores(i) ==
  /\ JobAt(i, "resolved")
  /\ \/ /\ prices' = [prices EXCEPT ![i].priced = TRUE]
        /\ UNCHANGED spent
     \/ /\ Fault
        /\ UNCHANGED prices
  /\ JobEnds(i)
  /\ UNCHANGED <<tokens, total, lastId, req, history>>

(* rollbackTokenStub: first the holdings ...                                *)
JobDropsHoldings(i) ==
  LET gone == {t \in DOMAIN tokens : tokens[t].price = i}
      c    == prices[i].contract
      met  == {r \in Slots : InFlight(r) /\ c \in Touches(req[r])} IN
  /\ JobAt(i, "failed")
  /\ tokens' = Restrict(tokens, DOMAIN tokens \ gone)
  /\ JobGoto(i, "emptied")
  /\ IF gone = {} THEN UNCHANGED history
     ELSE /\ owed' = [owed EXCEPT ![c] = 0]
          /\ excused' = IF met = {} THEN excused ELSE excused \cup {c}
          /\ alone' = [r \in Slots |-> alone[r] /\ ~InFlight(r)]
          /\ settled' = FALSE
  /\ UNCHANGED <<prices, total, lastId, req, spent>>

(* ... then the stub, which a row inserted meanwhile holds (ON DELETE       *)
(* RESTRICT); the error is ignored.                                         *)
Removable(i) == \A t \in DOMAIN tokens : tokens[t].price # i

JobDropsStub(i) ==
  /\ JobAt(i, "emptied")
  /\ prices' = IF Removable(i) THEN Restrict(prices, DOMAIN prices \ {i}) ELSE prices
  /\ JobEnds(i)
  /\ UNCHANGED <<tokens, total, lastId, req, spent, history>>

(* StartTokenPriceDaemon prices a row, a stub or not (see PriceRefresh).    *)
DaemonPrices(i) ==
  /\ i \in DOMAIN prices /\ ~prices[i].priced
  /\ prices[i].contract \in Resolvable
  /\ prices' = [prices EXCEPT ![i].priced = TRUE]
  /\ UNCHANGED <<tokens, total, lastId, req, job, spent, history>>

(* The process ends and starts again: requests and goroutines are lost.     *)
Restart ==
  LET cut == {r \in Slots : InFlight(r) /\ req[r].wrote} IN
  /\ Fault
  /\ req' = [r \in Slots |-> NoRequest]
  /\ job' = Empty
  /\ excused' = excused \cup UNION {Touches(req[r]) : r \in cut}
  /\ settled' = (settled /\ cut = {})
  /\ UNCHANGED <<rows, owed, alone>>

-----------------------------------------------------------------------------
Arrive(r) ==
  \/ \E c \in Contracts : MakeRule(r, c)
  \/ \E n \in Quantities :
       \/ \E c \in Contracts : Add(r, c, n)
       \/ \E t \in DOMAIN tokens :
            \/ SellCash(r, t, n)
            \/ \E to \in DOMAIN tokens : SellSwap(r, t, n, to)
            \/ \E c \in Contracts : SellNew(r, t, n, c)

Handle(r) ==
  \/ Ensure(r) \/ InsertStub(r) \/ PollPrice(r) \/ PollTimeout(r)
  \/ ReadSource(r) \/ SpendSource(r) \/ CreditTarget(r)
  \/ FindPrice(r) \/ NoPrice(r)
  \/ FindToken(r) \/ InsertToken(r) \/ UpdateToken(r)
  \/ ReadHoldings(r) \/ WriteTotals(r)

JobStep(i) ==
  JobResolves(i) \/ JobFails(i) \/ JobStores(i) \/ JobDropsHoldings(i) \/ JobDropsStub(i)

Next ==
  \/ \E r \in Slots : Arrive(r) \/ Handle(r) \/ RequestFails(r)
  \/ \E i \in DOMAIN job : JobStep(i)
  \/ \E i \in DOMAIN prices : DaemonPrices(i)
  \/ Restart

Spec == Init /\ [][Next]_vars

(* The database answers, and the RPC calls return.                          *)
FairSpec == Spec /\ \A r \in Slots : WF_vars(Handle(r))

-----------------------------------------------------------------------------
TypeOK ==
  /\ \A i \in DOMAIN prices : prices[i] \in [contract : Contracts, priced : BOOLEAN]
  /\ \A t \in DOMAIN tokens : tokens[t] \in [price : Nat, amount : Nat, invested : Nat]
  /\ total \in Nat /\ lastId \in [prices : Nat, tokens : Nat]
  /\ req \in [Slots -> RequestType]
  /\ \A i \in DOMAIN job : job[i] \in [step : JobSteps, ctx : SUBSET Slots]
  /\ owed \in [Contracts -> Nat] /\ excused \subseteq Contracts
  /\ alone \in [Slots -> BOOLEAN] /\ settled \in BOOLEAN

(* No two price rows are of one contract, although every request looks and  *)
(* inserts in two steps: EnsureTokenPrice (main.go:1260).                   *)
OneRowPerContract ==
  \A i, j \in DOMAIN prices : prices[i].contract = prices[j].contract => i = j

(* What a portfolio holds refers to a price row at all times, although a    *)
(* rollback removes the one and then the other while requests insert:       *)
(* rollbackTokenStub (database.go:1236), DB_AddToken.                       *)
HoldingsHavePrice == \A t \in DOMAIN tokens : tokens[t].price \in DOMAIN prices

(* The keys of both tables hold, whichever requests, goroutines, daemons    *)
(* and rollbacks come between the two statements of another.                *)
KeysHold == OneRowPerContract /\ HoldingsHavePrice

(* A stub is being worked on by the goroutine of the request that inserted  *)
(* it, and no row is worked on that is not there (main.go:1275-1281).       *)
JobsHaveRow == DOMAIN job \subseteq DOMAIN prices

(* A portfolio holds what its answered requests say, and nothing of a token *)
(* that was rolled back, unless two requests met on a contract, a request   *)
(* met its rollback, or one failed after its first write.                   *)
HoldingsExact ==
  Quiet => \A c \in Contracts \ excused : HeldOf(c) = owed[c]

(* Types, and the books of the holdings.                                   *)
HoldingsInv == TypeOK /\ JobsHaveRow /\ HoldingsExact

(* Once a request that met no other and no rollback has been answered, the  *)
(* stored total is the sum of the rows until something disturbs it.         *)
TotalsFresh == Quiet /\ settled => total = Invested

(* Every request is answered, a rule that waits for a price included.       *)
EveryRequestAnswered == \A r \in Slots : InFlight(r) ~> ~InFlight(r)

(* handlersApi.go:389: the price and the symbol of an added token are       *)
(* fetched asynchronously.  If they can be fetched, what was added stays.   *)
ResolvableStays ==
  [][\A t \in DOMAIN tokens :
       ContractOf(t) \in Resolvable /\ (\E i \in DOMAIN job : JobDropsHoldings(i))
         => t \in DOMAIN tokens']_vars
=============================================================================
