----------------------- MODULE PortfolioTokensProofs -----------------------
(***************************************************************************)
(* The safety of portfolios, for any number of requests, tokens and        *)
(* faults.  First the keys between token_prices, tokens and the goroutines *)
(* that complete or remove a stub; then the books, Books: what is held of  *)
(* a contract is what the answered requests add up to, unless the contract *)
(* is excused, and the total is what the holdings add up to whenever all   *)
(* requests have been answered undisturbed.                                *)
(***************************************************************************)
EXTENDS PortfolioTokens, DataTheorems

(* Rows keep their columns.  This is all of the types the keys depend on.  *)
Columns ==
  /\ \A i \in DOMAIN prices :
       prices[i] = [contract |-> prices[i].contract, priced |-> prices[i].priced]
  /\ \A t \in DOMAIN tokens :
       tokens[t] = [price |-> tokens[t].price, amount |-> tokens[t].amount,
                    invested |-> tokens[t].invested]

(* The inductive invariant.                                                *)
IInv == Columns /\ OneRowPerContract /\ HoldingsHavePrice /\ JobsHaveRow

(* What a step may do to the table of prices: rows keep their contracts,   *)
(* and a new row's contract is new.                                        *)
PricesStep ==
  /\ \A i \in DOMAIN prices' :
       prices'[i] = [contract |-> prices'[i].contract, priced |-> prices'[i].priced]
  /\ \A i \in DOMAIN prices' :
       \/ i \in DOMAIN prices /\ prices'[i].contract = prices[i].contract
       \/ \A j \in DOMAIN prices' :
            j # i => j \in DOMAIN prices /\ prices'[j].contract = prices[j].contract
                     /\ prices[j].contract # prices'[i].contract

(* What a step may do to the holdings: they refer to rows that are there.  *)
TokensStep ==
  \A t \in DOMAIN tokens' :
    /\ tokens'[t] = [price |-> tokens'[t].price, amount |-> tokens'[t].amount,
                     invested |-> tokens'[t].invested]
    /\ tokens'[t].price \in DOMAIN prices'

LEMMA StepsSuffice ==
  ASSUME IInv, PricesStep, TokensStep, JobsHaveRow' PROVE IInv'
<1>1. Columns'  BY DEF PricesStep, TokensStep, Columns
<1>2. OneRowPerContract'
  <2> SUFFICES ASSUME NEW i \in DOMAIN prices', NEW j \in DOMAIN prices', i # j
               PROVE  prices'[i].contract # prices'[j].contract
    BY DEF OneRowPerContract
  <2> QED  BY DEF PricesStep, IInv, OneRowPerContract
<1> QED  BY <1>1, <1>2 DEF IInv, TokensStep, HoldingsHavePrice

(* Steps that leave the two tables alone.                                  *)
LEMMA TablesAlone ==
  ASSUME IInv, UNCHANGED <<prices, tokens>>, DOMAIN job' \subseteq DOMAIN job PROVE IInv'
  BY DEF IInv, Columns, OneRowPerContract, HoldingsHavePrice, JobsHaveRow

(* Steps on the holdings only.                                             *)
LEMMA PricesAlone ==
  ASSUME IInv, UNCHANGED prices, DOMAIN job' \subseteq DOMAIN job, TokensStep PROVE IInv'
<1>1. PricesStep  BY DEF PricesStep, IInv, Columns
<1>2. JobsHaveRow'  BY DEF IInv, JobsHaveRow
<1> QED  BY <1>1, <1>2, StepsSuffice

(* Steps that give a row its price.                                        *)
LEMMA PriceSet ==
  ASSUME IInv, NEW i \in DOMAIN prices, prices' = [prices EXCEPT ![i].priced = TRUE],
         UNCHANGED tokens, DOMAIN job' \subseteq DOMAIN job
  PROVE  IInv'
<1>1. DOMAIN prices' = DOMAIN prices  OBVIOUS
<1>2. \A j \in DOMAIN prices : prices'[j].contract = prices[j].contract
  BY DEF IInv, Columns
<1>3. \A j \in DOMAIN prices :
        prices'[j] = [contract |-> prices'[j].contract, priced |-> prices'[j].priced]
  BY DEF IInv, Columns
<1>4. PricesStep  BY <1>1, <1>2, <1>3 DEF PricesStep
<1>5. TokensStep  BY <1>1 DEF TokensStep, IInv, Columns, HoldingsHavePrice
<1>6. JobsHaveRow'  BY <1>1 DEF IInv, JobsHaveRow
<1> QED  BY <1>4, <1>5, <1>6, StepsSuffice

(* Answering a request starts and ends no goroutine.                       *)
LEMMA CancelKeepsJobs == ASSUME NEW r, CancelJobs(r) PROVE DOMAIN job' = DOMAIN job
  BY DEF CancelJobs

LEMMA AnswersKeepJobs ==
  ASSUME NEW r, AnswerOk(r) \/ AnswerError(r) PROVE DOMAIN job' = DOMAIN job
  BY CancelKeepsJobs DEF AnswerOk, AnswerError

LEMMA InitIInv == Init => IInv
<1> SUFFICES ASSUME Init PROVE IInv  OBVIOUS
<1>1. Columns  BY DEF Init, Columns
<1>2. OneRowPerContract  BY PortfolioAssumption DEF Init, OneRowPerContract
<1>3. HoldingsHavePrice  BY DEF Init, HoldingsHavePrice
<1>4. JobsHaveRow  BY DEF Init, JobsHaveRow, Empty
<1> QED  BY <1>1, <1>2, <1>3, <1>4 DEF IInv

-----------------------------------------------------------------------------
LEMMA ArriveIInv == ASSUME IInv, NEW r \in Slots, Arrive(r) PROVE IInv'
<1>1. \A q : Begin(r, q) => UNCHANGED <<prices, tokens, job>>
  BY SMTT(30) DEF Begin, rows
<1>2. UNCHANGED <<prices, tokens, job>>
  BY <1>1 DEF Arrive, MakeRule, Add, SellCash, SellSwap, SellNew, Sell
<1> QED  BY <1>2, TablesAlone

LEMMA InsertStubIInv == ASSUME IInv, NEW r \in Slots, InsertStub(r) PROVE IInv'
<1> DEFINE q == req[r]
           id == lastId.prices + 1
<1>1. CASE UniqueKey(q.contract) /\ prices' = With(prices, id, [contract |-> q.contract, priced |-> FALSE])
           /\ job' = With(job, id, [step |-> "resolving", ctx |-> {r}]) /\ UNCHANGED tokens
  <2>1. DOMAIN prices' = DOMAIN prices \cup {id} /\ DOMAIN job' = DOMAIN job \cup {id}
    BY <1>1 DEF With
  <2>2. prices'[id] = [contract |-> q.contract, priced |-> FALSE]
    BY <1>1 DEF With
  <2>3. \A i \in DOMAIN prices' : i # id => i \in DOMAIN prices /\ prices'[i] = prices[i]
    BY <1>1 DEF With
  <2>4. \A i \in DOMAIN prices : prices[i].contract # q.contract
    BY <1>1 DEF UniqueKey, PriceRows
  <2>5. PricesStep  BY <2>1, <2>2, <2>3, <2>4 DEF PricesStep, IInv, Columns
  <2>6. TokensStep  BY <1>1, <2>1 DEF TokensStep, IInv, Columns, HoldingsHavePrice
  <2>7. JobsHaveRow'  BY <2>1 DEF IInv, JobsHaveRow
  <2> QED  BY <2>5, <2>6, <2>7, StepsSuffice
<1>2. CASE AnswerError(r) /\ UNCHANGED rows
  BY <1>2, AnswersKeepJobs, TablesAlone DEF rows
<1> QED  BY <1>1, <1>2 DEF InsertStub

(* Selling changes amounts or removes a row.                               *)
LEMMA SpendIInv == ASSUME IInv, NEW r \in Slots, SpendSource(r) PROVE IInv'
<1> DEFINE t == req[r].from
           left == Less(req[r].seen.amount, req[r].qty)
<1>1. UNCHANGED <<prices, job>>  BY DEF SpendSource
<1>2. \/ tokens' = tokens
      \/ tokens' = Restrict(tokens, DOMAIN tokens \ {t})
      \/ t \in DOMAIN tokens /\ tokens' = [tokens EXCEPT ![t].amount = left]
  BY DEF SpendSource, SoldRow
<1>3. TokensStep
  BY <1>1, <1>2 DEF TokensStep, IInv, Columns, HoldingsHavePrice, Restrict
<1> QED  BY <1>1, <1>3, PricesAlone

LEMMA CreditIInv == ASSUME IInv, NEW r \in Slots, CreditTarget(r) PROVE IInv'
<1> DEFINE t == req[r].to
<1>1. UNCHANGED <<prices, job>>  BY DEF CreditTarget
<1>2. \/ tokens' = tokens
      \/ t \in DOMAIN tokens /\ tokens' = Credited(t, req[r].qty)
  BY DEF CreditTarget
<1>3. TokensStep
  BY <1>1, <1>2 DEF TokensStep, IInv, Columns, HoldingsHavePrice, Credited
<1> QED  BY <1>1, <1>3, PricesAlone

LEMMA FindPriceIInv == ASSUME IInv, NEW r \in Slots, FindPrice(r) PROVE IInv'
<1> DEFINE i == req[r].price
<1>1. UNCHANGED <<tokens, job>>  BY DEF FindPrice
<1>2. CASE prices' = prices  BY <1>1, <1>2, TablesAlone
<1>3. CASE i \in DOMAIN prices /\ prices' = [prices EXCEPT ![i].priced = TRUE]
  BY <1>1, <1>3, PriceSet
<1> QED  BY <1>2, <1>3 DEF FindPrice

(* A new holding: the foreign key sees to it that its price row is there.  *)
LEMMA InsertTokenIInv == ASSUME IInv, NEW r \in Slots, InsertToken(r) PROVE IInv'
<1> DEFINE q == req[r]
           id == lastId.tokens + 1
           row == [price |-> q.price, amount |-> q.qty, invested |-> q.qty]
<1>1. CASE ForeignKey(q.price) /\ tokens' = With(tokens, id, row) /\ UNCHANGED <<prices, job>>
  <2>1. \A t \in DOMAIN tokens' :
          \/ t = id /\ tokens'[t] = row
          \/ t \in DOMAIN tokens /\ tokens'[t] = tokens[t]
    BY <1>1 DEF With
  <2>2. TokensStep
    BY <1>1, <2>1 DEF TokensStep, IInv, Columns, HoldingsHavePrice, ForeignKey
  <2> QED  BY <1>1, <2>2, PricesAlone
<1>2. CASE AnswerError(r) /\ UNCHANGED rows
  BY <1>2, AnswersKeepJobs, TablesAlone DEF rows
<1> QED  BY <1>1, <1>2 DEF InsertToken

LEMMA UpdateTokenIInv == ASSUME IInv, NEW r \in Slots, UpdateToken(r) PROVE IInv'
<1> DEFINE q == req[r]
<1>1. UNCHANGED <<prices, job>>  BY DEF UpdateToken
<1>2. \/ tokens' = tokens
      \/ q.to \in DOMAIN tokens /\ tokens' = [tokens EXCEPT ![q.to] = Enlarged(q, @)]
  BY DEF UpdateToken
<1>3. TokensStep
  <2>1. CASE tokens' = tokens
    BY <1>1, <2>1 DEF TokensStep, IInv, Columns, HoldingsHavePrice
  <2>2. CASE q.to \in DOMAIN tokens /\ tokens' = [tokens EXCEPT ![q.to] = Enlarged(q, @)]
    <3> DEFINE new == Enlarged(q, tokens[q.to])
    <3>1. tokens[q.to] = [price |-> tokens[q.to].price, amount |-> tokens[q.to].amount,
                          invested |-> tokens[q.to].invested]
      BY <2>2 DEF IInv, Columns
    <3>2. /\ new = [price |-> new.price, amount |-> new.amount, invested |-> new.invested]
          /\ new.price = tokens[q.to].price
      BY <3>1 DEF Enlarged
    <3>3. \A t \in DOMAIN tokens' :
            t \in DOMAIN tokens /\ tokens'[t] = IF t = q.to THEN new ELSE tokens[t]
      BY <2>2
    <3> HIDE DEF new
    <3> QED  BY <1>1, <2>2, <3>2, <3>3 DEF TokensStep, IInv, Columns, HoldingsHavePrice
  <2> QED  BY <1>2, <2>1, <2>2
<1> QED  BY <1>1, <1>3, PricesAlone

(* The rest of a request changes no row.                                   *)
LEMMA HandleIInv == ASSUME IInv, NEW r \in Slots, Handle(r) PROVE IInv'
<1>1. CASE Ensure(r)  BY <1>1, TablesAlone DEF Ensure, rows
<1>2. CASE PollPrice(r)  BY <1>2, AnswersKeepJobs, TablesAlone DEF PollPrice, rows
<1>3. CASE PollTimeout(r)  BY <1>3, AnswersKeepJobs, TablesAlone DEF PollTimeout, rows
<1>4. CASE ReadSource(r)  BY <1>4, AnswersKeepJobs, TablesAlone DEF ReadSource, rows
<1>5. CASE NoPrice(r)  BY <1>5, AnswersKeepJobs, TablesAlone DEF NoPrice, rows
<1>6. CASE FindToken(r)  BY <1>6, TablesAlone DEF FindToken, rows
<1>7. CASE ReadHoldings(r)  BY <1>7, TablesAlone DEF ReadHoldings, rows
<1>8. CASE WriteTotals(r)  BY <1>8, AnswersKeepJobs, TablesAlone DEF WriteTotals
<1> QED
  BY <1>1, <1>2, <1>3, <1>4, <1>5, <1>6, <1>7, <1>8, InsertStubIInv, SpendIInv, CreditIInv,
     FindPriceIInv, InsertTokenIInv, UpdateTokenIInv DEF Handle

(* The goroutine of a stub.  Its two deletions are where a row could lose  *)
(* what it refers to.                                                      *)
LEMMA JobIInv == ASSUME IInv, NEW i \in DOMAIN job, JobStep(i) PROVE IInv'
<1>1. CASE JobResolves(i)  BY <1>1, TablesAlone DEF JobResolves, JobGoto, rows
<1>2. CASE JobFails(i)  BY <1>2, TablesAlone DEF JobFails, JobGoto, rows
<1>3. CASE JobStores(i)
  <2>1. DOMAIN job' \subseteq DOMAIN job /\ UNCHANGED tokens
    BY <1>3 DEF JobStores, JobEnds, Restrict
  <2>2. i \in DOMAIN prices  BY DEF IInv, JobsHaveRow
  <2>3. prices' = prices \/ prices' = [prices EXCEPT ![i].priced = TRUE]
    BY <1>3 DEF JobStores
  <2> QED  BY <2>1, <2>2, <2>3, TablesAlone, PriceSet
<1>4. CASE JobDropsHoldings(i)
  <2>1. UNCHANGED prices /\ DOMAIN job' = DOMAIN job
    BY <1>4 DEF JobDropsHoldings, JobGoto
  <2>2. \A t \in DOMAIN tokens' : t \in DOMAIN tokens /\ tokens'[t] = tokens[t]
    BY <1>4 DEF JobDropsHoldings, Restrict
  <2>3. TokensStep  BY <2>1, <2>2 DEF TokensStep, IInv, Columns, HoldingsHavePrice
  <2> QED  BY <2>1, <2>3, PricesAlone
<1>5. CASE JobDropsStub(i)
  <2>1. UNCHANGED tokens /\ DOMAIN job' = DOMAIN job \ {i}
    BY <1>5 DEF JobDropsStub, JobEnds, Restrict
  <2>2. CASE Removable(i) /\ prices' = Restrict(prices, DOMAIN prices \ {i})
    <3>1. DOMAIN prices' = DOMAIN prices \ {i}
          /\ \A j \in DOMAIN prices' : prices'[j] = prices[j]
      BY <2>2 DEF Restrict
    <3>2. PricesStep  BY <3>1 DEF PricesStep, IInv, Columns
    <3>3. TokensStep
      BY <2>1, <2>2, <3>1 DEF TokensStep, IInv, Columns, HoldingsHavePrice, Removable
    <3>4. JobsHaveRow'  BY <2>1, <3>1 DEF IInv, JobsHaveRow
    <3> QED  BY <3>2, <3>3, <3>4, StepsSuffice
  <2>3. CASE UNCHANGED prices  BY <2>1, <2>3, TablesAlone
  <2> QED  BY <1>5, <2>2, <2>3 DEF JobDropsStub
<1> QED  BY <1>1, <1>2, <1>3, <1>4, <1>5 DEF JobStep

LEMMA NextIInv == IInv /\ [Next]_vars => IInv'
<1> SUFFICES ASSUME IInv, [Next]_vars PROVE IInv'  OBVIOUS
<1>1. ASSUME NEW r \in Slots, Arrive(r) PROVE IInv'  BY <1>1, ArriveIInv
<1>2. ASSUME NEW r \in Slots, Handle(r) PROVE IInv'  BY <1>2, HandleIInv
<1>3. ASSUME NEW r \in Slots, RequestFails(r) PROVE IInv'
  BY <1>3, AnswersKeepJobs, TablesAlone DEF RequestFails, rows
<1>4. ASSUME NEW i \in DOMAIN job, JobStep(i) PROVE IInv'  BY <1>4, JobIInv
<1>5. ASSUME NEW i \in DOMAIN prices, DaemonPrices(i) PROVE IInv'
  BY <1>5, PriceSet DEF DaemonPrices
<1>6. CASE Restart
  <2>1. UNCHANGED <<prices, tokens>> /\ DOMAIN job' \subseteq DOMAIN job
    BY <1>6 DEF Restart, rows, Empty
  <2> QED  BY <2>1, TablesAlone
<1>7. CASE UNCHANGED vars  BY <1>7, TablesAlone DEF vars, rows
<1> QED  BY <1>1, <1>2, <1>3, <1>4, <1>5, <1>6, <1>7 DEF Next

(* The invariant holds in every behaviour.                                 *)
LEMMA Invariance == Spec => []IInv
  BY InitIInv, NextIInv, PTL DEF Spec

(* One price row for each contract, although requests look and insert in   *)
(* two steps (main.go:1260), and no holding without its row, whatever      *)
(* rollbacks remove (database.go:1236).                                    *)
THEOREM KeysHoldAlways == Spec => []KeysHold
<1>1. IInv => KeysHold  BY DEF IInv, KeysHold
<1> QED  BY <1>1, Invariance, PTL
-----------------------------------------------------------------------------
(* The books.  A contract is in order as long as it is not excused: it has *)
(* one row at most, at most one request works on it, and the row holds     *)
(* what the contract is owed, or as much of it as that request has written *)
(* so far, whose sights of the row are still true.                         *)
Ids == /\ DOMAIN prices \subseteq 1..lastId.prices
       /\ DOMAIN tokens \subseteq 1..lastId.tokens

(* The way each kind of request goes, and where on it it has written.      *)
InControl(q) ==
  \/ q = NoRequest
  \/ q.kind = "rule" /\ q.step \in {"ensure", "stub", "poll"} /\ q.sells = {} /\ ~q.wrote
  \/ /\ q.kind = "add" /\ q.step \in {"ensure", "stub", "find", "write", "read", "total"}
     /\ q.sells = {} /\ (q.wrote <=> q.step \in {"read", "total"})
  \/ /\ \/ q.kind = "cash" /\ q.step \in {"source", "spend", "read", "total"}
        \/ q.kind = "swap" /\ q.step \in {"source", "spend", "credit", "read", "total"}
        \/ q.kind = "new" /\ q.step \in {"source", "spend", "ensure", "stub", "price", "find",
                                         "write", "read", "total"}
     /\ q.wrote <=> q.step \notin {"source", "spend"}

PriceKnown(q) ==
  /\ q.price <= lastId.prices
  /\ q.price \in DOMAIN prices => prices[q.price].contract = q.contract

TokensKnown(q) ==
  /\ q.from <= lastId.tokens /\ q.to <= lastId.tokens
  /\ q.from \in DOMAIN tokens => ContractOf(q.from) \in q.sells
  /\ q.to \in DOMAIN tokens => ContractOf(q.to) = q.contract

Known(q) == PriceKnown(q) /\ TokensKnown(q)

RequestsOK == \A r \in Slots : InControl(req[r]) /\ Known(req[r])

Works(r, c) == InFlight(r) /\ c \in Touches(req[r])

Holds(c, n) == /\ \A t \in RowsOf(c) : RowsOf(c) = {t} /\ tokens[t].amount = n
               /\ RowsOf(c) = {} => n = 0

(* What there should be of c while q works on it. *)
Left(q, c) == IF c \in q.sells THEN Less(owed[c], q.qty) ELSE owed[c]
Expected(q, c) ==
  IF q.step \in {"source", "spend"} THEN owed[c]
  ELSE IF q.step \in {"read", "total"} THEN OwedAfter(q, c) ELSE Left(q, c)

(* What q has seen of the rows of c is so. *)
Ready(q, c) ==
  /\ q.step \in {"source", "spend"} /\ c \in q.sells => q.from \in RowsOf(c)
  /\ q.step = "spend" /\ c \in q.sells => q.seen.amount = tokens[q.from].amount
  /\ q.kind = "swap" /\ c = q.contract /\ q.step \in {"source", "spend", "credit"} =>
       q.to \in RowsOf(c) /\ q.to # q.from
  /\ q.step = "write" /\ c = q.contract =>
       IF q.to = None THEN q.price \in DOMAIN prices => RowsOf(c) = {}
       ELSE q.to \in RowsOf(c) /\ (q.kind = "add" => q.seen.amount = tokens[q.to].amount)

Fine(c) ==
  /\ \A r, s \in Slots : Works(r, c) /\ Works(s, c) => r = s
  /\ (\A r \in Slots : ~Works(r, c)) => Holds(c, owed[c])
  /\ \A r \in Slots : Works(r, c) => Holds(c, Expected(req[r], c)) /\ Ready(req[r], c)

BooksOK == \A c \in Contracts \ excused : Fine(c)

(* The stored total is the sum of the rows until a request has written, and *)
(* what that request has read is the sum until it stores it.                *)
Trades(r) == InFlight(r) /\ req[r].kind # "rule"
TotalsOK ==
  /\ \A r \in Slots : Trades(r) /\ (settled \/ alone[r]) =>
       /\ \A s \in Slots : Trades(s) => s = r
       /\ req[r].step = "total" => req[r].sum = Invested
  /\ settled /\ (\A r \in Slots : ~req[r].wrote) => total = Invested

Books == IInv /\ TypeOK /\ Ids /\ RequestsOK /\ BooksOK /\ TotalsOK

(* One row at most is its own sum. *)
LEMMA HeldIs ==
  ASSUME TypeOK, NEW c, NEW n, Holds(c, n)
  PROVE  HeldOf(c) = n
<1> DEFINE f == [t \in DOMAIN tokens |-> tokens[t].amount]
<1>1. CASE RowsOf(c) = {}
  <2>1. SumFunctionOnSet(f, {}) = 0
    BY SumOfNone
  <2> QED
    BY <1>1, <2>1 DEF HeldOf, Holds
<1>2. CASE RowsOf(c) # {}
  <2>1. PICK t \in RowsOf(c) : RowsOf(c) = {t} /\ tokens[t].amount = n
    BY <1>2 DEF Holds
  <2>2. t \in DOMAIN tokens /\ f[t] = n /\ n \in Nat
    BY <2>1 DEF RowsOf, TypeOK
  <2> HIDE DEF f
  <2>3. IsFiniteSet({t}) /\ \A x \in {t} : f[x] \in Nat
    BY <2>2, FS_Singleton
  <2>4. SumFunctionOnSet(f, {t}) = f[t] + SumFunctionOnSet(f, {t} \ {t})
    BY <2>3, SumWithout
  <2>5. {t} \ {t} = {} /\ SumFunctionOnSet(f, {}) = 0
    BY SumOfNone
  <2>6. SumFunctionOnSet(f, {t}) = n
    BY <2>2, <2>4, <2>5
  <2> QED
    BY <2>1, <2>6 DEF HeldOf, f
<1> QED
  BY <1>1, <1>2

LEMMA InvestedNat == ASSUME TypeOK, Ids PROVE Invested \in Nat
<1> DEFINE f == [t \in DOMAIN tokens |-> tokens[t].invested]
<1>1. IsFiniteSet(DOMAIN tokens)
  <2>1. IsFiniteSet(1..lastId.tokens) /\ DOMAIN tokens \in SUBSET (1..lastId.tokens)
    BY FS_Interval DEF TypeOK, Ids
  <2> QED
    BY <2>1, FS_Subset
<1>2. \A t \in DOMAIN tokens : f[t] \in Nat
  BY DEF TypeOK
<1> HIDE DEF f
<1>3. SumFunctionOnSet(f, DOMAIN tokens) \in Nat
  BY <1>1, <1>2, SumType
<1> QED
  BY <1>3 DEF Invested, f

LEMMA NoRequestTyped ==
  NoRequest \in RequestType /\ NoRequest.price = None /\ NoRequest.step = "idle" /\ ~NoRequest.wrote
<1>1. /\ NoRequest.price = None /\ NoRequest.step = "idle" /\ ~NoRequest.wrote
  BY DEF NoRequest
<1>2. (CHOOSE c \in Contracts : TRUE) \in Contracts
  BY PortfolioAssumption
<1> QED
  BY <1>1, <1>2 DEF NoRequest, RequestType, Kinds, Steps, Amounts, None

LEMMA BooksSuffice == Books => HoldingsInv /\ TotalsFresh
<1> SUFFICES ASSUME Books PROVE HoldingsInv /\ TotalsFresh
  OBVIOUS
<1>1. HoldingsExact
  <2> SUFFICES ASSUME Quiet, NEW c \in Contracts \ excused PROVE HeldOf(c) = owed[c]
    BY DEF HoldingsExact
  <2>1. Holds(c, owed[c])
    BY DEF Books, BooksOK, Fine, Works, Quiet
  <2> QED
    BY <2>1, HeldIs DEF Books
<1>2. TotalsFresh
  <2>1. ASSUME NEW r \in Slots, ~InFlight(r) PROVE ~req[r].wrote
    <3>1. InControl(req[r]) /\ req[r].step = "idle"
      BY <2>1 DEF Books, RequestsOK, InFlight
    <3>2. req[r] = NoRequest
      BY <3>1 DEF InControl
    <3> QED
      BY <3>2, NoRequestTyped
  <2> QED
    BY <2>1 DEF Books, TotalsOK, TotalsFresh, Quiet
<1> QED
  BY <1>1, <1>2 DEF Books, IInv, HoldingsInv

LEMMA BooksInit == ASSUME Init PROVE Books
<1>1. IInv
  BY InitIInv
<1> DEFINE n == Len(Opening)
<1>2. /\ n \in Nat /\ DOMAIN Opening = 1..n
      /\ \A i \in 1..n : /\ Opening[i].contract \in Contracts /\ Opening[i].amount \in Nat
  <2> DEFINE T == [contract : Resolvable, amount : Nat \ {0}]
  <2>1. \A x \in T : x.contract \in Contracts /\ x.amount \in Nat
    BY PortfolioAssumption
  <2>2. Opening \in Seq(T)
    BY PortfolioAssumption
  <2> HIDE DEF T
  <2>3. n \in Nat /\ DOMAIN Opening = 1..n /\ \A i \in 1..n : Opening[i] \in T
    BY <2>2
  <2> QED
    BY <2>1, <2>3
<1>3. /\ DOMAIN tokens = 1..n /\ DOMAIN prices = 1..n
      /\ \A i \in 1..n : /\ tokens[i].price = i /\ tokens[i].amount = Opening[i].amount
                         /\ tokens[i].invested = Opening[i].amount
                         /\ prices[i].contract = Opening[i].contract
  BY <1>2 DEF Init
<1>4. /\ \A c \in Contracts : owed[c] = HeldOf(c)
      /\ total = Invested
  <2> DEFINE f == [i \in DOMAIN Opening |-> Opening[i].amount]
  <2>1. f = [t \in DOMAIN tokens |-> tokens[t].amount] /\ f = [t \in DOMAIN tokens |-> tokens[t].invested]
    BY <1>2, <1>3
  <2>2. \A c \in Contracts : RowsOf(c) = {i \in DOMAIN Opening : Opening[i].contract = c}
    BY <1>2, <1>3 DEF RowsOf, ContractOf
  <2>3. /\ \A c \in Contracts :
             owed[c] = SumFunctionOnSet(f, {i \in DOMAIN Opening : Opening[i].contract = c})
        /\ total = SumFunctionOnSet(f, DOMAIN Opening)
    BY DEF Init
  <2> HIDE DEF f
  <2> QED
    BY <1>2, <1>3, <2>1, <2>2, <2>3 DEF HeldOf, Invested
<1>5. \A c \in Contracts : Holds(c, IF RowsOf(c) = {} THEN 0 ELSE tokens[CHOOSE t \in RowsOf(c) : TRUE].amount)
  <2>1. \A c \in Contracts : \A t, u \in RowsOf(c) : t = u
    BY <1>2, <1>3, PortfolioAssumption DEF RowsOf, ContractOf
  <2> QED
    BY <2>1 DEF Holds
<1>6. Ids
  BY <1>3 DEF Init, Ids
<1>7. \A r \in Slots : req[r] = NoRequest /\ alone[r]
  BY DEF Init
<1>8. RequestsOK
  <2>1. NoRequest.from = 0 /\ NoRequest.to = 0 /\ NoRequest.price = 0
    BY DEF NoRequest, None
  <2>2. lastId.prices = n /\ lastId.tokens = n
    BY DEF Init
  <2> QED
    BY <1>2, <1>3, <1>7, <2>1, <2>2 DEF RequestsOK, InControl, Known, PriceKnown, TokensKnown
<1>9. TypeOK
  <2>1. \A i \in DOMAIN prices : prices[i] \in [contract : Contracts, priced : BOOLEAN]
    BY <1>2, <1>3 DEF Init
  <2>2. \A t \in DOMAIN tokens : tokens[t] \in [price : Nat, amount : Nat, invested : Nat]
    BY <1>2, <1>3 DEF Init
  <2>3. lastId \in [prices : Nat, tokens : Nat]
    BY <1>2 DEF Init
  <2>4. req \in [Slots -> RequestType]
    BY NoRequestTyped DEF Init
  <2>5. DOMAIN job = {}
    BY DEF Init, Empty
  <2>6. alone \in [Slots -> BOOLEAN] /\ settled \in BOOLEAN /\ excused \subseteq Contracts
    BY DEF Init
  <2>7. total \in Nat
    <3> DEFINE f == [i \in DOMAIN Opening |-> Opening[i].amount]
    <3>1. IsFiniteSet(DOMAIN Opening) /\ \A i \in DOMAIN Opening : f[i] \in Nat
      <4>1. IsFiniteSet(1..n)
        BY <1>2, FS_Interval
      <4> QED
        BY <1>2, <4>1
    <3>2. total = SumFunctionOnSet(f, DOMAIN Opening)
      BY DEF Init
    <3> HIDE DEF f
    <3> QED
      BY <3>1, <3>2, SumType
  <2>8. owed \in [Contracts -> Nat]
    <3> DEFINE f == [i \in DOMAIN Opening |-> Opening[i].amount]
               S(c) == {i \in DOMAIN Opening : Opening[i].contract = c}
    <3>1. IsFiniteSet(DOMAIN Opening) /\ \A i \in DOMAIN Opening : f[i] \in Nat
      <4>1. IsFiniteSet(1..n)
        BY <1>2, FS_Interval
      <4> QED
        BY <1>2, <4>1
    <3>2. owed = [c \in Contracts |-> SumFunctionOnSet(f, S(c))]
      BY DEF Init
    <3>3. ASSUME NEW c \in Contracts PROVE SumFunctionOnSet(f, S(c)) \in Nat
      <4>1. S(c) \in SUBSET DOMAIN Opening
        OBVIOUS
      <4> HIDE DEF S
      <4>2. IsFiniteSet(S(c)) /\ \A i \in S(c) : f[i] \in Nat
        BY <3>1, <4>1, FS_Subset
      <4> HIDE DEF f
      <4> QED
        BY <4>2, SumType
    <3> HIDE DEF f, S
    <3> QED
      BY <3>2, <3>3
  <2> QED
    BY <2>1, <2>2, <2>3, <2>4, <2>5, <2>6, <2>7, <2>8 DEF TypeOK
<1>10. BooksOK
  <2> SUFFICES ASSUME NEW c \in Contracts PROVE Fine(c)
    BY DEF BooksOK
  <2>1. Holds(c, owed[c])
    BY <1>4, <1>5, <1>9, HeldIs
  <2>2. \A r \in Slots : ~Works(r, c)
    BY <1>7, NoRequestTyped DEF Works, InFlight
  <2> QED
    BY <2>1, <2>2 DEF Fine
<1>11. TotalsOK
  BY <1>4, <1>7, NoRequestTyped DEF TotalsOK, Trades, InFlight
<1> QED
  BY <1>1, <1>6, <1>8, <1>9, <1>10, <1>11 DEF Books

-----------------------------------------------------------------------------
(* What a step may do to the tables: contracts of rows do not change, and  *)
(* ids are new.                                                            *)
Typed ==
  /\ \A i \in DOMAIN prices : prices[i] \in [contract : Contracts, priced : BOOLEAN]
  /\ \A t \in DOMAIN tokens : tokens[t] \in [price : Nat, amount : Nat, invested : Nat]
  /\ lastId \in [prices : Nat, tokens : Nat]
JobsTyped == \A i \in DOMAIN job : job[i] \in [step : JobSteps, ctx : SUBSET Slots]
Tables == IInv /\ Typed /\ JobsTyped /\ Ids

IdsNew ==
  /\ lastId.prices <= lastId'.prices /\ lastId.tokens <= lastId'.tokens
  /\ \A i \in DOMAIN prices' : \/ i \in DOMAIN prices /\ prices'[i].contract = prices[i].contract
                               \/ i > lastId.prices
  /\ \A t \in DOMAIN tokens' : \/ t \in DOMAIN tokens /\ ContractOf(t)' = ContractOf(t)
                               \/ t > lastId.tokens

TablesKeep == Tables' /\ IdsNew

LEMMA BooksAre ==
  Books <=> /\ Tables /\ RequestsOK /\ BooksOK /\ TotalsOK
            /\ total \in Nat /\ req \in [Slots -> RequestType]
            /\ owed \in [Contracts -> Nat] /\ excused \subseteq Contracts
            /\ alone \in [Slots -> BOOLEAN] /\ settled \in BOOLEAN
BY DEF Books, Tables, TypeOK, Typed, JobsTyped

LEMMA KnownKept ==
  ASSUME IdsNew, Typed, lastId' \in [prices : Nat, tokens : Nat], Ids', NEW q \in RequestType, Known(q)
  PROVE  Known(q)'
<1>1. q.price \in Nat /\ q.from \in Nat /\ q.to \in Nat
  BY DEF RequestType
<1>2. /\ lastId.prices \in Nat /\ lastId.tokens \in Nat
      /\ lastId'.prices \in Nat /\ lastId'.tokens \in Nat
  BY DEF Typed
<1>3. PriceKnown(q)'
  BY <1>1, <1>2 DEF IdsNew, Known, PriceKnown
<1>4. TokensKnown(q)'
  BY <1>1, <1>2 DEF IdsNew, Known, TokensKnown
<1> QED
  BY <1>3, <1>4 DEF Known

(* Steps that leave the tables alone. *)
LEMMA TablesSame ==
  ASSUME Tables, UNCHANGED <<prices, tokens, lastId>>, JobsTyped', DOMAIN job' \subseteq DOMAIN job
  PROVE  TablesKeep
<1>1. IInv'
  BY TablesAlone DEF Tables
<1>2. Typed' /\ Ids'
  BY DEF Tables, Typed, Ids
<1>3. IdsNew
  BY DEF Tables, Typed, IdsNew, ContractOf
<1> QED
  BY <1>1, <1>2, <1>3 DEF TablesKeep, Tables

(* A price is set, or a row removed that nothing refers to. *)
LEMMA PricesKeep ==
  ASSUME Tables, IInv', JobsTyped', UNCHANGED <<tokens, lastId>>, DOMAIN prices' \subseteq DOMAIN prices,
         \A i \in DOMAIN prices' : /\ prices'[i] \in [contract : Contracts, priced : BOOLEAN]
                                  /\ prices'[i].contract = prices[i].contract
  PROVE  TablesKeep
<1>1. Typed' /\ Ids'
  BY DEF Tables, Typed, Ids
<1>2. \A t \in DOMAIN tokens' : t \in DOMAIN tokens /\ ContractOf(t)' = ContractOf(t)
  BY DEF Tables, IInv, HoldingsHavePrice, ContractOf
<1>3. IdsNew
  BY <1>2 DEF Tables, Typed, IdsNew
<1> QED
  BY <1>1, <1>3 DEF TablesKeep, Tables

(* Rows of tokens are changed or removed. *)
LEMMA TokensKeep ==
  ASSUME Tables, IInv', JobsTyped', UNCHANGED <<prices, lastId>>, DOMAIN tokens' \subseteq DOMAIN tokens,
         \A t \in DOMAIN tokens' : /\ tokens'[t] \in [price : Nat, amount : Nat, invested : Nat]
                                  /\ tokens'[t].price = tokens[t].price
  PROVE  TablesKeep
<1>1. Typed' /\ Ids'
  BY DEF Tables, Typed, Ids
<1>2. \A t \in DOMAIN tokens' : t \in DOMAIN tokens /\ ContractOf(t)' = ContractOf(t)
  BY DEF Tables, IInv, HoldingsHavePrice, ContractOf
<1>3. IdsNew
  BY <1>2 DEF Tables, Typed, IdsNew
<1> QED
  BY <1>1, <1>3 DEF TablesKeep, Tables

(* What there is of c does not change. *)
Still(c) == RowsOf(c)' = RowsOf(c) /\ \A t \in RowsOf(c) : tokens'[t] = tokens[t]

LEMMA StillHolds ==
  ASSUME NEW c, NEW n, Still(c), Holds(c, n)
  PROVE  Holds(c, n)'
BY DEF Still, Holds

(* Ids of prices a request knows are not given to new rows. *)
LEMMA StillReady ==
  ASSUME NEW c, NEW q \in RequestType, Still(c), Ready(q, c), Known(q), IdsNew, Typed
  PROVE  Ready(q, c)'
<1>1. q.price \in Nat /\ lastId.prices \in Nat
  BY DEF RequestType, Typed
<1>2. q.price \in DOMAIN prices' => q.price \in DOMAIN prices
  BY <1>1 DEF IdsNew, Known, PriceKnown
<1>3. \A t \in RowsOf(c) : tokens'[t] = tokens[t]
  BY DEF Still
<1> QED
  BY <1>2, <1>3 DEF Ready, Still

(* Requests that do not work on c, before or after, do not disturb it. *)
LEMMA Untouched ==
  ASSUME Books, IdsNew, NEW c, Fine(c), Still(c), owed'[c] = owed[c],
         \A s \in Slots : req'[s] = req[s] \/ (~Works(s, c) /\ ~Works(s, c)')
  PROVE  Fine(c)'
<1>1. Typed /\ \A s \in Slots : req[s] \in RequestType /\ Known(req[s])
  BY BooksAre DEF Tables, RequestsOK
<1>2. \A s \in Slots : Works(s, c)' => Works(s, c) /\ req'[s] = req[s]
  BY DEF Works, InFlight, Touches
<1>3. \A s \in Slots : Works(s, c) => Works(s, c)' /\ req'[s] = req[s]
  BY DEF Works, InFlight, Touches
<1>4. ASSUME NEW s \in Slots, Works(s, c)'
      PROVE  Holds(c, Expected(req[s], c))' /\ Ready(req[s], c)'
  <2>1. req'[s] = req[s] /\ Holds(c, Expected(req[s], c)) /\ Ready(req[s], c)
    BY <1>2, <1>4 DEF Fine
  <2>0. PICK e : e = Expected(req[s], c)
    OBVIOUS
  <2>2. Expected(req[s], c)' = e
    BY <2>0, <2>1 DEF Expected, OwedAfter, Left
  <2>3. Holds(c, e)'
    BY <2>0, <2>1, StillHolds
  <2>4. Ready(req[s], c)'
    BY <1>1, <2>1, StillReady
  <2> QED
    BY <2>2, <2>3, <2>4
<1>5. (\A s \in Slots : ~Works(s, c)') => Holds(c, owed[c])'
  BY <1>3, StillHolds DEF Fine, Holds, Still
<1> QED
  BY <1>2, <1>4, <1>5 DEF Fine

-----------------------------------------------------------------------------
(* A request goes on: what it is about stays, and what it has written.     *)
Moves(r, n) ==
  /\ n \in RequestType /\ n.step # "idle" /\ InControl(n)
  /\ req' = [req EXCEPT ![r] = n]
  /\ n.kind = req[r].kind /\ n.contract = req[r].contract /\ n.sells = req[r].sells
  /\ n.qty = req[r].qty /\ n.from = req[r].from
  /\ req[r].wrote => n.wrote
  /\ UNCHANGED <<total, owed, excused, alone, settled>>

LEMMA MoveRequests ==
  ASSUME Books, NEW r \in Slots, NEW n, Moves(r, n)
  PROVE  /\ req' \in [Slots -> RequestType] /\ req'[r] = n
         /\ \A s \in Slots : s # r => req'[s] = req[s]
         /\ Touches(n) = Touches(req[r])
BY DEF Books, TypeOK, Moves, Touches

LEMMA MoveTotals ==
  ASSUME Books, NEW r \in Slots, NEW n, Moves(r, n), InFlight(r),
         Invested' = Invested \/ (n.wrote /\ n.kind # "rule"),
         n.step = "total" => n.sum = Invested'
  PROVE  TotalsOK'
<1>1. /\ req'[r] = n /\ \A s \in Slots : s # r => req'[s] = req[s]
      /\ n.kind = req[r].kind /\ n.step # "idle" /\ UNCHANGED <<total, alone, settled>>
  BY MoveRequests DEF Moves
<1>2. \A s \in Slots : Trades(s)' <=> Trades(s)
  BY <1>1 DEF Trades, InFlight
<1>3. ASSUME NEW s \in Slots, Trades(s), settled \/ alone[s], s # r, req[s].step = "total"
      PROVE  req[s].sum = Invested'
  <2>1. req[s].sum = Invested /\ ~Trades(r)
    BY <1>3 DEF Books, TotalsOK
  <2>2. req[r].kind = "rule"
    BY <2>1 DEF Trades
  <2> QED
    BY <1>1, <2>1, <2>2
<1>4. (\A s \in Slots : ~req'[s].wrote) => \A s \in Slots : ~req[s].wrote
  BY <1>1 DEF Moves
<1>5. (\A s \in Slots : ~req'[s].wrote) /\ settled => total = Invested'
  BY <1>1, <1>4 DEF Books, TotalsOK
<1> QED
  BY <1>1, <1>2, <1>3, <1>5 DEF Books, TotalsOK

LEMMA MoveKeeps ==
  ASSUME Books, TablesKeep, NEW r \in Slots, NEW n, Moves(r, n), InFlight(r), Known(n)',
         \A c \in Contracts : c \notin Touches(n) => Still(c),
         \A c \in Contracts \ excused :
           c \in Touches(n) /\ Fine(c) => Holds(c, Expected(n, c))' /\ Ready(n, c)',
         Invested' = Invested \/ (n.wrote /\ n.kind # "rule"),
         n.step = "total" => n.sum = Invested'
  PROVE  Books'
<1>1. /\ req' \in [Slots -> RequestType] /\ req'[r] = n
      /\ \A s \in Slots : s # r => req'[s] = req[s]
      /\ Touches(n) = Touches(req[r])
  BY MoveRequests
<1>2. Tables' /\ IdsNew /\ UNCHANGED <<total, owed, excused, alone, settled>> /\ InControl(n)
      /\ n.step # "idle"
  BY DEF TablesKeep, Moves
<1>3. RequestsOK'
  <2>1. ASSUME NEW s \in Slots, s # r PROVE Known(req[s])'
    <3>1. Typed /\ req[s] \in RequestType /\ Known(req[s])
      BY BooksAre DEF Tables, RequestsOK
    <3>2. lastId' \in [prices : Nat, tokens : Nat] /\ Ids'
      BY <1>2 DEF Tables, Typed
    <3>3. PICK q : q = req[s]
      OBVIOUS
    <3>4. Known(q)'
      BY <1>2, <3>1, <3>2, <3>3, KnownKept
    <3> QED
      BY <1>1, <2>1, <3>3, <3>4 DEF Known, PriceKnown, TokensKnown
  <2>2. Known(req[r])'
    BY <1>1 DEF Known, PriceKnown, TokensKnown
  <2>3. \A s \in Slots : InControl(req[s])'
    BY <1>1, <1>2 DEF Books, RequestsOK, InControl
  <2> QED
    BY <2>1, <2>2, <2>3 DEF RequestsOK
<1>4. BooksOK'
  <2> SUFFICES ASSUME NEW c \in Contracts \ excused PROVE Fine(c)'
    BY <1>2 DEF BooksOK
  <2>1. Fine(c)
    BY DEF Books, BooksOK
  <2>2. CASE c \notin Touches(n)
    <3>1. ~Works(r, c) /\ ~Works(r, c)'
      BY <1>1, <2>2 DEF Works
    <3> QED
      BY <1>1, <1>2, <2>1, <2>2, <3>1, Untouched
  <2>3. CASE c \in Touches(n)
    <3>1. Works(r, c) /\ Works(r, c)'
      BY <1>1, <1>2, <2>3 DEF Works, InFlight
    <3>2. \A s \in Slots : Works(s, c)' => s = r
      BY <1>1, <2>1, <3>1 DEF Works, InFlight, Fine
    <3>3. Holds(c, Expected(n, c))' /\ Ready(n, c)'
      BY <2>1, <2>3
    <3>4. Holds(c, Expected(req[r], c))' /\ Ready(req[r], c)'
      BY <1>1, <3>3
    <3> QED
      BY <3>1, <3>2, <3>4 DEF Fine
  <2> QED
    BY <2>2, <2>3
<1>5. TotalsOK'
  BY MoveTotals
<1>6. /\ total \in Nat /\ owed \in [Contracts -> Nat] /\ excused \subseteq Contracts
      /\ alone \in [Slots -> BOOLEAN] /\ settled \in BOOLEAN
  BY BooksAre
<1> QED
  BY <1>1, <1>2, <1>3, <1>4, <1>5, <1>6 DEF Books, Tables, TypeOK, Typed, JobsTyped

(* Before it writes, a request leaves what it works on as it is owed.      *)
LEMMA NotWritten ==
  ASSUME NEW q, InControl(q), q.step # "idle", ~q.wrote, NEW c
  PROVE  Expected(q, c) = owed[c] /\ q.step \notin {"read", "total"}
BY NoRequestTyped DEF InControl, Expected, Left

(* Requests end, and leave what they have written to the excused.          *)
LEMMA EndsKeep ==
  ASSUME Books, TablesKeep, UNCHANGED <<prices, tokens>>, req' \in [Slots -> RequestType],
         total' \in Nat, owed' \in [Contracts -> Nat], excused' \subseteq Contracts,
         excused \subseteq excused', settled' \in BOOLEAN, UNCHANGED alone,
         \A s \in Slots : req'[s] = req[s] \/ req'[s] = NoRequest,
         \A c \in Contracts \ excused' :
           IF \E s \in Slots : Works(s, c) /\ req'[s] # req[s]
           THEN \A s \in Slots : Works(s, c) => owed'[c] = Expected(req[s], c)
           ELSE owed'[c] = owed[c],
         TotalsOK'
  PROVE  Books'
<1>1. Tables' /\ IdsNew
  BY DEF TablesKeep
<1>2. NoRequest.price = 0 /\ NoRequest.from = 0 /\ NoRequest.to = 0 /\ NoRequest.step = "idle"
  BY DEF NoRequest, None
<1>3. RequestsOK'
  <2> SUFFICES ASSUME NEW s \in Slots PROVE InControl(req[s])' /\ Known(req[s])'
    BY DEF RequestsOK
  <2>1. CASE req'[s] = NoRequest
    <3>1. /\ lastId' \in [prices : Nat, tokens : Nat]
          /\ 0 \notin DOMAIN prices' /\ 0 \notin DOMAIN tokens'
      BY <1>1 DEF Tables, Typed, Ids
    <3> QED
      BY <1>2, <2>1, <3>1 DEF InControl, Known, PriceKnown, TokensKnown
  <2>2. CASE req'[s] = req[s]
    <3>1. Typed /\ req[s] \in RequestType /\ Known(req[s]) /\ InControl(req[s])
      BY BooksAre DEF Tables, RequestsOK
    <3>2. lastId' \in [prices : Nat, tokens : Nat] /\ Ids'
      BY <1>1 DEF Tables, Typed
    <3>3. PICK q : q = req[s]
      OBVIOUS
    <3>4. Known(q)'
      BY <1>1, <3>1, <3>2, <3>3, KnownKept
    <3> QED
      BY <2>2, <3>1, <3>3, <3>4 DEF Known, PriceKnown, TokensKnown, InControl
  <2> QED
    BY <2>1, <2>2
<1>4. BooksOK'
  <2> SUFFICES ASSUME NEW c \in Contracts \ excused' PROVE Fine(c)'
    BY DEF BooksOK
  <2>1. Fine(c) /\ Still(c)
    BY DEF Books, BooksOK, Still, RowsOf, ContractOf
  <2>2. CASE \E s \in Slots : Works(s, c) /\ req'[s] # req[s]
    <3>1. PICK s \in Slots : Works(s, c) /\ req'[s] # req[s]
      BY <2>2
    <3>2. owed'[c] = Expected(req[s], c) /\ Holds(c, Expected(req[s], c))
      BY <2>1, <2>2, <3>1 DEF Fine
    <3>3. \A x \in Slots : ~Works(x, c)'
      <4> SUFFICES ASSUME NEW x \in Slots, Works(x, c)' PROVE FALSE
        OBVIOUS
      <4>1. req'[x] = req[x] /\ Works(x, c)
        BY <1>2 DEF Works, InFlight
      <4> QED
        BY <2>1, <3>1, <4>1 DEF Fine
    <3>4. Holds(c, owed[c])'
      BY <2>1, <3>2 DEF Holds, Still
    <3> QED
      BY <3>3, <3>4 DEF Fine
  <2>3. CASE ~ \E s \in Slots : Works(s, c) /\ req'[s] # req[s]
    <3>1. \A s \in Slots : req'[s] = req[s] \/ (~Works(s, c) /\ ~Works(s, c)')
      BY <1>2, <2>3 DEF Works, InFlight
    <3> QED
      BY <1>1, <2>1, <2>3, <3>1, Untouched
  <2> QED
    BY <2>2, <2>3
<1>5. alone \in [Slots -> BOOLEAN]
  BY BooksAre
<1> QED
  BY <1>1, <1>3, <1>4, <1>5 DEF Books, Tables, TypeOK, Typed, JobsTyped

LEMMA JobsCancelled ==
  ASSUME JobsTyped, NEW r \in Slots, CancelJobs(r)
  PROVE  JobsTyped' /\ DOMAIN job' = DOMAIN job
<1>1. DOMAIN job' = DOMAIN job
      /\ \A i \in DOMAIN job : job'[i] = [job[i] EXCEPT !.ctx = IF @ = {r} THEN {} ELSE @]
  BY DEF CancelJobs
<1> QED
  BY <1>1 DEF JobsTyped

LEMMA ErrorKeeps ==
  ASSUME Books, NEW r \in Slots, InFlight(r), AnswerError(r), UNCHANGED rows
  PROVE  Books'
<1>1. /\ Tables /\ req \in [Slots -> RequestType] /\ InControl(req[r])
      /\ total \in Nat /\ owed \in [Contracts -> Nat] /\ excused \subseteq Contracts
      /\ alone \in [Slots -> BOOLEAN] /\ settled \in BOOLEAN /\ TotalsOK
  BY BooksAre DEF RequestsOK
<1>2. UNCHANGED <<prices, tokens, total, lastId, owed, alone>>
  BY DEF rows, AnswerError
<1>3. JobsTyped' /\ DOMAIN job' = DOMAIN job
  BY <1>1, JobsCancelled DEF AnswerError, Tables
<1>4. TablesKeep
  BY <1>1, <1>2, <1>3, TablesSame
<1>5. req' = [req EXCEPT ![r] = NoRequest]
  BY DEF AnswerError
<1>6. /\ req' \in [Slots -> RequestType] /\ req'[r] = NoRequest
      /\ \A s \in Slots : s # r => req'[s] = req[s]
  BY <1>1, <1>5, NoRequestTyped
<1>7. req[r] \in RequestType /\ req[r].wrote \in BOOLEAN /\ Touches(req[r]) \subseteq Contracts
  BY <1>1 DEF RequestType, Touches
<1>8. excused' = excused \cup (IF req[r].wrote THEN Touches(req[r]) ELSE {})
      /\ settled' = (settled /\ ~req[r].wrote)
  BY DEF AnswerError
<1>9. ASSUME NEW c \in Contracts \ excused', Works(r, c)
      PROVE  Expected(req[r], c) = owed[c]
  <2>1. ~req[r].wrote
    BY <1>8, <1>9 DEF Works
  <2> QED
    BY <1>1, <2>1, NotWritten DEF InFlight
<1>10. ASSUME NEW c \in Contracts \ excused', NEW s \in Slots, Works(s, c), Works(r, c)
       PROVE  s = r
  BY <1>8, <1>10 DEF Books, BooksOK, Fine
<1>11. TotalsOK'
  <2>1. Invested' = Invested
    BY <1>2 DEF Invested
  <2>2. \A s \in Slots : Trades(s)' => Trades(s) /\ req'[s] = req[s]
    BY <1>6, NoRequestTyped DEF Trades, InFlight
  <2>3. settled' => settled /\ ~req[r].wrote
    BY <1>8
  <2>4. ASSUME settled', \A s \in Slots : ~req'[s].wrote
        PROVE  total' = Invested'
    BY <1>1, <1>2, <1>6, <2>1, <2>3, <2>4 DEF TotalsOK
  <2> QED
    BY <1>1, <1>2, <2>1, <2>2, <2>3, <2>4 DEF TotalsOK
<1>12. excused' \subseteq Contracts /\ excused \subseteq excused' /\ settled' \in BOOLEAN
  <2>1. settled' \in BOOLEAN
    BY <1>8
  <2> QED
    BY <1>1, <1>7, <1>8, <2>1
<1>13. \A c \in Contracts \ excused' :
         IF \E s \in Slots : Works(s, c) /\ req'[s] # req[s]
         THEN \A s \in Slots : Works(s, c) => owed'[c] = Expected(req[s], c)
         ELSE owed'[c] = owed[c]
  BY <1>2, <1>6, <1>9, <1>10
<1> QED
  BY <1>1, <1>2, <1>4, <1>6, <1>11, <1>12, <1>13, EndsKeep

LEMMA OkKeeps ==
  ASSUME Books, NEW r \in Slots, InFlight(r), AnswerOk(r),
         UNCHANGED <<prices, tokens, lastId>>, req[r].step \in {"poll", "total"},
         total' = IF req[r].step = "poll" THEN total ELSE req[r].sum
  PROVE  Books'
<1>1. /\ Tables /\ req \in [Slots -> RequestType] /\ InControl(req[r])
      /\ total \in Nat /\ owed \in [Contracts -> Nat] /\ excused \subseteq Contracts
      /\ alone \in [Slots -> BOOLEAN] /\ settled \in BOOLEAN /\ TotalsOK
  BY BooksAre DEF RequestsOK
<1>2. JobsTyped' /\ DOMAIN job' = DOMAIN job
  BY <1>1, JobsCancelled DEF AnswerOk, Tables
<1>3. TablesKeep
  BY <1>1, <1>2, TablesSame
<1>4. /\ req' = [req EXCEPT ![r] = NoRequest] /\ UNCHANGED <<excused, alone>>
      /\ owed' = [c \in Contracts |-> OwedAfter(req[r], c)]
      /\ settled' = (settled \/ (alone[r] /\ req[r].kind # "rule"))
  BY DEF AnswerOk
<1>5. /\ req' \in [Slots -> RequestType] /\ req'[r] = NoRequest
      /\ \A s \in Slots : s # r => req'[s] = req[s]
  BY <1>1, <1>4, NoRequestTyped
<1>6. req[r].qty \in Nat /\ req[r].sum \in Nat
  BY <1>1 DEF RequestType
<1>7. req[r].step = "poll" => req[r].kind = "rule" /\ req[r].sells = {} /\ ~req[r].wrote
  BY <1>1, NoRequestTyped DEF InControl, InFlight
<1>8. req[r].step = "total" => req[r].kind # "rule"
  BY <1>1, NoRequestTyped DEF InControl, InFlight
<1>9. \A c \in Contracts : /\ OwedAfter(req[r], c) \in Nat
                           /\ ~Works(r, c) => OwedAfter(req[r], c) = owed[c]
  BY <1>1, <1>6 DEF OwedAfter, Less, Works, Touches
<1>10. \A c \in Contracts : Works(r, c) => OwedAfter(req[r], c) = Expected(req[r], c)
  BY <1>7 DEF Works, Touches, Expected
<1>11. \A c \in Contracts \ excused, s \in Slots : Works(s, c) /\ Works(r, c) => s = r
  BY DEF Books, BooksOK, Fine
<1>12. \A c \in Contracts \ excused' :
         IF \E s \in Slots : Works(s, c) /\ req'[s] # req[s]
         THEN \A s \in Slots : Works(s, c) => owed'[c] = Expected(req[s], c)
         ELSE owed'[c] = owed[c]
  <2> SUFFICES ASSUME NEW c \in Contracts \ excused
               PROVE  IF \E s \in Slots : Works(s, c) /\ req'[s] # req[s]
                      THEN \A s \in Slots : Works(s, c) => owed'[c] = Expected(req[s], c)
                      ELSE owed'[c] = owed[c]
    BY <1>4
  <2>1. owed'[c] = OwedAfter(req[r], c)
    BY <1>4
  <2>2. req'[r] # req[r]
    BY <1>5, NoRequestTyped DEF InFlight
  <2>3. CASE Works(r, c)
    BY <1>10, <1>11, <2>1, <2>2, <2>3
  <2>4. CASE ~Works(r, c)
    BY <1>5, <1>9, <2>1, <2>4
  <2> QED
    BY <2>3, <2>4
<1>13. Invested' = Invested
  BY DEF Invested
<1>14. TotalsOK'
  <2>1. \A s \in Slots : Trades(s)' => Trades(s) /\ req'[s] = req[s] /\ s # r
    BY <1>5, NoRequestTyped DEF Trades, InFlight
  <2>2. CASE req[r].step = "poll"
    <3>1. settled' = settled /\ total' = total
      BY <1>1, <1>4, <1>7, <2>2
    <3>2. (\A s \in Slots : ~req'[s].wrote) => \A s \in Slots : ~req[s].wrote
      BY <1>5, <1>7, <2>2
    <3> QED
      BY <1>1, <1>4, <1>13, <2>1, <3>1, <3>2 DEF TotalsOK
  <2>3. CASE req[r].step = "total"
    <3>1. Trades(r) /\ total' = req[r].sum
      BY <1>8, <2>3 DEF Trades
    <3>2. settled' => settled \/ alone[r]
      BY <1>4
    <3>3. settled \/ alone[r] => total' = Invested'
      BY <1>1, <1>13, <2>3, <3>1 DEF TotalsOK
    <3>4. settled \/ alone[r] => \A s \in Slots : ~Trades(s)'
      BY <1>1, <2>1, <3>1 DEF TotalsOK
    <3> QED
      BY <1>1, <1>4, <1>13, <2>1, <3>2, <3>3, <3>4 DEF TotalsOK
  <2> QED
    BY <2>2, <2>3
<1>15. total' \in Nat /\ owed' \in [Contracts -> Nat] /\ settled' \in BOOLEAN
  <2>1. settled' \in BOOLEAN
    BY <1>4
  <2> QED
    BY <1>1, <1>4, <1>6, <1>9, <2>1
<1> QED
  BY <1>1, <1>3, <1>4, <1>5, <1>12, <1>14, <1>15, EndsKeep

LEMMA RestartKeeps ==
  ASSUME Books, Restart
  PROVE  Books'
<1>1. /\ Tables /\ req \in [Slots -> RequestType] /\ \A s \in Slots : InControl(req[s])
      /\ total \in Nat /\ owed \in [Contracts -> Nat] /\ excused \subseteq Contracts
      /\ settled \in BOOLEAN /\ TotalsOK
  BY BooksAre DEF RequestsOK
<1> DEFINE cut == {r \in Slots : InFlight(r) /\ req[r].wrote}
<1>2. /\ UNCHANGED <<prices, tokens, total, lastId, owed, alone>>
      /\ req' = [s \in Slots |-> NoRequest] /\ DOMAIN job' = {}
      /\ excused' = excused \cup UNION {Touches(req[r]) : r \in cut}
      /\ settled' = (settled /\ cut = {})
  BY DEF Restart, rows, Empty
<1>3. TablesKeep
  BY <1>1, <1>2, TablesSame DEF JobsTyped
<1>4. req' \in [Slots -> RequestType] /\ \A s \in Slots : req'[s] = NoRequest
  BY <1>2, NoRequestTyped
<1>5. \A s \in Slots : Touches(req[s]) \subseteq Contracts
  BY <1>1 DEF RequestType, Touches
<1>6. ASSUME NEW c \in Contracts \ excused', NEW s \in Slots, Works(s, c)
      PROVE  Expected(req[s], c) = owed[c]
  <2>1. ~req[s].wrote
    BY <1>2, <1>6 DEF Works
  <2> QED
    BY <1>1, <1>6, <2>1, NotWritten DEF InFlight, Works
<1>7. TotalsOK'
  <2>1. Invested' = Invested
    BY <1>2 DEF Invested
  <2>2. \A s \in Slots : ~Trades(s)'
    BY <1>4, NoRequestTyped DEF Trades, InFlight
  <2>3. \A s \in Slots : ~InFlight(s) => ~req[s].wrote
    BY <1>1, NoRequestTyped DEF InFlight, InControl
  <2>4. settled' => settled /\ \A s \in Slots : ~req[s].wrote
    BY <1>2, <2>3
  <2> QED
    BY <1>1, <1>2, <2>1, <2>2, <2>4 DEF TotalsOK
<1>8. excused' \subseteq Contracts /\ excused \subseteq excused'
  BY <1>1, <1>2, <1>5
<1>9. settled' \in BOOLEAN
  BY <1>2
<1>10. \A c \in Contracts \ excused' :
         IF \E s \in Slots : Works(s, c) /\ req'[s] # req[s]
         THEN \A s \in Slots : Works(s, c) => owed'[c] = Expected(req[s], c)
         ELSE owed'[c] = owed[c]
  BY <1>2, <1>6
<1> HIDE DEF cut
<1> QED
  BY <1>1, <1>2, <1>3, <1>4, <1>7, <1>8, <1>9, <1>10, EndsKeep

-----------------------------------------------------------------------------
LEMMA TokensStill ==
  ASSUME Tables, IdsNew, UNCHANGED tokens
  PROVE  /\ \A c : Still(c)
         /\ Invested' = Invested
<1>1. \A t \in DOMAIN tokens : ContractOf(t)' = ContractOf(t)
  BY DEF Tables, Typed, Ids, IdsNew
<1> QED
  BY <1>1 DEF Still, RowsOf, Invested

(* A request looks something up: what it expects stays as it was.          *)
LEMMA LooksUp ==
  ASSUME Books, TablesKeep, UNCHANGED tokens, NEW r \in Slots, NEW n, Moves(r, n), InFlight(r),
         Known(n)', \A c \in Contracts : Expected(n, c) = Expected(req[r], c),
         \A c \in Contracts \ excused : c \in Touches(n) /\ Ready(req[r], c) => Ready(n, c)',
         n.step = "total" => n.sum = Invested
  PROVE  Books'
<1>1. Tables /\ IdsNew /\ UNCHANGED owed
  BY BooksAre DEF TablesKeep, Moves
<1>2. (\A c : Still(c)) /\ Invested' = Invested
  BY <1>1, TokensStill
<1>3. ASSUME NEW c \in Contracts \ excused, c \in Touches(n), Fine(c)
      PROVE  Holds(c, Expected(n, c))' /\ Ready(n, c)'
  <2>1. Works(r, c)
    BY <1>3, MoveRequests DEF Works
  <2>2. PICK e : e = Expected(n, c)
    OBVIOUS
  <2>3. Holds(c, e) /\ Ready(req[r], c)
    BY <1>3, <2>1, <2>2 DEF Fine
  <2>4. Expected(n, c)' = e
    BY <1>1, <2>2 DEF Expected, OwedAfter, Left
  <2>5. Holds(c, e)'
    BY <1>2, <2>3, StillHolds
  <2> QED
    BY <1>3, <2>3, <2>4, <2>5
<1> QED
  BY <1>2, <1>3, MoveKeeps

(* What a request at this step is. *)
LEMMA AtIs ==
  ASSUME Books, NEW r \in Slots
  PROVE  /\ req[r] \in RequestType /\ InControl(req[r]) /\ Known(req[r])
         /\ \A step \in Steps \ {"idle"} : At(r, step) => InFlight(r) /\ req[r].step = step
BY BooksAre DEF RequestsOK, At, InFlight

LEMMA EnsureKeeps ==
  ASSUME Books, NEW r \in Slots, Ensure(r)
  PROVE  Books'
<1> DEFINE q == req[r]
<1>1. /\ q \in RequestType /\ InControl(q) /\ Known(q) /\ InFlight(r) /\ q.step = "ensure"
      /\ req \in [Slots -> RequestType] /\ Tables
  BY AtIs, BooksAre DEF Ensure, Steps
<1>2. UNCHANGED <<prices, tokens, lastId, job, total, owed, excused, alone, settled>>
  BY DEF Ensure, rows, history
<1>3. TablesKeep
  BY <1>1, <1>2, TablesSame DEF Tables, JobsTyped
<1>4. /\ q.kind \in {"add", "new", "rule"}
      /\ q.kind = "new" <=> q.wrote
      /\ q.kind \in {"add", "rule"} => q.sells = {}
  BY <1>1, NoRequestTyped DEF InControl
<1>5. ASSUME NEW n, req' = [req EXCEPT ![r] = n], n \in RequestType,
             n.kind = q.kind, n.contract = q.contract, n.sells = q.sells, n.qty = q.qty,
             n.from = q.from, n.to = q.to, n.wrote = q.wrote,
             n.step = "stub" \/ n.step = AfterEnsure(q.kind), Known(n)
      PROVE  Books'
  <2>1. n.step \in {"stub", "find", "price", "poll"}
        /\ (n.kind = "add" => n.step \in {"stub", "find"})
        /\ (n.kind = "new" => n.step \in {"stub", "price"})
        /\ (n.kind = "rule" => n.step \in {"stub", "poll"})
    BY <1>4, <1>5 DEF AfterEnsure
  <2>2. InControl(n)
    BY <1>4, <1>5, <2>1 DEF InControl
  <2>3. Moves(r, n)
    BY <1>2, <1>5, <2>1, <2>2 DEF Moves
  <2>4. Known(n)'
    BY <1>2, <1>5 DEF Known, PriceKnown, TokensKnown, ContractOf
  <2>5. \A c \in Contracts : Expected(n, c) = Expected(q, c) /\ Ready(n, c)'
    BY <1>1, <1>5, <2>1 DEF Expected, Left, Ready
  <2> QED
    BY <1>1, <1>2, <1>3, <2>1, <2>3, <2>4, <2>5, LooksUp
<1>6. CASE Goto(r, "stub")
  <2> DEFINE n == [q EXCEPT !.step = "stub"]
  <2>1. req' = [req EXCEPT ![r] = n]
    BY <1>1, <1>6 DEF Goto
  <2>2. n \in RequestType
    BY <1>1 DEF RequestType, Steps
  <2>3. /\ n.kind = q.kind /\ n.contract = q.contract /\ n.sells = q.sells /\ n.qty = q.qty
        /\ n.from = q.from /\ n.to = q.to /\ n.wrote = q.wrote /\ n.price = q.price
        /\ n.step = "stub"
    BY <1>1 DEF RequestType
  <2>4. Known(n)
    BY <1>1, <2>3 DEF Known, PriceKnown, TokensKnown
  <2> HIDE DEF n
  <2> QED
    BY <1>5, <2>1, <2>2, <2>3, <2>4
<1>7. ASSUME NEW i \in PriceRows(q.contract),
             req' = [req EXCEPT ![r].price = i, ![r].step = AfterEnsure(q.kind)]
      PROVE  Books'
  <2> DEFINE n == [q EXCEPT !.price = i, !.step = AfterEnsure(q.kind)]
  <2>1. req' = [req EXCEPT ![r] = n]
    BY <1>1, <1>7
  <2>2. AfterEnsure(q.kind) \in Steps /\ i \in Nat /\ i <= lastId.prices
        /\ i \in DOMAIN prices /\ prices[i].contract = q.contract
    BY <1>1, <1>4 DEF AfterEnsure, Steps, PriceRows, Tables, Ids, Typed
  <2>3. n \in RequestType
    BY <1>1, <2>2 DEF RequestType
  <2>4. /\ n.kind = q.kind /\ n.contract = q.contract /\ n.sells = q.sells /\ n.qty = q.qty
        /\ n.from = q.from /\ n.to = q.to /\ n.wrote = q.wrote /\ n.price = i
        /\ n.step = AfterEnsure(q.kind)
    BY <1>1 DEF RequestType
  <2>5. Known(n)
    BY <1>1, <2>2, <2>4 DEF Known, PriceKnown, TokensKnown
  <2> HIDE DEF n
  <2> QED
    BY <1>5, <2>1, <2>3, <2>4, <2>5
<1> QED
  BY <1>6, <1>7 DEF Ensure

LEMMA StubInserted ==
  ASSUME Tables, NEW r \in Slots, NEW c \in Contracts, UNCHANGED tokens, IInv',
         NEW id, id = lastId.prices + 1,
         prices' = With(prices, id, [contract |-> c, priced |-> FALSE]),
         lastId' = [lastId EXCEPT !.prices = id],
         job' = With(job, id, [step |-> "resolving", ctx |-> {r}])
  PROVE  TablesKeep
<1>1. /\ lastId.prices \in Nat /\ lastId.tokens \in Nat /\ id > lastId.prices
      /\ lastId'.prices = id /\ lastId'.tokens = lastId.tokens
      /\ lastId' \in [prices : Nat, tokens : Nat]
  BY DEF Tables, Typed
<1>2. /\ DOMAIN prices' = DOMAIN prices \cup {id} /\ prices'[id] = [contract |-> c, priced |-> FALSE]
      /\ \A i \in DOMAIN prices : i # id => prices'[i] = prices[i]
      /\ DOMAIN job' = DOMAIN job \cup {id} /\ job'[id] = [step |-> "resolving", ctx |-> {r}]
      /\ \A i \in DOMAIN job : i # id => job'[i] = job[i]
  BY DEF With
<1>3. \A i \in DOMAIN prices : i # id
  BY <1>1 DEF Tables, Ids
<1>4. Typed'
  <2>1. [contract |-> c, priced |-> FALSE] \in [contract : Contracts, priced : BOOLEAN]
    OBVIOUS
  <2> QED
    BY <1>1, <1>2, <2>1 DEF Tables, Typed
<1>5. JobsTyped'
  <2>1. [step |-> "resolving", ctx |-> {r}] \in [step : JobSteps, ctx : SUBSET Slots]
    BY DEF JobSteps
  <2> QED
    BY <1>2, <2>1 DEF Tables, JobsTyped
<1>6. Ids'
  <2>1. DOMAIN prices \subseteq 1..lastId.prices /\ DOMAIN tokens' \subseteq 1..lastId.tokens
    BY DEF Tables, Ids
  <2>2. DOMAIN prices' \subseteq 1..id
    BY <1>1, <1>2, <2>1
  <2> QED
    BY <1>1, <2>1, <2>2 DEF Ids
<1>7. IdsNew
  <2>1. \A i \in DOMAIN prices' : \/ i \in DOMAIN prices /\ prices'[i].contract = prices[i].contract
                                \/ i > lastId.prices
    BY <1>1, <1>2, <1>3
  <2>2. \A t \in DOMAIN tokens : tokens[t].price \in DOMAIN prices
    BY DEF Tables, IInv, HoldingsHavePrice
  <2>3. \A t \in DOMAIN tokens' : t \in DOMAIN tokens /\ ContractOf(t)' = ContractOf(t)
    BY <1>2, <1>3, <2>2 DEF ContractOf
  <2>4. lastId.prices <= lastId'.prices /\ lastId.tokens <= lastId'.tokens
    BY <1>1
  <2> QED
    BY <2>1, <2>3, <2>4 DEF IdsNew
<1> QED
  BY <1>4, <1>5, <1>6, <1>7 DEF TablesKeep, Tables

LEMMA InsertStubKeeps ==
  ASSUME Books, NEW r \in Slots, InsertStub(r)
  PROVE  Books'
<1>0. PICK q, id : q = req[r] /\ id = lastId.prices + 1
  OBVIOUS
<1>1. /\ q \in RequestType /\ InControl(q) /\ Known(q) /\ InFlight(r) /\ q.step = "stub"
      /\ req \in [Slots -> RequestType] /\ Tables /\ q.contract \in Contracts
  BY <1>0, AtIs, BooksAre DEF InsertStub, Steps, RequestType
<1>2. CASE AnswerError(r) /\ UNCHANGED rows
  BY <1>1, <1>2, ErrorKeeps
<1>3. CASE /\ UniqueKey(q.contract)
           /\ prices' = With(prices, id, [contract |-> q.contract, priced |-> FALSE])
           /\ lastId' = [lastId EXCEPT !.prices = id]
           /\ job' = With(job, id, [step |-> "resolving", ctx |-> {r}])
           /\ req' = [req EXCEPT ![r].price = id, ![r].step = AfterEnsure(q.kind)]
           /\ UNCHANGED <<tokens, total, spent, history>>
  <2>1. IInv'
    BY InsertStubIInv DEF Books
  <2>2. TablesKeep
    BY <1>0, <1>1, <1>3, <2>1, StubInserted
  <2>3. /\ q.kind \in {"add", "new", "rule"}
        /\ q.kind = "new" <=> q.wrote
        /\ q.kind \in {"add", "rule"} => q.sells = {}
    BY <1>1, NoRequestTyped DEF InControl
  <2>4. /\ AfterEnsure(q.kind) \in Steps
        /\ (q.kind = "add" => AfterEnsure(q.kind) = "find")
        /\ (q.kind = "new" => AfterEnsure(q.kind) = "price")
        /\ (q.kind = "rule" => AfterEnsure(q.kind) = "poll")
    BY <2>3 DEF AfterEnsure, Steps
  <2>5. id \in Nat /\ lastId'.prices = id /\ lastId'.tokens = lastId.tokens
        /\ id \in DOMAIN prices' /\ prices'[id].contract = q.contract
    BY <1>0, <1>1, <1>3 DEF Tables, Typed, With
  <2>0. PICK n : n = [q EXCEPT !.price = id, !.step = AfterEnsure(q.kind)]
    OBVIOUS
  <2>6. req' = [req EXCEPT ![r] = n]
    BY <1>0, <1>1, <1>3, <2>0
  <2>7. n \in RequestType
    BY <1>1, <2>0, <2>4, <2>5 DEF RequestType
  <2>8. /\ n.kind = q.kind /\ n.contract = q.contract /\ n.sells = q.sells /\ n.qty = q.qty
        /\ n.from = q.from /\ n.to = q.to /\ n.wrote = q.wrote /\ n.price = id
        /\ n.step = AfterEnsure(q.kind)
    BY <1>1, <2>0 DEF RequestType
  <2>9. Moves(r, n)
    BY <1>0, <1>3, <2>3, <2>4, <2>6, <2>7, <2>8 DEF Moves, InControl, history
  <2>10. Known(n)'
    <3>1. Known(q)'
      <4>1. Typed /\ Ids' /\ IdsNew /\ lastId' \in [prices : Nat, tokens : Nat]
        BY <1>1, <2>2 DEF TablesKeep, Tables, Typed
      <4> QED
        BY <1>1, <4>1, KnownKept
    <3> QED
      BY <2>5, <2>8, <3>1 DEF Known, PriceKnown, TokensKnown
  <2>11. \A c \in Contracts : Expected(n, c) = Expected(q, c) /\ Ready(n, c)'
    BY <1>1, <2>3, <2>4, <2>8 DEF Expected, Left, Ready
  <2> QED
    <3>1. UNCHANGED tokens /\ n.step # "total" /\ req[r] = q
      BY <1>0, <1>3, <2>3, <2>4, <2>8
    <3> QED
      BY <1>1, <2>2, <2>9, <2>10, <2>11, <3>1, LooksUp
<1> QED
  BY <1>0, <1>2, <1>3 DEF InsertStub

LEMMA ReadSourceKeeps ==
  ASSUME Books, NEW r \in Slots, ReadSource(r)
  PROVE  Books'
<1>0. PICK q, t : q = req[r] /\ t = req[r].from
  OBVIOUS
<1>1. /\ q \in RequestType /\ InControl(q) /\ Known(q) /\ InFlight(r) /\ q.step = "source"
      /\ req \in [Slots -> RequestType] /\ Tables
  BY <1>0, AtIs, BooksAre DEF ReadSource, Steps
<1>2. CASE AnswerError(r)
  BY <1>1, <1>2, ErrorKeeps DEF ReadSource
<1>3. CASE /\ t \in DOMAIN tokens
           /\ req' = [req EXCEPT ![r].seen = [amount |-> tokens[t].amount, invested |-> 0],
                                 ![r].step = "spend"]
           /\ UNCHANGED <<job, history>>
  <2>0. PICK n : n = [q EXCEPT !.seen = [amount |-> tokens[t].amount, invested |-> 0], !.step = "spend"]
    OBVIOUS
  <2>1. UNCHANGED <<prices, tokens, lastId, job, total, owed, excused, alone, settled>>
    BY <1>3 DEF ReadSource, rows, history
  <2>2. TablesKeep
    BY <1>1, <2>1, TablesSame DEF Tables, JobsTyped
  <2>3. req' = [req EXCEPT ![r] = n]
    BY <1>0, <1>1, <1>3, <2>0
  <2>4. tokens[t].amount \in Nat
    BY <1>1, <1>3 DEF Tables, Typed
  <2>5. n \in RequestType
    BY <1>1, <2>0, <2>4 DEF RequestType, Steps, Amounts
  <2>6. /\ n.kind = q.kind /\ n.contract = q.contract /\ n.sells = q.sells /\ n.qty = q.qty
        /\ n.from = q.from /\ n.to = q.to /\ n.wrote = q.wrote /\ n.price = q.price
        /\ n.step = "spend" /\ n.seen.amount = tokens[t].amount
    BY <1>1, <2>0 DEF RequestType
  <2>7. InControl(n)
    BY <1>1, <2>6, NoRequestTyped DEF InControl
  <2>8. Moves(r, n)
    BY <1>0, <2>1, <2>3, <2>5, <2>6, <2>7 DEF Moves
  <2>9. Known(n)'
    BY <1>1, <2>1, <2>6 DEF Known, PriceKnown, TokensKnown, ContractOf
  <2>10. \A c \in Contracts : Expected(n, c) = Expected(q, c)
    BY <1>1, <2>6 DEF Expected
  <2>11. ASSUME NEW c, Ready(q, c)
         PROVE  Ready(n, c)'
    <3>1. RowsOf(c)' = RowsOf(c)
      BY <2>1 DEF RowsOf, ContractOf
    <3> QED
      BY <1>0, <1>1, <2>1, <2>6, <2>11, <3>1 DEF Ready
  <2> QED
    BY <1>0, <1>1, <2>1, <2>2, <2>6, <2>8, <2>9, <2>10, <2>11, LooksUp
<1> QED
  BY <1>0, <1>2, <1>3 DEF ReadSource

LEMMA FindPriceKeeps ==
  ASSUME Books, NEW r \in Slots, FindPrice(r)
  PROVE  Books'
<1>0. PICK q, i, n : q = req[r] /\ i = req[r].price /\ n = [q EXCEPT !.step = "find"]
  OBVIOUS
<1>1. /\ q \in RequestType /\ InControl(q) /\ Known(q) /\ InFlight(r) /\ q.step = "price"
      /\ req \in [Slots -> RequestType] /\ Tables
  BY <1>0, AtIs, BooksAre DEF FindPrice, Steps
<1>2. UNCHANGED <<tokens, lastId, job, total, owed, excused, alone, settled>>
  BY DEF FindPrice, history
<1>3. TablesKeep
  <2>1. IInv'
    BY FindPriceIInv DEF Books
  <2>2. prices' = prices \/ prices' = [prices EXCEPT ![i].priced = TRUE]
    BY <1>0 DEF FindPrice
  <2>3. /\ DOMAIN prices' \subseteq DOMAIN prices
        /\ \A j \in DOMAIN prices' : /\ prices'[j] \in [contract : Contracts, priced : BOOLEAN]
                                     /\ prices'[j].contract = prices[j].contract
    <3>1. \A j \in DOMAIN prices : prices[j] \in [contract : Contracts, priced : BOOLEAN]
      BY <1>1 DEF Tables, Typed
    <3>2. CASE prices' = prices
      BY <3>1, <3>2
    <3>3. CASE prices' = [prices EXCEPT ![i].priced = TRUE]
      <4>1. DOMAIN prices' = DOMAIN prices
            /\ \A j \in DOMAIN prices : prices'[j] = prices[j]
                                       \/ prices'[j] = [prices[j] EXCEPT !.priced = TRUE]
        BY <3>3
      <4>2. ASSUME NEW p \in [contract : Contracts, priced : BOOLEAN]
            PROVE  /\ [p EXCEPT !.priced = TRUE] \in [contract : Contracts, priced : BOOLEAN]
                   /\ [p EXCEPT !.priced = TRUE].contract = p.contract
        OBVIOUS
      <4> QED
        BY <3>1, <4>1, <4>2
    <3> QED
      BY <2>2, <3>2, <3>3
  <2>4. JobsTyped'
    BY <1>1, <1>2 DEF Tables, JobsTyped
  <2> QED
    BY <1>1, <1>2, <2>1, <2>3, <2>4, PricesKeep
<1>4. req' = [req EXCEPT ![r] = n]
  BY <1>0, <1>1 DEF FindPrice, Goto
<1>5. n \in RequestType
  BY <1>0, <1>1 DEF RequestType, Steps
<1>6. /\ n.kind = q.kind /\ n.contract = q.contract /\ n.sells = q.sells /\ n.qty = q.qty
      /\ n.from = q.from /\ n.to = q.to /\ n.wrote = q.wrote /\ n.price = q.price
      /\ n.step = "find"
  BY <1>0, <1>1 DEF RequestType
<1>7. InControl(n)
  BY <1>1, <1>6, NoRequestTyped DEF InControl
<1>8. Moves(r, n)
  BY <1>0, <1>2, <1>4, <1>5, <1>6, <1>7 DEF Moves
<1>9. Known(n)'
  <2>1. Typed /\ Ids' /\ IdsNew /\ lastId' \in [prices : Nat, tokens : Nat]
    BY <1>1, <1>3 DEF TablesKeep, Tables, Typed
  <2>2. Known(q)'
    BY <1>1, <2>1, KnownKept
  <2> QED
    BY <1>6, <2>2 DEF Known, PriceKnown, TokensKnown
<1>10. \A c \in Contracts : Expected(n, c) = Expected(q, c) /\ Ready(n, c)'
  BY <1>1, <1>6 DEF Expected, Left, Ready
<1> QED
  BY <1>0, <1>1, <1>2, <1>3, <1>6, <1>8, <1>9, <1>10, LooksUp

LEMMA FindTokenKeeps ==
  ASSUME Books, NEW r \in Slots, FindToken(r)
  PROVE  Books'
<1>0. PICK q : q = req[r]
  OBVIOUS
<1>1. /\ q \in RequestType /\ InControl(q) /\ Known(q) /\ InFlight(r) /\ q.step = "find"
      /\ req \in [Slots -> RequestType] /\ Tables
  BY <1>0, AtIs, BooksAre DEF FindToken, Steps
<1>2. UNCHANGED <<prices, tokens, lastId, job, total, owed, excused, alone, settled>>
  BY DEF FindToken, rows, history
<1>3. TablesKeep
  BY <1>1, <1>2, TablesSame DEF Tables, JobsTyped
<1> DEFINE found == {t \in DOMAIN tokens : tokens[t].price = q.price}
<1>4. ASSUME NEW c \in Contracts, c = q.contract, q.price \in DOMAIN prices
      PROVE  RowsOf(c) = found
  <2>1. prices[q.price].contract = c
    BY <1>1, <1>4 DEF Known, PriceKnown
  <2> QED
    BY <1>1, <1>4, <2>1 DEF Tables, IInv, OneRowPerContract, HoldingsHavePrice, RowsOf, ContractOf
<1>5. ASSUME NEW n, req' = [req EXCEPT ![r] = n], n \in RequestType, n.step = "write",
             n.kind = q.kind, n.contract = q.contract, n.sells = q.sells, n.qty = q.qty,
             n.from = q.from, n.wrote = q.wrote, n.price = q.price,
             \/ n.to = None /\ found = {}
             \/ n.to \in found /\ n.seen.amount = tokens[n.to].amount
      PROVE  Books'
  <2>1. InControl(n)
    BY <1>1, <1>5, NoRequestTyped DEF InControl
  <2>2. Moves(r, n)
    BY <1>0, <1>2, <1>5, <2>1 DEF Moves
  <2>3. /\ 0 \notin DOMAIN tokens /\ 0 <= lastId.tokens
        /\ \A t \in DOMAIN tokens : t <= lastId.tokens
    BY <1>1 DEF Tables, Ids, Typed
  <2>4. \A t \in found : ContractOf(t) = q.contract
    BY <1>1 DEF Tables, IInv, HoldingsHavePrice, Known, PriceKnown, ContractOf
  <2>5. Known(n)'
    BY <1>1, <1>2, <1>5, <2>3, <2>4 DEF Known, PriceKnown, TokensKnown, ContractOf, None
  <2>6. \A c \in Contracts : Expected(n, c) = Expected(q, c)
    BY <1>1, <1>5 DEF Expected, Left
  <2>7. ASSUME NEW c \in Contracts
        PROVE  Ready(n, c)'
    <3>1. RowsOf(c)' = RowsOf(c)
      BY <1>2 DEF RowsOf, ContractOf
    <3>2. c = q.contract => \A t \in found : t \in RowsOf(c)
      BY <2>4 DEF RowsOf
    <3> QED
      BY <1>2, <1>4, <1>5, <2>3, <3>1, <3>2 DEF Ready, None
  <2> QED
    BY <1>0, <1>1, <1>2, <1>3, <1>5, <2>2, <2>5, <2>6, <2>7, LooksUp
<1>6. CASE found = {} /\ req' = [req EXCEPT ![r].to = None, ![r].step = "write"]
  <2>0. PICK n : n = [q EXCEPT !.to = None, !.step = "write"]
    OBVIOUS
  <2>1. req' = [req EXCEPT ![r] = n]
    BY <1>0, <1>1, <1>6, <2>0
  <2>2. n \in RequestType
    BY <1>1, <2>0 DEF RequestType, Steps, None
  <2>3. /\ n.kind = q.kind /\ n.contract = q.contract /\ n.sells = q.sells /\ n.qty = q.qty
        /\ n.from = q.from /\ n.to = None /\ n.wrote = q.wrote /\ n.price = q.price
        /\ n.step = "write"
    BY <1>1, <2>0 DEF RequestType
  <2> QED
    BY <1>5, <1>6, <2>1, <2>2, <2>3
<1>7. ASSUME NEW t \in found,
             req' = [req EXCEPT ![r].to = t, ![r].step = "write",
                       ![r].seen = [amount |-> tokens[t].amount, invested |-> tokens[t].invested]]
      PROVE  Books'
  <2>0. PICK n : n = [q EXCEPT !.to = t, !.step = "write",
                       !.seen = [amount |-> tokens[t].amount, invested |-> tokens[t].invested]]
    OBVIOUS
  <2>1. req' = [req EXCEPT ![r] = n]
    BY <1>0, <1>1, <1>7, <2>0
  <2>2. t \in Nat /\ tokens[t].amount \in Nat /\ tokens[t].invested \in Nat
    BY <1>1 DEF Tables, Typed, Ids
  <2>3. n \in RequestType
    BY <1>1, <2>0, <2>2 DEF RequestType, Steps, Amounts
  <2>4. /\ n.kind = q.kind /\ n.contract = q.contract /\ n.sells = q.sells /\ n.qty = q.qty
        /\ n.from = q.from /\ n.to = t /\ n.wrote = q.wrote /\ n.price = q.price
        /\ n.step = "write" /\ n.seen.amount = tokens[t].amount
    BY <1>1, <2>0 DEF RequestType
  <2> QED
    BY <1>5, <2>1, <2>3, <2>4
<1> QED
  BY <1>0, <1>6, <1>7 DEF FindToken

LEMMA ReadHoldingsKeeps ==
  ASSUME Books, NEW r \in Slots, ReadHoldings(r)
  PROVE  Books'
<1>0. PICK q, n : q = req[r] /\ n = [q EXCEPT !.sum = Invested, !.step = "total"]
  OBVIOUS
<1>1. /\ q \in RequestType /\ InControl(q) /\ Known(q) /\ InFlight(r) /\ q.step = "read"
      /\ req \in [Slots -> RequestType] /\ Tables
  BY <1>0, AtIs, BooksAre DEF ReadHoldings, Steps
<1>2. UNCHANGED <<prices, tokens, lastId, job, total, owed, excused, alone, settled>>
  BY DEF ReadHoldings, rows, history
<1>3. TablesKeep
  BY <1>1, <1>2, TablesSame DEF Tables, JobsTyped
<1>4. req' = [req EXCEPT ![r] = n]
  BY <1>0, <1>1 DEF ReadHoldings
<1>5. Invested \in Nat
  BY InvestedNat DEF Books
<1>6. n \in RequestType
  BY <1>0, <1>1, <1>5 DEF RequestType, Steps
<1>7. /\ n.kind = q.kind /\ n.contract = q.contract /\ n.sells = q.sells /\ n.qty = q.qty
      /\ n.from = q.from /\ n.to = q.to /\ n.wrote = q.wrote /\ n.price = q.price
      /\ n.step = "total" /\ n.sum = Invested
  BY <1>0, <1>1 DEF RequestType
<1>8. InControl(n)
  BY <1>1, <1>7, NoRequestTyped DEF InControl
<1>9. Moves(r, n)
  BY <1>0, <1>2, <1>4, <1>6, <1>7, <1>8 DEF Moves
<1>10. Known(n)'
  BY <1>1, <1>2, <1>7 DEF Known, PriceKnown, TokensKnown, ContractOf
<1>11. \A c \in Contracts : Expected(n, c) = Expected(q, c) /\ Ready(n, c)'
  BY <1>1, <1>7 DEF Expected, OwedAfter, Ready
<1> QED
  BY <1>0, <1>1, <1>2, <1>3, <1>7, <1>9, <1>10, <1>11, LooksUp

(* Requests that are answered.                                             *)
LEMMA AnswersKeep ==
  ASSUME Books, NEW r \in Slots,
         PollPrice(r) \/ PollTimeout(r) \/ NoPrice(r) \/ WriteTotals(r) \/ RequestFails(r)
  PROVE  Books'
<1>1. CASE PollPrice(r)
  <2>1. InFlight(r) /\ req[r].step = "poll"
    BY <1>1, AtIs DEF PollPrice, Steps
  <2>2. UNCHANGED rows
    BY <1>1 DEF PollPrice
  <2> QED
    BY <1>1, <2>1, <2>2, ErrorKeeps, OkKeeps DEF PollPrice, rows
<1>2. CASE PollTimeout(r)
  <2>1. InFlight(r)
    BY <1>2, AtIs DEF PollTimeout, Deadline, Steps
  <2> QED
    BY <1>2, <2>1, ErrorKeeps DEF PollTimeout
<1>3. CASE NoPrice(r)
  <2>1. InFlight(r)
    BY <1>3, AtIs DEF NoPrice, Steps
  <2> QED
    BY <1>3, <2>1, ErrorKeeps DEF NoPrice
<1>4. CASE WriteTotals(r)
  <2>1. InFlight(r) /\ req[r].step = "total"
    BY <1>4, AtIs DEF WriteTotals, Steps
  <2>2. total' = req[r].sum
    BY <1>4 DEF WriteTotals, SumRead
  <2> QED
    BY <1>4, <2>1, <2>2, OkKeeps DEF WriteTotals
<1>5. CASE RequestFails(r)
  BY <1>5, ErrorKeeps DEF RequestFails
<1> QED
  BY <1>1, <1>2, <1>3, <1>4, <1>5

-----------------------------------------------------------------------------
(* Steps of others that leave the requests and the holdings alone.         *)
LEMMA ElsewhereKeeps ==
  ASSUME Books, TablesKeep, \A c : Still(c), Invested' = Invested,
         UNCHANGED <<total, req, owed, excused, alone, settled>>
  PROVE  Books'
<1>1. /\ Tables /\ IdsNew /\ Tables' /\ RequestsOK /\ req \in [Slots -> RequestType]
      /\ total \in Nat /\ owed \in [Contracts -> Nat] /\ excused \subseteq Contracts
      /\ alone \in [Slots -> BOOLEAN] /\ settled \in BOOLEAN /\ TotalsOK
  BY BooksAre DEF TablesKeep
<1>2. RequestsOK'
  <2> SUFFICES ASSUME NEW s \in Slots PROVE InControl(req[s])' /\ Known(req[s])'
    BY DEF RequestsOK
  <2>0. PICK q : q = req[s]
    OBVIOUS
  <2>1. q \in RequestType /\ Known(q) /\ InControl(q) /\ req'[s] = q
    BY <1>1, <2>0 DEF RequestsOK
  <2>2. Typed /\ lastId' \in [prices : Nat, tokens : Nat] /\ Ids'
    BY <1>1 DEF Tables, Typed
  <2>3. Known(q)'
    BY <1>1, <2>1, <2>2, KnownKept
  <2> QED
    BY <2>1, <2>3 DEF Known, PriceKnown, TokensKnown, InControl
<1>3. BooksOK'
  <2> SUFFICES ASSUME NEW c \in Contracts \ excused PROVE Fine(c)'
    BY DEF BooksOK
  <2>1. Fine(c)
    BY DEF Books, BooksOK
  <2> QED
    BY <1>1, <2>1, Untouched
<1>4. TotalsOK'
  BY <1>1 DEF TotalsOK, Trades, InFlight
<1> QED
  BY <1>1, <1>2, <1>3, <1>4 DEF Books, Tables, TypeOK, Typed, JobsTyped

LEMMA JobMoves ==
  ASSUME JobsTyped, NEW i, NEW step \in JobSteps, JobGoto(i, step)
  PROVE  JobsTyped' /\ DOMAIN job' = DOMAIN job
<1>1. DOMAIN job' = DOMAIN job
      /\ \A k \in DOMAIN job : job'[k] = job[k] \/ job'[k] = [job[k] EXCEPT !.step = step]
  BY DEF JobGoto
<1>2. ASSUME NEW j \in [step : JobSteps, ctx : SUBSET Slots]
      PROVE  [j EXCEPT !.step = step] \in [step : JobSteps, ctx : SUBSET Slots]
  OBVIOUS
<1> QED
  BY <1>1, <1>2 DEF JobsTyped

LEMMA JobsEnd ==
  ASSUME JobsTyped, NEW i, JobEnds(i)
  PROVE  JobsTyped' /\ DOMAIN job' \subseteq DOMAIN job
BY DEF JobEnds, JobsTyped, Restrict

LEMMA PriceStored ==
  ASSUME Tables, NEW i, prices' = [prices EXCEPT ![i].priced = TRUE]
  PROVE  /\ DOMAIN prices' = DOMAIN prices
         /\ \A j \in DOMAIN prices : /\ prices'[j] \in [contract : Contracts, priced : BOOLEAN]
                                    /\ prices'[j].contract = prices[j].contract
<1>1. DOMAIN prices' = DOMAIN prices
      /\ \A j \in DOMAIN prices : prices'[j] = prices[j]
                                 \/ prices'[j] = [prices[j] EXCEPT !.priced = TRUE]
  OBVIOUS
<1>2. ASSUME NEW p \in [contract : Contracts, priced : BOOLEAN]
      PROVE  /\ [p EXCEPT !.priced = TRUE] \in [contract : Contracts, priced : BOOLEAN]
             /\ [p EXCEPT !.priced = TRUE].contract = p.contract
  OBVIOUS
<1>3. \A j \in DOMAIN prices : prices[j] \in [contract : Contracts, priced : BOOLEAN]
  BY DEF Tables, Typed
<1> QED
  BY <1>1, <1>2, <1>3

(* The goroutines that complete or remove a stub, and the daemon.          *)
LEMMA PricingKeeps ==
  ASSUME Books, NEW i,
         \/ i \in DOMAIN job /\ (JobResolves(i) \/ JobFails(i) \/ JobStores(i) \/ JobDropsStub(i))
         \/ i \in DOMAIN prices /\ DaemonPrices(i)
  PROVE  Books'
<1>1. Tables /\ IInv /\ JobsTyped
  BY BooksAre DEF Tables
<1>2. /\ UNCHANGED <<tokens, total, lastId, req, owed, excused, alone, settled>>
  BY DEF JobResolves, JobFails, JobStores, JobDropsStub, DaemonPrices, rows, history
<1>3. IInv'
  <2>1. (i \in DOMAIN job /\ JobStep(i)) \/ (i \in DOMAIN prices /\ DaemonPrices(i))
    BY DEF JobStep
  <2>2. Next
    BY <2>1 DEF Next
  <2> QED
    BY <1>1, <2>2, NextIInv
<1>4. TablesKeep
  <2>1. CASE JobResolves(i) \/ JobFails(i)
    <3>1. UNCHANGED prices /\ (JobGoto(i, "resolved") \/ JobGoto(i, "failed"))
      BY <2>1 DEF JobResolves, JobFails, rows
    <3>2. JobsTyped' /\ DOMAIN job' = DOMAIN job
      BY <1>1, <3>1, JobMoves DEF JobSteps
    <3> QED
      BY <1>1, <1>2, <3>1, <3>2, TablesSame
  <2>2. CASE JobStores(i)
    <3>1. JobsTyped'
      BY <1>1, <2>2, JobsEnd DEF JobStores
    <3>2. CASE prices' = prices
      BY <1>1, <1>2, <1>3, <3>1, <3>2, PricesKeep DEF Tables, Typed
    <3>3. CASE prices' = [prices EXCEPT ![i].priced = TRUE]
      BY <1>1, <1>2, <1>3, <3>1, <3>3, PriceStored, PricesKeep
    <3> QED
      BY <2>2, <3>2, <3>3 DEF JobStores
  <2>3. CASE JobDropsStub(i)
    <3>1. JobsTyped'
      BY <1>1, <2>3, JobsEnd DEF JobDropsStub
    <3>2. prices' = prices \/ prices' = Restrict(prices, DOMAIN prices \ {i})
      BY <2>3 DEF JobDropsStub
    <3>3. \A j \in DOMAIN prices : prices[j] \in [contract : Contracts, priced : BOOLEAN]
      BY <1>1 DEF Tables, Typed
    <3>4. \A j \in DOMAIN prices' : j \in DOMAIN prices /\ prices'[j] = prices[j]
      BY <3>2 DEF Restrict
    <3> QED
      BY <1>1, <1>2, <1>3, <3>1, <3>3, <3>4, PricesKeep
  <2>4. CASE DaemonPrices(i)
    <3>1. JobsTyped' /\ prices' = [prices EXCEPT ![i].priced = TRUE]
      BY <1>1, <2>4 DEF DaemonPrices, JobsTyped
    <3> QED
      BY <1>1, <1>2, <1>3, <3>1, PriceStored, PricesKeep
  <2> QED
    BY <2>1, <2>2, <2>3, <2>4
<1>5. (\A c : Still(c)) /\ Invested' = Invested
  BY <1>1, <1>2, <1>4, TokensStill DEF TablesKeep
<1> QED
  BY <1>2, <1>4, <1>5, ElsewhereKeeps

-----------------------------------------------------------------------------
(* A row of the holdings is changed or removed.                            *)
Only(t) ==
  /\ DOMAIN tokens' \subseteq DOMAIN tokens
  /\ \A u \in DOMAIN tokens : u # t => u \in DOMAIN tokens' /\ tokens'[u] = tokens[u]
  /\ t \in DOMAIN tokens' => /\ tokens'[t] \in [price : Nat, amount : Nat, invested : Nat]
                             /\ tokens'[t].price = tokens[t].price

LEMMA OnlyKeeps ==
  ASSUME Tables, IInv', NEW t, Only(t), UNCHANGED <<prices, lastId, job>>
  PROVE  /\ TablesKeep
         /\ \A c : t \notin RowsOf(c) => Still(c)
         /\ \A c : t \in RowsOf(c) =>
              RowsOf(c)' = IF t \in DOMAIN tokens' THEN RowsOf(c) ELSE RowsOf(c) \ {t}
<1>1. \A u \in DOMAIN tokens' : /\ u \in DOMAIN tokens
                                /\ tokens'[u] \in [price : Nat, amount : Nat, invested : Nat]
                                /\ tokens'[u].price = tokens[u].price
  BY DEF Only, Tables, Typed
<1>2. JobsTyped'
  BY DEF Tables, JobsTyped
<1>3. TablesKeep
  BY <1>1, <1>2, TokensKeep
<1>4. \A u \in DOMAIN tokens' : u \in DOMAIN tokens /\ ContractOf(u)' = ContractOf(u)
  BY <1>1 DEF ContractOf
<1>5. ASSUME NEW c, t \notin RowsOf(c)
      PROVE  Still(c)
  BY <1>4, <1>5 DEF Only, Still, RowsOf
<1>6. ASSUME NEW c, t \in RowsOf(c)
      PROVE  RowsOf(c)' = IF t \in DOMAIN tokens' THEN RowsOf(c) ELSE RowsOf(c) \ {t}
  BY <1>4, <1>6 DEF Only, RowsOf
<1> QED
  BY <1>3, <1>5, <1>6

LEMMA SpendKeeps ==
  ASSUME Books, NEW r \in Slots, SpendSource(r)
  PROVE  Books'
<1>0. PICK q, t, left, n : /\ q = req[r] /\ t = q.from /\ left = Less(q.seen.amount, q.qty)
                           /\ n = [q EXCEPT !.wrote = TRUE, !.step = AfterSpend(q.kind)]
  OBVIOUS
<1>1. /\ q \in RequestType /\ InControl(q) /\ Known(q) /\ InFlight(r) /\ q.step = "spend"
      /\ req \in [Slots -> RequestType] /\ Tables
  BY <1>0, AtIs, BooksAre DEF SpendSource, Steps
<1>2. UNCHANGED <<prices, lastId, job, total, owed, excused, alone, settled>>
  BY DEF SpendSource, history
<1>3. q.kind \in {"cash", "swap", "new"} /\ q.seen.amount \in Nat /\ q.qty \in Nat /\ left \in Nat
  <2>1. q.kind \in {"cash", "swap", "new"}
    BY <1>1, NoRequestTyped DEF InControl
  <2> QED
    BY <1>0, <1>1, <2>1 DEF RequestType, Amounts, Less
<1>4. /\ AfterSpend(q.kind) \in Steps
      /\ (q.kind = "cash" => AfterSpend(q.kind) = "read")
      /\ (q.kind = "swap" => AfterSpend(q.kind) = "credit")
      /\ (q.kind = "new" => AfterSpend(q.kind) = "ensure")
  BY <1>3 DEF AfterSpend, Steps
<1>5. req' = [req EXCEPT ![r] = n]
  BY <1>0, <1>1 DEF SpendSource
<1>6. n \in RequestType
  BY <1>0, <1>1, <1>4 DEF RequestType
<1>7. /\ n.kind = q.kind /\ n.contract = q.contract /\ n.sells = q.sells /\ n.qty = q.qty
      /\ n.from = q.from /\ n.to = q.to /\ n.wrote /\ n.price = q.price
      /\ n.step = AfterSpend(q.kind)
  BY <1>0, <1>1 DEF RequestType
<1>8. Moves(r, n)
  BY <1>0, <1>2, <1>3, <1>4, <1>5, <1>6, <1>7 DEF Moves, InControl
<1>9. Only(t) /\ (t \in DOMAIN tokens => IF left = 0 THEN t \notin DOMAIN tokens'
                                         ELSE t \in DOMAIN tokens' /\ tokens'[t].amount = left)
  <2>1. \A u \in DOMAIN tokens : tokens[u] \in [price : Nat, amount : Nat, invested : Nat]
    BY <1>1 DEF Tables, Typed
  <2>2. CASE t \notin DOMAIN tokens
    BY <1>0, <2>2 DEF SpendSource, Only
  <2>3. CASE t \in DOMAIN tokens /\ left = 0
    <3>1. tokens' = Restrict(tokens, DOMAIN tokens \ {t})
      BY <1>0, <2>3 DEF SpendSource, SoldRow
    <3> QED
      BY <2>3, <3>1 DEF Only, Restrict
  <2>4. CASE t \in DOMAIN tokens /\ left # 0
    <3>1. tokens' = [tokens EXCEPT ![t].amount = left]
      BY <1>0, <2>4 DEF SpendSource, SoldRow
    <3>2. DOMAIN tokens' = DOMAIN tokens /\ tokens'[t] = [tokens[t] EXCEPT !.amount = left]
          /\ \A u \in DOMAIN tokens : u # t => tokens'[u] = tokens[u]
      BY <2>4, <3>1
    <3>3. /\ tokens'[t] \in [price : Nat, amount : Nat, invested : Nat]
          /\ tokens'[t].price = tokens[t].price /\ tokens'[t].amount = left
      BY <1>3, <2>1, <2>4, <3>2
    <3> QED
      BY <2>4, <3>2, <3>3 DEF Only
  <2> QED
    BY <2>2, <2>3, <2>4
<1>10. /\ TablesKeep
       /\ \A c : t \notin RowsOf(c) => Still(c)
       /\ \A c : t \in RowsOf(c) =>
            RowsOf(c)' = IF t \in DOMAIN tokens' THEN RowsOf(c) ELSE RowsOf(c) \ {t}
  <2>1. IInv'
    BY SpendIInv DEF Books
  <2> QED
    BY <1>1, <1>2, <1>9, <2>1, OnlyKeeps
<1>11. Known(n)'
  <2>1. Typed /\ Ids' /\ IdsNew /\ lastId' \in [prices : Nat, tokens : Nat]
    BY <1>1, <1>10 DEF TablesKeep, Tables, Typed
  <2>2. Known(q)'
    BY <1>1, <2>1, KnownKept
  <2> QED
    BY <1>7, <2>2 DEF Known, PriceKnown, TokensKnown
<1>12. \A c : t \in RowsOf(c) => c \in q.sells
  BY <1>0, <1>1 DEF Known, TokensKnown, RowsOf
<1>13. ASSUME NEW c \in Contracts \ excused, c \in Touches(n), Fine(c)
       PROVE  Holds(c, Expected(n, c))' /\ Ready(n, c)'
  <2>1. Works(r, c)
    BY <1>1, <1>5, <1>8, <1>13, MoveRequests DEF Works
  <2>2. Holds(c, owed[c]) /\ Ready(q, c) /\ owed[c] \in Nat
    BY <1>0, <1>1, <1>13, <2>1, BooksAre DEF Fine, Expected
  <2>3. CASE c \in q.sells
    <3>1. t \in RowsOf(c) /\ RowsOf(c) = {t} /\ tokens[t].amount = owed[c]
          /\ left = Less(owed[c], q.qty) /\ t \in DOMAIN tokens
      BY <1>0, <1>1, <2>2, <2>3 DEF Ready, Holds, RowsOf
    <3>2. Holds(c, left)'
      <4>1. CASE left = 0
        <5>1. RowsOf(c)' = {}
          BY <1>9, <1>10, <3>1, <4>1
        <5> QED
          BY <4>1, <5>1 DEF Holds
      <4>2. CASE left # 0
        <5>1. RowsOf(c)' = {t} /\ tokens'[t].amount = left
          BY <1>9, <1>10, <3>1, <4>2
        <5> QED
          BY <5>1 DEF Holds
      <4> QED
        BY <4>1, <4>2
    <3>3. Expected(n, c)' = left
      BY <1>2, <1>3, <1>4, <1>7, <2>3, <3>1 DEF Expected, Left, OwedAfter
    <3>4. ~(q.kind = "swap" /\ c = q.contract)
      BY <1>0, <1>1, <2>2, <3>1 DEF Ready
    <3> QED
      BY <1>3, <1>4, <1>7, <3>2, <3>3, <3>4 DEF Ready
  <2>4. CASE c \notin q.sells
    <3>1. c = q.contract /\ q.kind \in {"swap", "new"}
      BY <1>3, <1>7, <1>13, <2>4 DEF Touches
    <3>2. Still(c)
      BY <1>10, <1>12, <2>4
    <3>3. Expected(n, c)' = owed[c]
      BY <1>2, <1>4, <1>7, <2>4, <3>1 DEF Expected, Left
    <3>4. PICK e : e = owed[c]
      OBVIOUS
    <3>5. Holds(c, e)'
      BY <2>2, <3>2, <3>4, StillHolds
    <3>6. Ready(n, c)'
      BY <1>1, <1>4, <1>7, <2>2, <2>4, <3>1, <3>2 DEF Ready, Still
    <3> QED
      BY <3>3, <3>4, <3>5, <3>6
  <2> QED
    BY <2>3, <2>4
<1>14. \A c \in Contracts : c \notin Touches(n) => Still(c)
  BY <1>7, <1>10, <1>12 DEF Touches
<1> QED
  BY <1>1, <1>3, <1>4, <1>7, <1>8, <1>10, <1>11, <1>13, <1>14, MoveKeeps

LEMMA AddedTo ==
  ASSUME NEW row \in [price : Nat, amount : Nat, invested : Nat], NEW n \in Nat, NEW new,
         new = [row EXCEPT !.amount = @ + n, !.invested = @ + n]
  PROVE  /\ new \in [price : Nat, amount : Nat, invested : Nat]
         /\ new.price = row.price /\ new.amount = row.amount + n
<1>1. row.amount \in Nat /\ row.invested \in Nat /\ row.price \in Nat
  OBVIOUS
<1>2. PICK a, b : a = row.amount + n /\ b = row.invested + n
  OBVIOUS
<1>3. a \in Nat /\ b \in Nat
  BY <1>1, <1>2
<1>4. new = [row EXCEPT !.amount = a, !.invested = b]
  BY <1>2
<1>5. new \in [price : Nat, amount : Nat, invested : Nat] /\ new.price = row.price /\ new.amount = a
  BY <1>3, <1>4
<1> QED
  BY <1>2, <1>5

(* A purchase that adds to a row, in the database or on what it has read.  *)
LEMMA BuysMore ==
  ASSUME Books, NEW r \in Slots, InFlight(r), NEW q, NEW t, q = req[r], t = q.to,
         (q.kind = "swap" /\ q.step = "credit") \/ (q.kind \in {"add", "new"} /\ q.step = "write" /\ t # None),
         req' = [req EXCEPT ![r] = [q EXCEPT !.wrote = TRUE, !.step = "read"]],
         UNCHANGED <<prices, lastId, job, total, owed, excused, alone, settled>>, IInv', Only(t),
         t \in DOMAIN tokens => t \in DOMAIN tokens',
         t \in DOMAIN tokens /\ Ready(q, q.contract) => tokens'[t].amount = tokens[t].amount + q.qty
  PROVE  Books'
<1>1. /\ q \in RequestType /\ InControl(q) /\ Known(q)
      /\ req \in [Slots -> RequestType] /\ Tables /\ q.qty \in Nat
  BY BooksAre DEF RequestsOK, RequestType
<1>2. PICK n : n = [q EXCEPT !.wrote = TRUE, !.step = "read"]
  OBVIOUS
<1>3. n \in RequestType
  BY <1>1, <1>2 DEF RequestType, Steps
<1>4. /\ n.kind = q.kind /\ n.contract = q.contract /\ n.sells = q.sells /\ n.qty = q.qty
      /\ n.from = q.from /\ n.to = q.to /\ n.wrote /\ n.price = q.price
      /\ n.step = "read"
  BY <1>1, <1>2 DEF RequestType
<1>5. Moves(r, n)
  <2>1. n.kind \in {"new", "swap"} \/ (n.kind = "add" /\ n.sells = {})
    BY <1>1, <1>4, NoRequestTyped DEF InControl
  <2> QED
    BY <1>2, <1>3, <1>4, <2>1 DEF Moves, InControl
<1>6. /\ TablesKeep
      /\ \A c : t \notin RowsOf(c) => Still(c)
      /\ \A c : t \in RowsOf(c) =>
           RowsOf(c)' = IF t \in DOMAIN tokens' THEN RowsOf(c) ELSE RowsOf(c) \ {t}
  BY <1>1, OnlyKeeps
<1>7. Known(n)'
  <2>1. Typed /\ Ids' /\ IdsNew /\ lastId' \in [prices : Nat, tokens : Nat]
    BY <1>1, <1>6 DEF TablesKeep, Tables, Typed
  <2>2. Known(q)'
    BY <1>1, <2>1, KnownKept
  <2> QED
    BY <1>4, <2>2 DEF Known, PriceKnown, TokensKnown
<1>8. \A c : t \in RowsOf(c) => c = q.contract
  BY <1>1 DEF Known, TokensKnown, RowsOf
<1>9. ASSUME NEW c \in Contracts \ excused, c \in Touches(n), Fine(c)
      PROVE  Holds(c, Expected(n, c))' /\ Ready(n, c)'
  <2>1. Works(r, c)
    BY <1>5, <1>9, MoveRequests DEF Works
  <2>2. Holds(c, Left(q, c)) /\ Ready(q, c) /\ owed[c] \in Nat
    BY <1>9, <2>1, BooksAre DEF Fine, Expected
  <2>3. Ready(n, c)'
    BY <1>4 DEF Ready
  <2>4. Left(q, c) \in Nat
    BY <1>1, <2>2 DEF Left, Less
  <2>5. CASE c = q.contract
    <3>1. t \in RowsOf(c) /\ RowsOf(c) = {t} /\ tokens[t].amount = Left(q, c) /\ t \in DOMAIN tokens
      BY <2>2, <2>5 DEF Ready, Holds, RowsOf
    <3>2. RowsOf(c)' = {t} /\ tokens'[t].amount = Left(q, c) + q.qty
      BY <1>6, <2>2, <2>5, <3>1
    <3>3. Expected(n, c)' = Left(q, c) + q.qty
      BY <1>4, <2>5 DEF Expected, OwedAfter, Left
    <3>4. PICK e : e = Left(q, c) + q.qty
      OBVIOUS
    <3>5. Holds(c, e)'
      BY <3>2, <3>4 DEF Holds
    <3> QED
      BY <2>3, <3>3, <3>4, <3>5
  <2>6. CASE c # q.contract
    <3>1. Still(c)
      BY <1>6, <1>8, <2>6
    <3>2. PICK e : e = Left(q, c)
      OBVIOUS
    <3>3. Expected(n, c)' = e
      BY <1>4, <2>6, <3>2 DEF Expected, OwedAfter, Left
    <3>4. Holds(c, e)'
      BY <2>2, <3>1, <3>2, StillHolds
    <3> QED
      BY <2>3, <3>3, <3>4
  <2> QED
    BY <2>5, <2>6
<1>10. \A c \in Contracts : c \notin Touches(n) => Still(c)
  BY <1>4, <1>6, <1>8 DEF Touches
<1> QED
  BY <1>4, <1>5, <1>6, <1>7, <1>9, <1>10, MoveKeeps

LEMMA CreditKeeps ==
  ASSUME Books, NEW r \in Slots, CreditTarget(r)
  PROVE  Books'
<1>0. PICK q, t : q = req[r] /\ t = q.to
  OBVIOUS
<1>1. /\ q \in RequestType /\ InControl(q) /\ InFlight(r) /\ q.step = "credit"
      /\ req \in [Slots -> RequestType] /\ Tables /\ q.qty \in Nat
  BY <1>0, AtIs, BooksAre DEF CreditTarget, Steps, RequestType
<1>2. q.kind = "swap" /\ q.wrote = TRUE
  BY <1>1, NoRequestTyped DEF InControl, RequestType
<1>3. req' = [req EXCEPT ![r] = [q EXCEPT !.wrote = TRUE, !.step = "read"]]
  <2>1. [q EXCEPT !.wrote = TRUE, !.step = "read"] = [q EXCEPT !.step = "read"]
    BY <1>1, <1>2 DEF RequestType
  <2> QED
    BY <1>0, <1>1, <2>1 DEF CreditTarget, Goto
<1>4. Only(t) /\ (t \in DOMAIN tokens => /\ t \in DOMAIN tokens'
                                         /\ tokens'[t].amount = tokens[t].amount + q.qty)
  <2>1. CASE t \notin DOMAIN tokens
    BY <1>0, <2>1 DEF CreditTarget, Only
  <2>2. CASE t \in DOMAIN tokens
    <3>1. tokens[t] \in [price : Nat, amount : Nat, invested : Nat]
      BY <1>1, <2>2 DEF Tables, Typed
    <3>2. tokens' = Credited(t, q.qty)
      BY <1>0, <2>2 DEF CreditTarget
    <3>3. /\ DOMAIN tokens' = DOMAIN tokens
          /\ \A u \in DOMAIN tokens : u # t => tokens'[u] = tokens[u]
          /\ tokens'[t] = [tokens[t] EXCEPT !.amount = @ + q.qty, !.invested = @ + q.qty]
      BY <2>2, <3>2 DEF Credited
    <3>4. /\ tokens'[t] \in [price : Nat, amount : Nat, invested : Nat]
          /\ tokens'[t].price = tokens[t].price
          /\ tokens'[t].amount = tokens[t].amount + q.qty
      BY <1>1, <3>1, <3>3, AddedTo
    <3> QED
      BY <2>2, <3>3, <3>4 DEF Only
  <2> QED
    BY <2>1, <2>2
<1>5. IInv'
  BY CreditIInv DEF Books
<1>6. UNCHANGED <<prices, lastId, job, total, owed, excused, alone, settled>>
  BY DEF CreditTarget, history
<1> QED
  BY <1>0, <1>1, <1>2, <1>3, <1>4, <1>5, <1>6, BuysMore

LEMMA UpdateTokenKeeps ==
  ASSUME Books, NEW r \in Slots, UpdateToken(r)
  PROVE  Books'
<1>0. PICK q, t : q = req[r] /\ t = q.to
  OBVIOUS
<1>1. /\ q \in RequestType /\ InControl(q) /\ InFlight(r) /\ q.step = "write" /\ t # None
      /\ req \in [Slots -> RequestType] /\ Tables
  BY <1>0, AtIs, BooksAre DEF UpdateToken, Steps
<1>2. q.kind \in {"add", "new"} /\ q.qty \in Nat /\ q.seen.amount \in Nat /\ q.seen.invested \in Nat
      /\ q.seen \in Amounts
  <2>1. q.kind \in {"add", "new"}
    BY <1>1, NoRequestTyped DEF InControl
  <2> QED
    BY <1>1, <2>1 DEF RequestType, Amounts
<1>3. req' = [req EXCEPT ![r] = [q EXCEPT !.wrote = TRUE, !.step = "read"]]
  BY <1>0, <1>1 DEF UpdateToken
<1>4. Only(t) /\ (t \in DOMAIN tokens => t \in DOMAIN tokens')
      /\ (t \in DOMAIN tokens /\ Ready(q, q.contract) => tokens'[t].amount = tokens[t].amount + q.qty)
  <2>1. CASE t \notin DOMAIN tokens
    BY <1>0, <2>1 DEF UpdateToken, Only
  <2>2. CASE t \in DOMAIN tokens
    <3>1. tokens[t] \in [price : Nat, amount : Nat, invested : Nat]
      BY <1>1, <2>2 DEF Tables, Typed
    <3>2. tokens' = [tokens EXCEPT ![t] = Enlarged(q, @)]
      BY <1>0, <2>2 DEF UpdateToken
    <3>3. /\ DOMAIN tokens' = DOMAIN tokens
          /\ \A u \in DOMAIN tokens : u # t => tokens'[u] = tokens[u]
          /\ tokens'[t] = Enlarged(q, tokens[t])
      BY <2>2, <3>2
    <3>4. ASSUME NEW row \in [price : Nat, amount : Nat, invested : Nat]
          PROVE  /\ Enlarged(q, row) \in [price : Nat, amount : Nat, invested : Nat]
                 /\ Enlarged(q, row).price = row.price
                 /\ Enlarged(q, row).amount = (IF q.kind = "add" THEN q.seen.amount ELSE row.amount) + q.qty
      <4>1. CASE q.kind = "add"
        <5>1. Enlarged(q, row) = [row EXCEPT !.amount = q.seen.amount + q.qty,
                                             !.invested = q.seen.invested + q.qty]
          BY <4>1 DEF Enlarged
        <5>2. q.seen.amount + q.qty \in Nat /\ q.seen.invested + q.qty \in Nat
          BY <1>2
        <5> QED
          BY <4>1, <5>1, <5>2
      <4>2. CASE q.kind # "add"
        <5>1. Enlarged(q, row) = [row EXCEPT !.amount = @ + q.qty, !.invested = @ + q.qty]
          BY <4>2 DEF Enlarged
        <5> QED
          BY <1>2, <4>2, <5>1, AddedTo
      <4> QED
        BY <4>1, <4>2
    <3>5. Ready(q, q.contract) /\ q.kind = "add" => q.seen.amount = tokens[t].amount
      BY <1>0, <1>1 DEF Ready
    <3> QED
      BY <2>2, <3>1, <3>3, <3>4, <3>5 DEF Only
  <2> QED
    BY <2>1, <2>2
<1>5. IInv'
  BY UpdateTokenIInv DEF Books
<1>6. UNCHANGED <<prices, lastId, job, total, owed, excused, alone, settled>>
  BY DEF UpdateToken, history
<1> QED
  BY <1>0, <1>1, <1>2, <1>3, <1>4, <1>5, <1>6, BuysMore

LEMMA InsertTokenKeeps ==
  ASSUME Books, NEW r \in Slots, InsertToken(r)
  PROVE  Books'
<1>0. PICK q, id, row : /\ q = req[r] /\ id = lastId.tokens + 1
                        /\ row = [price |-> q.price, amount |-> q.qty, invested |-> q.qty]
  OBVIOUS
<1>1. /\ q \in RequestType /\ InControl(q) /\ Known(q) /\ InFlight(r) /\ q.step = "write"
      /\ q.to = None /\ req \in [Slots -> RequestType] /\ Tables /\ q.qty \in Nat /\ q.price \in Nat
  BY <1>0, AtIs, BooksAre DEF InsertToken, Steps, RequestType
<1>2. CASE AnswerError(r) /\ UNCHANGED rows
  BY <1>1, <1>2, ErrorKeeps
<1>3. CASE /\ ForeignKey(q.price) /\ tokens' = With(tokens, id, row)
           /\ lastId' = [lastId EXCEPT !.tokens = id]
           /\ req' = [req EXCEPT ![r].wrote = TRUE, ![r].step = "read"]
           /\ UNCHANGED <<prices, total, job, history>>
  <2>1. UNCHANGED <<prices, job, total, owed, excused, alone, settled>>
    BY <1>3 DEF history
  <2>2. /\ lastId.prices \in Nat /\ lastId.tokens \in Nat /\ id > lastId.tokens /\ id \in Nat
        /\ lastId'.tokens = id /\ lastId'.prices = lastId.prices
        /\ lastId' \in [prices : Nat, tokens : Nat]
    BY <1>0, <1>1, <1>3 DEF Tables, Typed
  <2>3. \A t \in DOMAIN tokens : t \in 1..lastId.tokens /\ t # id
    BY <1>1, <2>2 DEF Tables, Ids
  <2>4. /\ DOMAIN tokens' = DOMAIN tokens \cup {id} /\ tokens'[id] = row
        /\ \A t \in DOMAIN tokens : tokens'[t] = tokens[t]
    BY <1>3, <2>3 DEF With
  <2>5. row \in [price : Nat, amount : Nat, invested : Nat] /\ row.price = q.price /\ row.amount = q.qty
    BY <1>0, <1>1
  <2>6. /\ ContractOf(id)' = q.contract
        /\ \A t \in DOMAIN tokens : ContractOf(t)' = ContractOf(t)
    BY <1>1, <1>3, <2>1, <2>4, <2>5 DEF ForeignKey, Known, PriceKnown, ContractOf
  <2>7. TablesKeep
    <3>1. IInv'
      BY InsertTokenIInv DEF Books
    <3>2. Typed' /\ JobsTyped'
      BY <1>1, <2>1, <2>2, <2>4, <2>5 DEF Tables, Typed, JobsTyped
    <3>3. Ids'
      <4>1. DOMAIN prices' \subseteq 1..lastId'.prices
        BY <1>1, <2>1, <2>2 DEF Tables, Ids
      <4>2. DOMAIN tokens' \subseteq 1..id
        BY <2>2, <2>3, <2>4
      <4> QED
        BY <2>2, <4>1, <4>2 DEF Ids
    <3>4. IdsNew
      <4>1. \A i \in DOMAIN prices' : i \in DOMAIN prices /\ prices'[i].contract = prices[i].contract
        BY <2>1
      <4>2. \A t \in DOMAIN tokens' : \/ t \in DOMAIN tokens /\ ContractOf(t)' = ContractOf(t)
                                      \/ t > lastId.tokens
        BY <2>2, <2>4, <2>6
      <4>3. lastId.prices <= lastId'.prices /\ lastId.tokens <= lastId'.tokens
        BY <2>2
      <4> QED
        BY <4>1, <4>2, <4>3 DEF IdsNew
    <3> QED
      BY <3>1, <3>2, <3>3, <3>4 DEF TablesKeep, Tables
  <2>8. PICK n : n = [q EXCEPT !.wrote = TRUE, !.step = "read"]
    OBVIOUS
  <2>9. n \in RequestType
    BY <1>1, <2>8 DEF RequestType, Steps
  <2>10. /\ n.kind = q.kind /\ n.contract = q.contract /\ n.sells = q.sells /\ n.qty = q.qty
         /\ n.from = q.from /\ n.to = q.to /\ n.wrote /\ n.price = q.price
         /\ n.step = "read"
    BY <1>1, <2>8 DEF RequestType
  <2>11. q.kind \in {"add", "new"} /\ (q.kind = "add" => q.sells = {})
    BY <1>1, NoRequestTyped DEF InControl
  <2>12. Moves(r, n)
    <3>1. req' = [req EXCEPT ![r] = n]
      BY <1>0, <1>1, <1>3, <2>8
    <3> QED
      BY <1>0, <2>1, <2>9, <2>10, <2>11, <3>1 DEF Moves, InControl
  <2>13. Known(n)'
    <3>1. Typed /\ Ids' /\ IdsNew
      BY <1>1, <2>7 DEF TablesKeep, Tables
    <3>2. Known(q)'
      BY <1>1, <2>2, <3>1, KnownKept
    <3> QED
      BY <2>10, <3>2 DEF Known, PriceKnown, TokensKnown
  <2>14. ASSUME NEW c, c # q.contract
         PROVE  Still(c)
    BY <2>4, <2>6, <2>14 DEF Still, RowsOf
  <2>15. RowsOf(q.contract)' = RowsOf(q.contract) \cup {id}
    BY <2>4, <2>6 DEF RowsOf
  <2>16. ASSUME NEW c \in Contracts \ excused, c \in Touches(n), Fine(c)
         PROVE  Holds(c, Expected(n, c))' /\ Ready(n, c)'
    <3>1. Works(r, c)
      BY <1>1, <2>12, <2>16, MoveRequests DEF Works
    <3>2. Holds(c, Left(q, c)) /\ Ready(q, c) /\ owed[c] \in Nat
      BY <1>0, <1>1, <2>16, <3>1, BooksAre DEF Fine, Expected
    <3>3. Ready(n, c)'
      BY <2>10 DEF Ready
    <3>4. CASE c = q.contract
      <4>1. RowsOf(c) = {} /\ Left(q, c) = 0
        BY <1>1, <1>3, <3>2, <3>4 DEF Ready, Holds, ForeignKey
      <4>2. RowsOf(c)' = {id} /\ tokens'[id].amount = q.qty
        BY <2>4, <2>5, <2>15, <3>4, <4>1
      <4>3. Expected(n, c)' = Left(q, c) + q.qty
        BY <2>1, <2>10, <2>11, <3>4 DEF Expected, OwedAfter, Left
      <4>4. Expected(n, c)' = q.qty
        BY <1>1, <4>1, <4>3
      <4>5. Holds(c, q.qty)'
        BY <4>2 DEF Holds
      <4> QED
        BY <3>3, <4>4, <4>5
    <3>5. CASE c # q.contract
      <4>1. Still(c)
        BY <2>14, <3>5
      <4>2. PICK e : e = Left(q, c)
        OBVIOUS
      <4>3. Expected(n, c)' = e
        BY <2>1, <2>10, <3>5, <4>2 DEF Expected, OwedAfter, Left
      <4>4. Holds(c, e)'
        BY <3>2, <4>1, <4>2, StillHolds
      <4> QED
        BY <3>3, <4>3, <4>4
    <3> QED
      BY <3>4, <3>5
  <2>17. \A c \in Contracts : c \notin Touches(n) => Still(c)
    BY <2>10, <2>11, <2>14 DEF Touches
  <2> QED
    BY <1>1, <2>7, <2>10, <2>11, <2>12, <2>13, <2>16, <2>17, MoveKeeps
<1> QED
  BY <1>0, <1>2, <1>3 DEF InsertToken

-----------------------------------------------------------------------------
(* A request arrives: those that meet it on a contract share the excuse.   *)
LEMMA BeginKeeps ==
  ASSUME Books, NEW r \in Slots, NEW q \in RequestType, Begin(r, q), InControl(q), Known(q),
         q.step \in {"ensure", "source"}, ~q.wrote, \A c : Ready(q, c)
  PROVE  Books'
<1>1. /\ Tables /\ RequestsOK /\ req \in [Slots -> RequestType] /\ BooksOK /\ TotalsOK
      /\ total \in Nat /\ owed \in [Contracts -> Nat] /\ excused \subseteq Contracts
      /\ alone \in [Slots -> BOOLEAN] /\ settled \in BOOLEAN
  BY BooksAre
<1>2. PICK others : others = {s \in Slots \ {r} : InFlight(s) /\ {q.kind, req[s].kind} \cap {"rule"} = {}}
  OBVIOUS
<1>3. /\ ~InFlight(r) /\ UNCHANGED <<prices, tokens, lastId, job, total, owed>>
      /\ req' = [req EXCEPT ![r] = q]
      /\ excused' = excused \cup UNION {Touches(q) \cap Touches(req[s]) : s \in others}
      /\ alone' = [s \in Slots |-> IF s = r THEN others = {} ELSE alone[s] /\ s \notin others]
      /\ settled' = (settled /\ others = {})
  BY <1>2 DEF Begin, rows
<1>4. TablesKeep
  BY <1>1, <1>3, TablesSame DEF Tables, JobsTyped
<1>5. /\ req' \in [Slots -> RequestType] /\ req'[r] = q
      /\ \A s \in Slots : s # r => req'[s] = req[s]
  BY <1>1, <1>3
<1>6. \A s \in Slots : s # r => (s \in others <=> InFlight(s) /\ q.kind # "rule" /\ req[s].kind # "rule")
  BY <1>2
<1>7. RequestsOK'
  BY <1>1, <1>3, <1>5 DEF RequestsOK, Known, PriceKnown, TokensKnown, ContractOf, InControl
<1>8. \A c : Still(c)
  BY <1>3 DEF Still, RowsOf, ContractOf
<1>9. \A s \in Slots : \A c : Works(s, c) => req[s].kind # "rule"
  BY <1>1, NoRequestTyped DEF RequestsOK, Works, InFlight, InControl, Touches
<1>10. \A c : c \in Touches(q) => q.kind # "rule"
  BY NoRequestTyped DEF InControl, Touches
<1>11. BooksOK'
  <2> SUFFICES ASSUME NEW c \in Contracts \ excused' PROVE Fine(c)'
    BY DEF BooksOK
  <2>1. Fine(c) /\ c \notin excused /\ owed'[c] = owed[c]
    BY <1>1, <1>3 DEF BooksOK
  <2>2. CASE c \notin Touches(q)
    <3>1. ~Works(r, c) /\ ~Works(r, c)'
      BY <1>3, <1>5, <2>2 DEF Works
    <3> QED
      BY <1>4, <1>5, <1>8, <2>1, <3>1, Untouched DEF TablesKeep
  <2>3. CASE c \in Touches(q)
    <3>1. \A s \in Slots : ~Works(s, c)
      <4> SUFFICES ASSUME NEW s \in Slots, Works(s, c) PROVE FALSE
        OBVIOUS
      <4>1. s # r /\ s \in others
        BY <1>3, <1>6, <1>9, <1>10, <2>3 DEF Works
      <4>2. c \in Touches(q) \cap Touches(req[s])
        BY <2>3 DEF Works
      <4> QED
        BY <1>3, <4>1, <4>2
    <3>2. \A s \in Slots : Works(s, c)' => s = r
      BY <1>5, <3>1 DEF Works, InFlight
    <3>3. Holds(c, owed[c])
      BY <2>1, <3>1 DEF Fine
    <3>4. PICK e : e = owed[c]
      OBVIOUS
    <3>5. Holds(c, e)'
      BY <1>8, <3>3, <3>4, StillHolds
    <3>6. Expected(q, c)' = e
      BY <1>3, <3>4, NotWritten DEF Expected, Left, InControl
    <3>7. Ready(q, c)'
      <4>1. Typed /\ IdsNew
        BY <1>1, <1>4 DEF TablesKeep, Tables
      <4> QED
        BY <1>8, <4>1, StillReady
    <3>8. Works(r, c)'
      BY <1>5, <2>3 DEF Works, InFlight
    <3>9. Holds(c, Expected(req[r], c))' /\ Ready(req[r], c)'
      <4>1. Expected(req[r], c)' = e
        BY <1>5, <3>6
      <4> QED
        BY <1>5, <3>5, <3>7, <4>1
    <3> QED
      BY <3>2, <3>8, <3>9 DEF Fine
  <2> QED
    BY <2>2, <2>3
<1>12. TotalsOK'
  <2>1. Invested' = Invested
    BY <1>3 DEF Invested
  <2>2. \A s \in Slots : s # r => (Trades(s)' <=> Trades(s))
    BY <1>5 DEF Trades, InFlight
  <2>3. Trades(r)' <=> q.kind # "rule"
    BY <1>5 DEF Trades, InFlight
  <2>4. ASSUME NEW x \in Slots, Trades(x)', settled' \/ alone'[x]
        PROVE  /\ \A s \in Slots : Trades(s)' => s = x
               /\ req'[x].step = "total" => req'[x].sum = Invested'
    <3>1. CASE x = r
      <4>1. others = {}
        BY <1>3, <2>4, <3>1
      <4>2. \A s \in Slots : s # r => ~Trades(s)
        BY <1>6, <2>3, <2>4, <3>1, <4>1 DEF Trades
      <4> QED
        BY <1>5, <2>2, <3>1, <4>2
    <3>2. CASE x # r
      <4>1. x \notin others
        BY <1>3, <2>4, <3>2
      <4>2. q.kind = "rule"
        BY <1>6, <2>2, <2>4, <3>2, <4>1 DEF Trades
      <4>3. settled \/ alone[x]
        BY <1>3, <2>4, <3>2
      <4> QED
        BY <1>1, <1>5, <2>1, <2>2, <2>3, <2>4, <3>2, <4>2, <4>3 DEF TotalsOK
    <3> QED
      BY <3>1, <3>2
  <2>5. ASSUME settled', \A s \in Slots : ~req'[s].wrote
        PROVE  total' = Invested'
    <3>1. ~req[r].wrote
      BY <1>1, <1>3, NoRequestTyped DEF RequestsOK, InControl, InFlight
    <3>2. \A s \in Slots : ~req[s].wrote
      BY <1>5, <2>5, <3>1
    <3> QED
      BY <1>1, <1>3, <2>1, <2>5, <3>2 DEF TotalsOK
  <2> QED
    BY <2>4, <2>5 DEF TotalsOK
<1>13. excused' \subseteq Contracts
  <2>1. Touches(q) \subseteq Contracts
    BY DEF RequestType, Touches
  <2> QED
    BY <1>1, <1>3, <2>1
<1>14. alone' \in [Slots -> BOOLEAN] /\ settled' \in BOOLEAN
  <2>1. \A s \in Slots : (IF s = r THEN others = {} ELSE alone[s] /\ s \notin others) \in BOOLEAN
    OBVIOUS
  <2> QED
    BY <1>3, <2>1
<1> QED
  BY <1>1, <1>3, <1>4, <1>5, <1>7, <1>11, <1>12, <1>13, <1>14
     DEF TablesKeep, Books, Tables, TypeOK, Typed, JobsTyped

LEMMA ArriveKeeps ==
  ASSUME Books, NEW r \in Slots, Arrive(r)
  PROVE  Books'
<1>1. Tables /\ \A t \in DOMAIN tokens : t \in Nat \ {0} /\ t <= lastId.tokens
      /\ ContractOf(t) \in Contracts /\ t \in RowsOf(ContractOf(t))
  BY BooksAre DEF Tables, Typed, Ids, IInv, HoldingsHavePrice, ContractOf, RowsOf
<1>2. 0 \notin DOMAIN prices /\ 0 \notin DOMAIN tokens /\ 0 <= lastId.prices /\ 0 <= lastId.tokens
  BY <1>1 DEF Tables, Typed, Ids
<1>3. Quantities \subseteq Nat
  BY PortfolioAssumption
<1>4. NoRequest \in RequestType
  BY NoRequestTyped
<1>5. ASSUME NEW q, Begin(r, q), q \in RequestType, q.price = 0, ~q.wrote,
             \/ /\ q.kind \in {"add", "rule"} /\ q.step = "ensure" /\ q.sells = {}
                /\ q.from = 0 /\ q.to = 0
             \/ /\ q.kind \in {"cash", "swap", "new"} /\ q.step = "source"
                /\ q.from \in DOMAIN tokens /\ q.sells = {ContractOf(q.from)}
                /\ IF q.kind = "swap" THEN /\ q.to \in DOMAIN tokens /\ q.to # q.from
                                           /\ q.contract = ContractOf(q.to)
                                      ELSE q.to = 0
      PROVE  Books'
  <2>1. InControl(q)
    BY <1>5 DEF InControl
  <2>2. Known(q)
    BY <1>1, <1>2, <1>5 DEF Known, PriceKnown, TokensKnown
  <2>3. \A c : Ready(q, c)
    BY <1>1, <1>5 DEF Ready
  <2>4. q.step \in {"ensure", "source"}
    BY <1>5
  <2> QED
    BY <1>5, <2>1, <2>2, <2>3, <2>4, BeginKeeps
<1>6. ASSUME NEW c \in Contracts, MakeRule(r, c)
      PROVE  Books'
  <2>1. PICK q : q = [NoRequest EXCEPT !.kind = "rule", !.step = "ensure", !.contract = c]
    OBVIOUS
  <2>2. q \in RequestType
    BY <1>4, <2>1 DEF RequestType, Kinds, Steps
  <2>3. /\ q.kind = "rule" /\ q.step = "ensure" /\ q.sells = {} /\ q.from = 0 /\ q.to = 0
        /\ q.price = 0 /\ ~q.wrote
    BY <2>1 DEF NoRequest, None
  <2> QED
    BY <1>5, <1>6, <2>1, <2>2, <2>3 DEF MakeRule
<1>7. ASSUME NEW c \in Contracts, NEW n \in Quantities, Add(r, c, n)
      PROVE  Books'
  <2>1. PICK q : q = [NoRequest EXCEPT !.kind = "add", !.step = "ensure", !.contract = c, !.qty = n]
    OBVIOUS
  <2>2. q \in RequestType
    BY <1>3, <1>4, <2>1 DEF RequestType, Kinds, Steps
  <2>3. /\ q.kind = "add" /\ q.step = "ensure" /\ q.sells = {} /\ q.from = 0 /\ q.to = 0
        /\ q.price = 0 /\ ~q.wrote
    BY <2>1 DEF NoRequest, None
  <2> QED
    BY <1>5, <1>7, <2>1, <2>2, <2>3 DEF Add
<1>8. ASSUME NEW n \in Quantities, NEW t \in DOMAIN tokens, NEW c \in Contracts,
             NEW kind \in {"cash", "swap", "new"}, NEW to, Sell(r, kind, t, n, c, to),
             IF kind = "swap" THEN to \in DOMAIN tokens /\ to # t /\ c = ContractOf(to)
                              ELSE to = 0
      PROVE  Books'
  <2>1. PICK q : q = [NoRequest EXCEPT !.kind = kind, !.step = "source", !.contract = c,
                             !.sells = {ContractOf(t)}, !.qty = n, !.from = t, !.to = to]
    OBVIOUS
  <2>2. q \in RequestType
    <3>1. {ContractOf(t)} \subseteq Contracts /\ t \in Nat /\ to \in Nat /\ n \in Nat
      BY <1>1, <1>3, <1>8
    <3> QED
      BY <1>4, <2>1, <3>1 DEF RequestType, Kinds, Steps
  <2>3. /\ q.kind = kind /\ q.step = "source" /\ q.sells = {ContractOf(t)} /\ q.from = t /\ q.to = to
        /\ q.contract = c /\ q.price = 0 /\ ~q.wrote
    BY <2>1 DEF NoRequest, None
  <2>4. Begin(r, q)
    BY <1>8, <2>1 DEF Sell
  <2> HIDE DEF Sell
  <2> QED
    BY <1>5, <1>8, <2>2, <2>3, <2>4
<1>9. ASSUME NEW n \in Quantities, NEW t \in DOMAIN tokens,
             \/ SellCash(r, t, n)
             \/ \E to \in DOMAIN tokens : SellSwap(r, t, n, to)
             \/ \E c \in Contracts : SellNew(r, t, n, c)
      PROVE  Books'
  <2>1. CASE SellCash(r, t, n)
    BY <1>1, <1>8, <2>1 DEF SellCash, None
  <2>2. ASSUME NEW to \in DOMAIN tokens, SellSwap(r, t, n, to)
        PROVE  Books'
    BY <1>1, <1>8, <2>2 DEF SellSwap
  <2>3. ASSUME NEW c \in Contracts, SellNew(r, t, n, c)
        PROVE  Books'
    BY <1>8, <2>3 DEF SellNew, None
  <2> QED
    BY <1>9, <2>1, <2>2, <2>3
<1> QED
  BY <1>6, <1>7, <1>9 DEF Arrive

(* A rollback takes all there is of its contract, whoever is at work.      *)
LEMMA DropsKeep ==
  ASSUME Books, NEW i \in DOMAIN job, JobDropsHoldings(i)
  PROVE  Books'
<1>1. /\ Tables /\ RequestsOK /\ req \in [Slots -> RequestType] /\ BooksOK /\ TotalsOK
      /\ total \in Nat /\ owed \in [Contracts -> Nat] /\ excused \subseteq Contracts
      /\ alone \in [Slots -> BOOLEAN] /\ settled \in BOOLEAN
  BY BooksAre
<1>2. PICK gone, c0, met : /\ gone = {t \in DOMAIN tokens : tokens[t].price = i}
                           /\ c0 = prices[i].contract
                           /\ met = {r \in Slots : InFlight(r) /\ c0 \in Touches(req[r])}
  OBVIOUS
<1>3. /\ UNCHANGED <<prices, total, lastId, req>> /\ JobGoto(i, "emptied")
      /\ tokens' = Restrict(tokens, DOMAIN tokens \ gone)
      /\ IF gone = {} THEN UNCHANGED history
         ELSE /\ owed' = [owed EXCEPT ![c0] = 0]
              /\ excused' = IF met = {} THEN excused ELSE excused \cup {c0}
              /\ alone' = [r \in Slots |-> alone[r] /\ ~InFlight(r)]
              /\ settled' = FALSE
  BY <1>2 DEF JobDropsHoldings
<1>4. i \in DOMAIN prices /\ c0 \in Contracts
  BY <1>1, <1>2 DEF Tables, IInv, JobsHaveRow, Typed
<1>5. DOMAIN tokens' = DOMAIN tokens \ gone /\ \A t \in DOMAIN tokens' : tokens'[t] = tokens[t]
  BY <1>3 DEF Restrict
<1>6. TablesKeep
  <2>1. IInv'
    BY JobIInv DEF Books, JobStep
  <2>2. JobsTyped'
    BY <1>1, <1>3, JobMoves DEF Tables, JobSteps
  <2>3. \A t \in DOMAIN tokens' : t \in DOMAIN tokens
                                  /\ tokens'[t] \in [price : Nat, amount : Nat, invested : Nat]
                                  /\ tokens'[t].price = tokens[t].price
    BY <1>1, <1>5 DEF Tables, Typed
  <2> QED
    BY <1>1, <1>3, <2>1, <2>2, <2>3, TokensKeep
<1>7. RowsOf(c0) = gone
  BY <1>1, <1>2, <1>4 DEF Tables, IInv, OneRowPerContract, HoldingsHavePrice, RowsOf, ContractOf
<1>8. \A t \in DOMAIN tokens' : ContractOf(t)' = ContractOf(t)
  BY <1>3, <1>5 DEF ContractOf
<1>9. RowsOf(c0)' = {} /\ \A c : c # c0 => Still(c)
  BY <1>5, <1>7, <1>8 DEF RowsOf, Still
<1>10. CASE gone = {}
  <2>1. UNCHANGED <<owed, excused, alone, settled>>
    BY <1>3, <1>10 DEF history
  <2>2. \A c : Still(c)
    BY <1>7, <1>9, <1>10 DEF Still
  <2>3. Invested' = Invested
    <3>1. DOMAIN tokens' = DOMAIN tokens
          /\ [t \in DOMAIN tokens' |-> tokens'[t].invested] = [t \in DOMAIN tokens |-> tokens[t].invested]
      BY <1>5, <1>10
    <3> QED
      BY <3>1 DEF Invested
  <2> QED
    BY <1>3, <1>6, <2>1, <2>2, <2>3, ElsewhereKeeps
<1>11. CASE gone # {}
  <2>1. /\ owed' = [owed EXCEPT ![c0] = 0]
        /\ excused' = IF met = {} THEN excused ELSE excused \cup {c0}
        /\ alone' = [r \in Slots |-> alone[r] /\ ~InFlight(r)]
        /\ settled' = FALSE
    BY <1>3, <1>11
  <2>2. RequestsOK'
    <3> SUFFICES ASSUME NEW s \in Slots PROVE InControl(req[s])' /\ Known(req[s])'
      BY DEF RequestsOK
    <3>0. PICK q : q = req[s]
      OBVIOUS
    <3>1. q \in RequestType /\ Known(q) /\ InControl(q) /\ req'[s] = q
      BY <1>1, <1>3, <3>0 DEF RequestsOK
    <3>2. Typed /\ lastId' \in [prices : Nat, tokens : Nat] /\ Ids' /\ IdsNew
      BY <1>1, <1>6 DEF TablesKeep, Tables, Typed
    <3>3. Known(q)'
      BY <3>1, <3>2, KnownKept
    <3> QED
      BY <3>1, <3>3 DEF Known, PriceKnown, TokensKnown, InControl
  <2>3. BooksOK'
    <3> SUFFICES ASSUME NEW c \in Contracts \ excused' PROVE Fine(c)'
      BY DEF BooksOK
    <3>1. Fine(c) /\ c \in Contracts \ excused
      BY <1>1, <2>1 DEF BooksOK
    <3>2. CASE c # c0
      <4>1. owed'[c] = owed[c] /\ Still(c)
        BY <1>1, <1>9, <2>1, <3>1, <3>2
      <4> QED
        BY <1>3, <1>6, <3>1, <4>1, Untouched DEF TablesKeep
    <3>3. CASE c = c0
      <4>1. met = {}
        BY <2>1, <3>3
      <4>2. \A s \in Slots : ~Works(s, c)'
        BY <1>2, <1>3, <3>3, <4>1 DEF Works, InFlight
      <4>3. owed'[c] = 0
        BY <1>1, <2>1, <3>1, <3>3
      <4>4. Holds(c, owed[c])'
        BY <1>9, <3>3, <4>3 DEF Holds
      <4> QED
        BY <4>2, <4>4 DEF Fine
    <3> QED
      BY <3>2, <3>3
  <2>4. TotalsOK'
    <3>1. \A s \in Slots : ~(Trades(s)' /\ alone'[s])
      BY <1>3, <2>1 DEF Trades, InFlight
    <3> QED
      BY <2>1, <3>1 DEF TotalsOK
  <2>5. /\ owed' \in [Contracts -> Nat] /\ excused' \subseteq Contracts /\ settled' \in BOOLEAN
    BY <1>1, <1>4, <2>1
  <2>6. alone' \in [Slots -> BOOLEAN]
    <3>1. \A s \in Slots : (alone[s] /\ ~InFlight(s)) \in BOOLEAN
      OBVIOUS
    <3> QED
      BY <2>1, <3>1
  <2> QED
    BY <1>1, <1>3, <1>6, <2>2, <2>3, <2>4, <2>5, <2>6
       DEF TablesKeep, Books, Tables, TypeOK, Typed, JobsTyped
<1> QED
  BY <1>10, <1>11

LEMMA NextBooks == Books /\ [Next]_vars => Books'
<1> SUFFICES ASSUME Books, [Next]_vars PROVE Books'
  OBVIOUS
<1>1. ASSUME NEW r \in Slots, Arrive(r) \/ Handle(r) \/ RequestFails(r)
      PROVE  Books'
  BY <1>1, ArriveKeeps, EnsureKeeps, InsertStubKeeps, AnswersKeep, ReadSourceKeeps, SpendKeeps,
     CreditKeeps, FindPriceKeeps, FindTokenKeeps, InsertTokenKeeps, UpdateTokenKeeps,
     ReadHoldingsKeeps DEF Handle
<1>2. ASSUME NEW i \in DOMAIN job, JobStep(i)
      PROVE  Books'
  BY <1>2, PricingKeeps, DropsKeep DEF JobStep
<1>3. ASSUME NEW i \in DOMAIN prices, DaemonPrices(i)
      PROVE  Books'
  BY <1>3, PricingKeeps
<1>4. CASE Restart
  BY <1>4, RestartKeeps
<1>5. CASE UNCHANGED vars
  <2>1. UNCHANGED <<prices, tokens, lastId, job, total, req, owed, excused, alone, settled>>
    BY <1>5 DEF vars, rows, history
  <2>2. Tables
    BY BooksAre
  <2>3. TablesKeep
    BY <2>1, <2>2, TablesSame DEF Tables, JobsTyped
  <2>4. (\A c : Still(c)) /\ Invested' = Invested
    BY <2>1, <2>2, <2>3, TokensStill DEF TablesKeep
  <2> QED
    BY <2>1, <2>3, <2>4, ElsewhereKeeps
<1> QED
  BY <1>1, <1>2, <1>3, <1>4, <1>5 DEF Next

LEMMA BooksAlways == Spec => []Books
<1>1. Init => Books
  BY BooksInit
<1> QED
  BY <1>1, NextBooks, PTL DEF Spec

(* Whatever the requests, their order and their faults, a portfolio at rest *)
(* holds of every contract what its answered requests have bought, less     *)
(* what they sold and what was rolled back, unless two requests met on the  *)
(* contract, one met its rollback or failed halfway: the handlers of        *)
(* handlersApi.go, one statement at a time.                                 *)
THEOREM HoldingsInvHolds == Spec => []HoldingsInv
BY BooksAlways, BooksSuffice, PTL

(* A total stored by a request that met no other and no rollback is the sum *)
(* of the rows until something disturbs it: the last two statements of      *)
(* AddTokenToPortfolioHandler and RealizePortfolioOperationHandler.         *)
THEOREM TotalsFreshHolds == Spec => []TotalsFresh
BY BooksAlways, BooksSuffice, PTL
=============================================================================
