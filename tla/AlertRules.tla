------------------------------ MODULE AlertRules ------------------------------
(***************************************************************************)
(* The alerts users define: rules with filters (alert_rules,               *)
(* alert_filters), edited over HTTP; scanner/rules_evaluator.go, which     *)
(* matches the transactions of a block with all filters; the alerts table, *)
(* written by BroadcastAlertWS; and the stream of a rule's alerts in the   *)
(* mini app, which polls the table.                                        *)
(*                                                                         *)
(* The block consumer reads the filters once for each block, matches all   *)
(* of its transactions, and stores the matches afterwards.  Nothing is     *)
(* retried: a restart, or a call that fails, loses what it was busy with.  *)
(* The Telegram message follows a successful insert, so a row stands for   *)
(* it too.  No WebSocket client exists: WsHandler has no route.            *)
(*                                                                         *)
(* Amounts are in US dollars (of the native coin, what six decimals of     *)
(* Ether leave of it), gas prices in Gwei; "" is an address that is        *)
(* missing.  One chain.                                                    *)
(***************************************************************************)
EXTENDS Integers, Sequences, SequencesExt, FiniteSetsExt, Lists

CONSTANTS
  StoredRules,    \* alert_rules when the process starts: rule -> user
  StoredFilters,  \* alert_filters when the process starts
  NewRules,       \* ids of rules that may be created
  Conditions,     \* the filters a user may define
  Blocks,         \* the blocks that may come: sequences of transactions
  Tokens, Stable, \* tokens; those tx_matcher counts as a dollar each
  Watched,        \* the rule whose stream is open
  PageLen,        \* LIMIT 50 of the stream's query
  MaxBlocks,      \* bound: blocks
  MaxEdits,       \* bound: HTTP requests that change rules and filters
  MaxPolls,       \* bound: polls in flight
  MaxFaults       \* bound: errors and restarts

NoFinance == -1
NoGas     == -1

(* What the filters ask for: gas is a least price or NoGas, finance a      *)
(* least value or NoFinance, min a least value of the tokens' transfers.   *)
Users == {StoredRules[r] : r \in DOMAIN StoredRules}
Wanted == Conditions \union {StoredFilters[i].when : i \in DOMAIN StoredFilters}

ASSUME RulesAssumption ==
  /\ Stable \subseteq Tokens /\ IsFiniteSet(Tokens)
  /\ StoredFilters \in Seq([id : Nat, rule : DOMAIN StoredRules, user : Users, when : Wanted])
  /\ \A when \in Wanted : when.tokens \subseteq Tokens
  /\ \A txs \in Blocks : txs \in Seq({txs[i] : i \in DOMAIN txs})
  /\ PageLen \in Nat \ {0}
  /\ MaxBlocks \in Nat /\ MaxEdits \in Nat /\ MaxPolls \in Nat /\ MaxFaults \in Nat

VARIABLES
  rules,     \* alert_rules: rule -> user
  filters,   \* alert_filters, in order of their id
  priced,    \* tokens whose row in token_prices has a price
  phase,     \* of the consumer: "idle", "match", "store"
  block,     \* the transactions of the block still to be matched
  snapshot,  \* the filters as they were read for this block
  matches,   \* the block's matches, of which the first is stored next
  alerts,    \* alerts, in order of their id
  shown,     \* ids of alerts the stream has displayed
  lastId,    \* the stream's position; 0 before its first alert
  polls,     \* answers to polls that are on their way
  blocks, edits, faults

db       == <<rules, filters>>
consumer == <<phase, block, snapshot, matches>>
stream   == <<shown, lastId, polls>>
vars     == <<db, priced, consumer, alerts, stream, blocks, edits, faults>>

Fault == faults < MaxFaults /\ faults' = faults + 1

Init ==
  /\ rules = StoredRules /\ filters = StoredFilters
  /\ priced \in {p \in SUBSET Tokens :
                   \A i \in DOMAIN StoredFilters : StoredFilters[i].when.tokens \subseteq p}
  /\ phase = "idle" /\ block = <<>> /\ snapshot = <<>> /\ matches = <<>>
  /\ alerts = <<>>
  /\ shown = {} /\ lastId = 0 /\ polls = {}
  /\ blocks = 0 /\ edits = 0 /\ faults = 0

-----------------------------------------------------------------------------
(* Definitions marked "wrong" are slips this code might contain: each is   *)
(* put in the place of the definition after it, to see a property fail.    *)

(* The HTTP handlers.  Nothing ties a filter's user to the rule's owner:   *)
(* both come with the request.                                             *)
Edit ==
  /\ edits < MaxEdits
  /\ edits' = edits + 1
  /\ UNCHANGED <<priced, consumer, alerts, stream, blocks, faults>>

CreateRule(r, u) ==
  /\ r \notin DOMAIN rules
  /\ rules' = [s \in DOMAIN rules \union {r} |-> IF s = r THEN u ELSE rules[s]]
  /\ UNCHANGED filters
  /\ Edit

FilterIds == {filters[i].id : i \in DOMAIN filters}
NextFilterId == Len(StoredFilters) + edits + 1

(* CreateAlertRuleHandler: a filter has a rule, which the foreign key      *)
(* wants, and an address; it gets an id, by which it is known as named.    *)
Accepted(r, when) == r \in DOMAIN rules /\ when.address # ""

(* The handler waits until every token of the swap has a price (the wait   *)
(* is part of PortfolioTokens).                                            *)
CreateFilter(r, u, when) ==
  /\ Accepted(r, when) /\ when.named
  /\ when.tokens \subseteq priced
  /\ filters' = Append(filters, [id |-> NextFilterId, rule |-> r, user |-> u, when |-> when])
  /\ UNCHANGED rules
  /\ Edit

(* UpdateAlertFilterHandler stores whatever JSON it is sent. *)
UpdateFilter(id, when) ==
  /\ id \in FilterIds
  /\ filters' = [i \in DOMAIN filters |->
                   IF filters[i].id = id THEN [filters[i] EXCEPT !.when = when]
                                         ELSE filters[i]]
  /\ UNCHANGED rules
  /\ Edit

DeleteFilter(id) ==
  /\ id \in FilterIds
  /\ filters' = Keep(filters, {f \in Range(filters) : f.id # id})
  /\ UNCHANGED rules
  /\ Edit

(* The filters go with the rule; the alerts stay. *)
DeleteRule(r) ==
  /\ r \in DOMAIN rules
  /\ rules' = [s \in DOMAIN rules \ {r} |-> rules[s]]
  /\ filters' = Keep(filters, {f \in Range(filters) : f.rule # r})
  /\ Edit

(* The goroutine of a token's stub finds its price (PortfolioTokens). *)
PriceArrives(t) ==
  /\ t \notin priced
  /\ priced' = priced \union {t}
  /\ UNCHANGED <<db, consumer, alerts, stream, blocks, edits, faults>>

-----------------------------------------------------------------------------
(* Matching one transaction x with the filters of the snapshot. *)

Addresses == {snapshot[i].when.address : i \in DOMAIN snapshot} \ {""}

(* Wrong: the sender alone makes a transaction relevant. *)
RelevantSender(x) == Addresses # {} => x.from \in Addresses

(* The filter on wallets, anybody's: the first thing that is looked at. *)
Relevant(x) == Addresses # {} => x.from \in Addresses \/ x.to \in Addresses

Usd(transfers) == MapThenSumSet(LAMBDA t : t.usd, transfers)

(* Wrong: each filter starts with an empty set of keys. *)
EmittedForgotten(ms, f, x, tag) == FALSE

(* A rule has its alert of this kind on this transaction (emitted[k]). *)
Emitted(ms, f, x, tag) ==
  \E i \in DOMAIN ms : ms[i].rule = f.rule /\ ms[i].tx = x.hash /\ ms[i].tag = tag

(* What the wallet gave and got, as far as it has a price.  A call that    *)
(* failed is a filter's id and what the call was made for: a part of the   *)
(* filter, or one token.                                                   *)
Native(x) == [token |-> "native", from |-> x.from, to |-> x.to, usd |-> x.value]
Valued(f, x, failed) ==
  {t \in x.transfers : t.token \in priced /\ <<f.id, "valued", t.token>> # failed}
Gave(f, x, failed) ==
  {t \in Valued(f, x, failed) : t.from = f.when.address}
    \union {n \in {Native(x)} : /\ n.from = f.when.address /\ n.usd > 0
                               /\ <<f.id, "native">> # failed}
Got(f, x, failed) == {t \in Valued(f, x, failed) : t.to = f.when.address}

(* SWAP FINANCE: something was given, and either side is large enough. *)
FinanceHolds(f, x, failed) ==
  LET gave == Gave(f, x, failed)
      got  == Got(f, x, failed)
  IN  gave # {} /\ (Usd(gave) >= f.when.finance \/ Usd(got) >= f.when.finance)

(* CheckTokenTransfersInTxMax: the tokens of the filter that moved, by     *)
(* anybody's hand, in the transaction.  One whose decimals are not to be   *)
(* had is left out; one without a price puts all of them off for good.     *)
Moved(f, x) == {t \in f.when.tokens : \E tr \in x.transfers : tr.token = t}
Total(t, x) == Usd({tr \in x.transfers : tr.token = t})

Countable(f, x, failed) == {t \in Moved(f, x) : <<f.id, "decimals", t>> # failed}
HasPrice(f, t, failed) == t \in Stable \/ (t \in priced /\ <<f.id, "price", t>> # failed)

SwapTokens(f, x, failed) ==
  IF \A t \in Countable(f, x, failed) : HasPrice(f, t, failed)
  THEN {t \in Countable(f, x, failed) : Total(t, x) >= f.when.min}
  ELSE {}

(* The transaction is the wallet's, for a swap. *)
Own(f, x) == f.when.address # "" => f.when.address \in {x.from, x.to}

Match(f, x, tag, token) ==
  [rule |-> f.rule, user |-> f.user, tx |-> x.hash, tag |-> tag, token |-> token]

(* parseInt, big.Int's SetString: a text with decimals is no number. *)
ParseInt(text) == {n \in {text.digits} : text.decimals = 0}

(* The anomalies: the price, read as Wei, is at least the filter's. *)
Gwei == 1000000000
GasHolds(f, x) ==
  f.when.gas # NoGas /\ \E wei \in ParseInt(x.gasPrice) : wei \div Gwei >= f.when.gas

(* The matches ms of the block, with those of filter f on transaction x.   *)
(* When the finance part matches nothing, repeats an alert or fails, it    *)
(* goes on to the next filter, past the swap part of this one.             *)
AddGas(ms, f, x) ==
  IF GasHolds(f, x) /\ ~Emitted(ms, f, x, "gas")
  THEN Append(ms, Match(f, x, "gas", "")) ELSE ms

Finance(f) == f.when.finance # NoFinance

FinanceMatches(ms, f, x, failed) ==
  /\ <<f.id, "finance">> # failed
  /\ FinanceHolds(f, x, failed) /\ ~Emitted(ms, f, x, "finance")

AddSwap(ms, f, x, failed) ==
  IF Own(f, x) /\ <<f.id, "swap">> # failed
  THEN ms \o SetToSeq({Match(f, x, "swap", t) : t \in SwapTokens(f, x, failed)}) ELSE ms

AddFilter(ms, f, x, failed) ==
  LET gas == AddGas(ms, f, x)
  IN  CASE ~f.when.named -> ms
        [] f.when.named /\ ~Finance(f) -> AddSwap(gas, f, x, failed)
        [] f.when.named /\ Finance(f) /\ FinanceMatches(gas, f, x, failed) ->
             AddSwap(Append(gas, Match(f, x, "finance", "")), f, x, failed)
        [] OTHER -> gas

AddTx(ms, x, failed) ==
  LET after[n \in 0..Len(snapshot)] ==
        IF n = 0 THEN ms ELSE AddFilter(after[n - 1], snapshot[n], x, failed)
  IN  IF Relevant(x) THEN after[Len(snapshot)] ELSE ms

-----------------------------------------------------------------------------
(* WeiToEth: Ether as a text with six decimals. *)
WeiToEth(gwei) == [decimals |-> 6, digits |-> (gwei + 500) \div 1000]

(* A transaction as SaveBlockTransactions hands it over; gwei, the price   *)
(* that was paid, is what GasAlerted compares with.                        *)
Numbered(x, hash) ==
  [hash |-> hash, from |-> x.from, to |-> x.to, value |-> x.value, gwei |-> x.gwei,
   gasPrice |-> WeiToEth(x.gwei), transfers |-> x.transfers]

(* handleAnalytics, after the analysis of the block's activity. *)

LoadFilters(txs) ==
  /\ phase = "idle" /\ blocks < MaxBlocks
  /\ blocks' = blocks + 1
  /\ snapshot' = filters
  /\ IF filters = <<>>
     THEN phase' = "idle" /\ block' = <<>>
     ELSE /\ phase' = "match"
          /\ block' = [i \in DOMAIN txs |-> Numbered(txs[i], <<blocks + 1, i>>)]
  /\ matches' = <<>>
  /\ UNCHANGED <<db, priced, alerts, stream, edits, faults>>

(* CurrentAlertRules returns no rules when a query fails. *)
LoadFails ==
  /\ phase = "idle" /\ blocks < MaxBlocks
  /\ blocks' = blocks + 1
  /\ Fault
  /\ UNCHANGED <<db, priced, consumer, alerts, stream, edits>>

MatchTx(failed) ==
  /\ phase = "match" /\ block # <<>>
  /\ matches' = AddTx(matches, Head(block), failed)
  /\ block' = Tail(block)
  /\ phase' = IF Len(block) = 1 THEN "store" ELSE "match"
  /\ UNCHANGED <<db, priced, snapshot, alerts, stream, blocks, edits>>

Matches == MatchTx(<<>>) /\ UNCHANGED faults

(* A call for one filter fails: for the receipt or the chain's id, for the *)
(* native price, or for the price or the decimals of one token.            *)
MatchFails ==
  \E i \in DOMAIN snapshot :
    \/ \E part \in {"finance", "swap", "native"} : MatchTx(<<snapshot[i].id, part>>) /\ Fault
    \/ \E call \in {"valued", "decimals", "price"}, t \in Tokens :
         MatchTx(<<snapshot[i].id, call, t>>) /\ Fault

Drop ==
  /\ phase' = IF Len(matches) = 1 THEN "idle" ELSE "store"
  /\ matches' = Tail(matches)
  /\ UNCHANGED <<db, priced, block, snapshot, stream, blocks, edits>>

NothingMatched ==
  /\ phase = "store" /\ matches = <<>>
  /\ phase' = "idle"
  /\ UNCHANGED <<db, priced, block, snapshot, matches, alerts, stream, blocks, edits, faults>>

(* BroadcastAlertWS. *)
BroadcastAlert ==
  /\ phase = "store" /\ matches # <<>>
  /\ alerts' = Append(alerts, Head(matches))
  /\ Drop
  /\ UNCHANGED faults

(* The insert reports an error; the row may be there. *)
InsertFails ==
  /\ phase = "store" /\ matches # <<>>
  /\ Fault
  /\ UNCHANGED alerts \/ alerts' = Append(alerts, Head(matches))
  /\ Drop

Restart ==
  /\ Fault
  /\ phase' = "idle" /\ block' = <<>> /\ snapshot' = <<>> /\ matches' = <<>>
  /\ UNCHANGED <<db, priced, alerts, stream, blocks, edits>>

-----------------------------------------------------------------------------
(* The stream: AlertStream of the mini app over ListAlertsByRuleHandler. *)
Rows == {i \in DOMAIN alerts : alerts[i].rule = Watched}

(* Wrong: the page is that of the newest rows. *)
PageNewest(after) ==
  {i \in Rows : i > after /\ Cardinality({j \in Rows : j > i}) < PageLen}
(* Wrong: a page that is not full is not returned. *)
PageFull(after) ==
  {i \in Rows : /\ i > after /\ Cardinality({j \in Rows : after < j}) >= PageLen
                /\ Cardinality({j \in Rows : after < j /\ j < i}) < PageLen}

(* DB_GetAlertsByRule: WHERE id > after ORDER BY id ASC LIMIT. *)
Page(after) ==
  {i \in Rows : i > after /\ Cardinality({j \in Rows : after < j /\ j < i}) < PageLen}

(* A poll's answer; the first one loads the page from the start.  The      *)
(* timer does not wait for an answer to the previous poll, and does not    *)
(* start at all while there is nothing to continue from.                   *)
Display(page) ==
  /\ shown' = shown \union page
  /\ lastId' = IF page = {} THEN lastId ELSE Max(page)

Open ==
  /\ lastId = 0
  /\ Display(Page(0))
  /\ UNCHANGED <<db, priced, consumer, alerts, polls, blocks, edits, faults>>

Poll ==
  /\ lastId # 0 /\ Cardinality(polls) < MaxPolls
  /\ polls' = polls \union {Page(lastId)}
  /\ UNCHANGED <<db, priced, consumer, alerts, shown, lastId, blocks, edits, faults>>

Answer(page) ==
  /\ page \in polls
  /\ polls' = polls \ {page}
  /\ Display(page)
  /\ UNCHANGED <<db, priced, consumer, alerts, blocks, edits, faults>>

PollFails ==
  /\ Fault
  /\ \E page \in polls : polls' = polls \ {page}
  /\ UNCHANGED <<db, priced, consumer, alerts, shown, lastId, blocks, edits>>

-----------------------------------------------------------------------------
Requests ==
  \/ \E u \in Users, r \in NewRules : CreateRule(r, u)
  \/ \E u \in Users, r \in DOMAIN rules, when \in Conditions : CreateFilter(r, u, when)
  \/ \E id \in FilterIds :
       DeleteFilter(id) \/ \E when \in Conditions : UpdateFilter(id, when)
  \/ \E r \in DOMAIN rules : DeleteRule(r)

BlockConsumer ==
  \/ \E txs \in Blocks : LoadFilters(txs)
  \/ LoadFails \/ Matches \/ MatchFails \/ NothingMatched
  \/ BroadcastAlert \/ InsertFails

Next ==
  \/ Requests
  \/ \E t \in Tokens : PriceArrives(t)
  \/ BlockConsumer \/ Restart
  \/ Open \/ Poll \/ \E page \in polls : Answer(page)
  \/ PollFails

(* The consumer works through its matches, and the open page polls and is  *)
(* answered.                                                               *)
Fairness ==
  /\ WF_vars(Matches) /\ WF_vars(NothingMatched) /\ WF_vars(BroadcastAlert)
  /\ WF_vars(Poll) /\ WF_vars(\E page \in polls : Answer(page))

Spec == Init /\ [][Next]_vars /\ Fairness

-----------------------------------------------------------------------------
Row == [rule : DOMAIN StoredRules \union NewRules, user : Users, tx : Seq(Nat),
        tag : {"finance", "swap"}, token : Tokens \union {""}]

(* Filters have their rule, whatever is deleted; no row is on a gas price; *)
(* the stream displays rows of its rule and stands at one of them.         *)
TypeOK ==
  /\ DOMAIN rules \subseteq DOMAIN StoredRules \union NewRules
  /\ \A i \in DOMAIN filters : filters[i].rule \in DOMAIN rules
  /\ priced \subseteq Tokens
  /\ phase \in {"idle", "match", "store"}
  /\ phase = "idle" => block = <<>> /\ matches = <<>>
  /\ matches \in Seq(Row) /\ alerts \in Seq(Row)
  /\ shown \subseteq Rows /\ lastId \in shown \union {0}
  /\ \A page \in polls : page \subseteq Rows
  /\ blocks \in 0..MaxBlocks /\ edits \in 0..MaxEdits /\ faults \in 0..MaxFaults

(* Types; and a rule has one alert at most on the finances of a            *)
(* transaction, however many filters of however many users it has, in the  *)
(* table and in what is still to be stored, after inserts whose reply was  *)
(* lost, too.  On tokens it has one for each filter that asks.             *)
SameAlert(m, n) == m.rule = n.rule /\ m.tx = n.tx /\ m.tag = n.tag

OneAlertPerRule ==
  LET all == alerts \o matches
  IN  TypeOK /\ \A i, j \in DOMAIN all : i # j /\ SameAlert(all[i], all[j]) => all[i].tag = "swap"

(* What a filter on a wallet asks for, had it the scanner for itself.    *)
Mine(f, x) == f.when.named /\ f.when.address # "" /\ f.when.address \in {x.from, x.to}

AsksSwap(f, x) == {t \in SwapTokens(f, x, <<>>) : Mine(f, x)}
AsksFinance(f, x) == Finance(f) /\ Mine(f, x) /\ FinanceHolds(f, x, <<>>)

(* Filters do not disturb each other.  Matching a transaction, all calls   *)
(* answered, yields an alert for whatever a filter asks for by itself, its *)
(* relevance decided by everybody's wallets and repeated keys left out     *)
(* notwithstanding; and a swap alert goes to the rule and user of a filter *)
(* that asks for it, unless the filter has lost its wallet in an update.   *)
(* What no filter is promised is the swap part of one whose finance part   *)
(* matched nothing.                                                        *)
FiltersIndependent ==
  [][Matches =>
       LET x == Head(block)
           f(i) == snapshot[i]
           has(rule, tag, token) ==
             \E k \in DOMAIN matches' : /\ matches'[k].rule = rule /\ matches'[k].tx = x.hash
                                       /\ matches'[k].tag = tag /\ matches'[k].token = token
       IN  /\ \A i \in DOMAIN snapshot :
                 /\ AsksFinance(f(i), x) => has(f(i).rule, "finance", "")
                 /\ ~Finance(f(i)) => \A t \in AsksSwap(f(i), x) : has(f(i).rule, "swap", t)
           /\ \A k \in (Len(matches) + 1)..Len(matches') :
                 matches'[k].tag = "swap" =>
                   \E i \in DOMAIN snapshot :
                     /\ f(i).rule = matches'[k].rule /\ f(i).user = matches'[k].user
                     /\ \/ matches'[k].token \in AsksSwap(f(i), x)
                        \/ f(i).when.address = ""]_vars

(* A transaction of a filter's wallet whose gas price reaches the filter's *)
(* has an alert: what the form of the mini app offers with its threshold   *)
(* in Gwei.  The text with decimals is never read as a number.             *)
GasAlerted ==
  [][Matches =>
       LET x == Head(block)
       IN  \A i \in DOMAIN snapshot :
             LET f == snapshot[i]
             IN  Mine(f, x) /\ f.when.gas # NoGas /\ x.gwei >= f.when.gas =>
                   \E k \in DOMAIN matches' : /\ matches'[k].rule = f.rule
                                              /\ matches'[k].tx = x.hash
                                              /\ matches'[k].tag = "gas"]_vars

(* The stream has no gap: everything up to its position is displayed,      *)
(* although polls overlap, their answers come out of order and a late one  *)
(* sets the position back.                                                 *)
StreamGapless == \A i \in Rows : i <= lastId => i \in shown

(* Once the stream has begun, every alert of the rule comes to be shown. *)
StoredIsShown ==
  \A i \in 1..(MaxBlocks * 6) : (i \in Rows /\ lastId # 0) ~> i \in shown
=============================================================================
