---------------------------- MODULE AlertProofs ----------------------------
(***************************************************************************)
(* The safety of what users are told.                                      *)
(*                                                                         *)
(* First of the rules users define, AlertRules, for any rules, filters,    *)
(* blocks and page length and any number of polls in flight.  StreamInv:   *)
(* everything up to the position of the stream is displayed, so it has no  *)
(* gap.  RulesInv: the matches of a block are told apart from everything   *)
(* stored, so a rule has one alert on the finances of a transaction, and   *)
(* none on its gas price, whose text is never read as a number.            *)
(* And a transaction yields for a filter what the filter asks for by       *)
(* itself, whatever the others are.                                        *)
(*                                                                         *)
(* Then of the alerts to portfolios, PortfolioAlerts.  GateInv: for any    *)
(* portfolios, tokens, transactions, cooldowns, delays, failures and       *)
(* restarts, a transaction is announced once to a portfolio, and alerts on *)
(* a token keep their distance.  The converse, AnswerInv: the gate refuses *)
(* only for an earlier answer, so no transfer that qualifies is passed     *)
(* over.                                                                   *)
(***************************************************************************)
EXTENDS AlertRules, PortfolioAlerts, DataTheorems

(* A bounded set of numbers has a greatest one. *)
LEMMA MaxOfBounded ==
  ASSUME NEW n \in Nat, NEW S \in SUBSET (1..n), S # {}
  PROVE  Max(S) \in S /\ \A i \in S : i <= Max(S)
<1> DEFINE T == {n - i : i \in S}
<1>1. T \subseteq Nat /\ T # {}
  <2>1. \A i \in S : n - i \in Nat
    OBVIOUS
  <2> QED
    BY <2>1
<1>2. PICK x \in T : \A y \in T : ~(<<y, x>> \in OpToRel(<, Nat))
  BY <1>1, NatLessThanWellFounded, WFMin
<1>3. \A y \in T : ~(y < x)
  BY <1>1, <1>2 DEF OpToRel
<1>4. PICK m \in S : x = n - m
  OBVIOUS
<1>5. \A i \in S : m >= i
  <2> TAKE i \in S
  <2>1. ~(n - i < n - m) /\ i \in Int /\ m \in Int
    BY <1>3, <1>4
  <2> QED
    BY <2>1
<1>6. \E y \in S : \A i \in S : y >= i
  BY <1>5
<1>7. Max(S) \in S /\ \A i \in S : Max(S) >= i
  BY <1>6 DEF Max
<1> QED
  BY <1>7

-----------------------------------------------------------------------------
(* What the stream knows.  A page is of rows that are there, and once it   *)
(* is displayed nothing before its last row is missing.                    *)
Typed ==
  /\ \E S : alerts \in Seq(S)
  /\ shown \subseteq DOMAIN alerts /\ lastId \in shown \union {0}

PagesClose ==
  \A page \in polls :
    /\ page \subseteq DOMAIN alerts
    /\ \A m \in page, i \in Rows : i < m => i \in shown \union page

StreamInv == Typed /\ PagesClose /\ StreamGapless

LEMMA PageFacts ==
  ASSUME Typed, NEW after \in Nat
  PROVE  /\ Page(after) \subseteq DOMAIN alerts
         /\ \A m \in Page(after), i \in Rows : after < i /\ i < m => i \in Page(after)
<1>1. PICK S : alerts \in Seq(S)
  BY DEF Typed
<1>2. Rows \subseteq DOMAIN alerts /\ Rows \subseteq Nat /\ DOMAIN alerts = 1..Len(alerts) /\ Len(alerts) \in Nat
  BY <1>1 DEF Rows
<1>3. ASSUME NEW m \in Page(after), NEW i \in Rows, after < i, i < m
      PROVE  i \in Page(after)
  <2> DEFINE A == {j \in Rows : after < j /\ j < i}
             B == {j \in Rows : after < j /\ j < m}
  <2>1. A \subseteq B
    BY <1>2, <1>3 DEF Page
  <2>2. IsFiniteSet(B)
    <3>1. IsFiniteSet(1..Len(alerts)) /\ B \in SUBSET (1..Len(alerts))
      BY <1>2, FS_Interval
    <3> QED
      BY <3>1, FS_Subset
  <2>3. Cardinality(A) <= Cardinality(B) /\ Cardinality(A) \in Nat /\ Cardinality(B) \in Nat
    <3>1. A \in SUBSET B
      BY <2>1
    <3> HIDE DEF A, B
    <3> QED
      BY <2>2, <3>1, FS_Subset, FS_CardinalityType
  <2>4. Cardinality(B) < PageLen
    BY <1>3 DEF Page
  <2>5. Cardinality(A) < PageLen
    BY <2>3, <2>4, RulesAssumption
  <2> QED
    BY <1>3, <2>5 DEF Page
<1> QED
  BY <1>2, <1>3 DEF Page

(* Displaying a page that closes leaves no gap. *)
LEMMA Displayed ==
  ASSUME StreamInv, NEW page, page \subseteq DOMAIN alerts, UNCHANGED alerts, Display(page),
         \A m \in page, i \in Rows : i < m => i \in shown \union page
  PROVE  /\ StreamGapless'
         /\ shown' \subseteq DOMAIN alerts' /\ lastId' \in shown' \union {0}
         /\ shown' = shown \union page /\ Rows' = Rows
<1>1. PICK S : alerts \in Seq(S)
  BY DEF StreamInv, Typed
<1>2. /\ DOMAIN alerts = 1..Len(alerts) /\ Len(alerts) \in Nat
      /\ Rows' = Rows /\ Rows \subseteq 1..Len(alerts)
      /\ shown' = shown \union page
      /\ shown \subseteq 1..Len(alerts) /\ lastId \in shown \union {0}
  BY <1>1 DEF Rows, Display, StreamInv, Typed
<1>3. CASE page = {}
  BY <1>2, <1>3 DEF Display, StreamInv, StreamGapless
<1>4. CASE page # {}
  <2>1. lastId' = Max(page)
    BY <1>4 DEF Display
  <2>2. Max(page) \in page /\ Max(page) \in Nat
    <3>1. page \in SUBSET (1..Len(alerts)) /\ page # {}
      BY <1>2, <1>4
    <3>2. Max(page) \in page /\ \A i \in page : i <= Max(page)
      BY <1>2, <3>1, MaxOfBounded, Zenon
    <3> QED
      BY <3>1, <3>2
  <2>3. \A i \in Rows : i <= Max(page) => i \in shown \union page
    BY <1>2, <2>2
  <2> QED
    BY <1>2, <2>1, <2>2, <2>3 DEF StreamGapless
<1> QED
  BY <1>3, <1>4

(* A row that is stored comes after everything the stream knows. *)
LEMMA Grown ==
  ASSUME StreamInv, NEW e, alerts' = Append(alerts, e), UNCHANGED stream
  PROVE  StreamInv'
<1>1. PICK S : alerts \in Seq(S)
  BY DEF StreamInv, Typed
<1>2. alerts \in Seq(S \union {e})
  BY <1>1
<1>3. alerts' \in Seq(S \union {e})
  BY <1>2
<1>4. /\ DOMAIN alerts = 1..Len(alerts) /\ Len(alerts) \in Nat
      /\ DOMAIN alerts' = DOMAIN alerts \union {Len(alerts) + 1}
      /\ \A i \in DOMAIN alerts : alerts'[i] = alerts[i]
  BY <1>1, <1>2
<1>5. Rows' \subseteq Rows \union {Len(alerts) + 1} /\ Rows \subseteq 1..Len(alerts)
  BY <1>4 DEF Rows
<1>6. UNCHANGED <<shown, lastId, polls>>
  BY DEF stream
<1>7. shown \subseteq 1..Len(alerts) /\ lastId \in shown \union {0}
      /\ \A page \in polls : page \subseteq 1..Len(alerts)
  BY <1>4 DEF StreamInv, Typed, PagesClose
<1>8. Typed'
  BY <1>3, <1>4, <1>6, <1>7 DEF Typed
<1>9. PagesClose'
  <2> SUFFICES ASSUME NEW page \in polls, NEW m \in page, NEW i \in Rows', i < m
               PROVE  i \in shown \union page
    BY <1>4, <1>6, <1>7 DEF PagesClose
  <2>1. i \in Rows
    BY <1>4, <1>5, <1>7
  <2> QED
    BY <2>1 DEF StreamInv, PagesClose
<1>10. StreamGapless'
  BY <1>4, <1>5, <1>6, <1>7 DEF StreamInv, StreamGapless
<1> QED
  BY <1>8, <1>9, <1>10 DEF StreamInv

LEMMA Unmoved ==
  ASSUME StreamInv, UNCHANGED <<alerts, shown, lastId>>, polls' \subseteq polls
  PROVE  StreamInv'
BY DEF StreamInv, Typed, PagesClose, StreamGapless, Rows

LEMMA StepInv ==
  ASSUME StreamInv, [Next]_vars
  PROVE  StreamInv'
<1>0. UNCHANGED <<alerts, stream>> => StreamInv'
  BY Unmoved DEF stream
<1>1. CASE UNCHANGED vars
  BY <1>0, <1>1 DEF vars
<1>2. CASE Requests
  <2>1. Edit
    BY <1>2 DEF Requests, CreateRule, CreateFilter, UpdateFilter, DeleteFilter, DeleteRule
  <2> QED
    BY <1>0, <2>1 DEF Edit
<1>3. ASSUME NEW t \in Tokens, PriceArrives(t)
      PROVE  StreamInv'
  BY <1>0, <1>3 DEF PriceArrives
<1>4. ASSUME NEW sent \in Blocks, LoadFilters(sent)
      PROVE  StreamInv'
  BY <1>0, <1>4 DEF LoadFilters
<1>5. CASE LoadFails \/ NothingMatched \/ Restart
  BY <1>0, <1>5 DEF LoadFails, NothingMatched, Restart
<1>6. ASSUME NEW failed, MatchTx(failed)
      PROVE  StreamInv'
  BY <1>0, <1>6 DEF MatchTx
<1>7. CASE Matches \/ MatchFails
  BY <1>6, <1>7 DEF Matches, MatchFails
<1>8. CASE BroadcastAlert \/ InsertFails
  <2>1. UNCHANGED stream /\ (UNCHANGED alerts \/ alerts' = Append(alerts, Head(matches)))
    BY <1>8 DEF BroadcastAlert, InsertFails, Drop
  <2>2. CASE UNCHANGED alerts
    BY <1>0, <2>1, <2>2
  <2>3. ASSUME NEW e, alerts' = Append(alerts, e)
        PROVE  StreamInv'
    BY <2>1, <2>3, Grown
  <2> QED
    BY <2>1, <2>2, <2>3
<1>9. CASE PollFails
  BY <1>9, Unmoved DEF PollFails
<1>10. lastId \in Nat /\ shown \subseteq DOMAIN alerts /\ Typed
  BY DEF StreamInv, Typed
<1>11. CASE Open
  <2>1. Display(Page(0)) /\ UNCHANGED <<alerts, polls>>
    BY <1>11 DEF Open
  <2>2. Page(0) \subseteq DOMAIN alerts /\ \A m \in Page(0), i \in Rows : i < m => i \in Page(0)
    <3>1. \A i \in Rows : 0 < i
      BY <1>10 DEF Rows, Typed
    <3> QED
      BY <1>10, <3>1, PageFacts
  <2>3. /\ StreamGapless' /\ shown' \subseteq DOMAIN alerts' /\ lastId' \in shown' \union {0}
        /\ shown' = shown \union Page(0) /\ Rows' = Rows
    BY <2>1, <2>2, Displayed
  <2> QED
    BY <2>1, <2>3 DEF StreamInv, Typed, PagesClose
<1>12. CASE Poll
  <2>1. polls' = polls \union {Page(lastId)} /\ UNCHANGED <<alerts, shown, lastId>> /\ Rows' = Rows
    BY <1>12 DEF Poll, Rows
  <2>2. /\ Page(lastId) \subseteq DOMAIN alerts
        /\ \A m \in Page(lastId), i \in Rows : i < m => i \in shown \union Page(lastId)
    <3>1. \A i \in Rows : i \in Nat
      BY <1>10 DEF Rows, Typed
    <3>2. \A i \in Rows : i <= lastId => i \in shown
      BY DEF StreamInv, StreamGapless
    <3> QED
      BY <1>10, <3>1, <3>2, PageFacts
  <2> QED
    BY <2>1, <2>2 DEF StreamInv, Typed, PagesClose, StreamGapless
<1>13. ASSUME NEW page \in polls, Answer(page)
       PROVE  StreamInv'
  <2>1. Display(page) /\ polls' = polls \ {page} /\ UNCHANGED alerts
    BY <1>13 DEF Answer
  <2>2. /\ page \subseteq DOMAIN alerts
        /\ \A m \in page, i \in Rows : i < m => i \in shown \union page
    BY DEF StreamInv, PagesClose
  <2>3. /\ StreamGapless' /\ shown' \subseteq DOMAIN alerts' /\ lastId' \in shown' \union {0}
        /\ shown' = shown \union page /\ Rows' = Rows
    BY <2>1, <2>2, Displayed
  <2> QED
    BY <2>1, <2>3 DEF StreamInv, Typed, PagesClose
<1> QED
  BY <1>1, <1>2, <1>3, <1>4, <1>5, <1>7, <1>8, <1>9, <1>11, <1>12, <1>13
     DEF Next, BlockConsumer

(* Everything of the rule up to the stream's position is displayed,        *)
(* whatever the order in which the answers to its polls arrive.            *)
THEOREM StreamGaplessHolds == Spec => []StreamGapless
<1>1. Init => StreamInv
  <2> SUFFICES ASSUME Init PROVE StreamInv
    OBVIOUS
  <2>1. alerts = <<>> /\ shown = {} /\ lastId = 0 /\ polls = {}
    BY DEF Init
  <2>2. alerts \in Seq({}) /\ Rows = {}
    BY <2>1 DEF Rows
  <2> QED
    BY <2>1, <2>2 DEF StreamInv, Typed, PagesClose, StreamGapless
<1>2. StreamInv /\ [Next]_vars => StreamInv'
  BY StepInv
<1>3. StreamInv => StreamGapless
  BY DEF StreamInv
<1> QED
  BY <1>1, <1>2, <1>3, PTL DEF Spec

-----------------------------------------------------------------------------
(* Matching.  What a transaction x adds to the matches ms comes after them, *)
(* and repeats no alert but for a token.                                    *)
FilterRow == [id : Nat, rule : DOMAIN StoredRules \union NewRules, user : Users, when : Wanted]

Once(s) == \A i, j \in DOMAIN s : i # j /\ SameAlert(s[i], s[j]) => s[i].tag = "swap"

(* Only an alert on a swap has a token. *)
PlainRow(m) == m.tag # "swap" => m.token = ""
Plain(s) == \A i \in DOMAIN s : PlainRow(s[i])

Extends(ms, r, x) ==
  /\ r \in Seq(Row) /\ Len(ms) <= Len(r)
  /\ \A i \in DOMAIN ms : r[i] = ms[i]
  /\ \A i \in (Len(ms) + 1)..Len(r) : r[i].tx = x.hash
  /\ (Once(ms) => Once(r)) /\ (Plain(ms) => Plain(r))

(* The rule of filter f has its alert on the finances of x, or on a token. *)
HasFinance(r, x, f) ==
  \E k \in DOMAIN r : r[k].rule = f.rule /\ r[k].tx = x.hash /\ r[k].tag = "finance" /\ r[k].token = ""
HasSwap(r, x, f, t) ==
  \E k \in DOMAIN r : r[k].rule = f.rule /\ r[k].tx = x.hash /\ r[k].tag = "swap" /\ r[k].token = t

LEMMA ExtendsItself ==
  ASSUME NEW ms \in Seq(Row), NEW x
  PROVE  Extends(ms, ms, x)
BY DEF Extends

LEMMA ExtendsOn ==
  ASSUME NEW a \in Seq(Row), NEW b \in Seq(Row), NEW c \in Seq(Row), NEW x,
         Extends(a, b, x), Extends(b, c, x)
  PROVE  Extends(a, c, x)
<1>1. Len(a) \in Nat /\ Len(b) \in Nat /\ Len(c) \in Nat /\ Len(a) <= Len(b) /\ Len(b) <= Len(c)
      /\ DOMAIN a = 1..Len(a) /\ DOMAIN b = 1..Len(b)
  BY DEF Extends
<1>2. \A i \in DOMAIN a : c[i] = a[i]
  BY <1>1 DEF Extends
<1>3. \A i \in (Len(a) + 1)..Len(c) : c[i].tx = x.hash
  <2> SUFFICES ASSUME NEW i \in (Len(a) + 1)..Len(c) PROVE c[i].tx = x.hash
    OBVIOUS
  <2>1. CASE i <= Len(b)
    BY <1>1, <2>1 DEF Extends
  <2>2. CASE i > Len(b)
    BY <1>1, <2>2 DEF Extends
  <2> QED
    BY <1>1, <2>1, <2>2
<1> QED
  BY <1>1, <1>2, <1>3 DEF Extends

LEMMA HasStays ==
  ASSUME NEW a \in Seq(Row), NEW b \in Seq(Row), NEW x, Extends(a, b, x), NEW f
  PROVE  /\ HasFinance(a, x, f) => HasFinance(b, x, f)
         /\ \A t : HasSwap(a, x, f, t) => HasSwap(b, x, f, t)
<1>1. /\ \A k \in DOMAIN a : k \in DOMAIN b /\ b[k] = a[k]
  <2>1. DOMAIN a = 1..Len(a) /\ DOMAIN b = 1..Len(b) /\ Len(a) <= Len(b)
        /\ Len(a) \in Nat /\ Len(b) \in Nat
    BY DEF Extends
  <2> QED
    BY <2>1 DEF Extends
<1> QED
  BY <1>1 DEF HasFinance, HasSwap

(* One more match, of a kind the rule has not got on this transaction. *)
LEMMA AppendNew ==
  ASSUME NEW ms \in Seq(Row), NEW m \in Row, NEW x, m.tx = x.hash,
         PlainRow(m), \A i \in DOMAIN ms : ~SameAlert(ms[i], m)
  PROVE  Extends(ms, Append(ms, m), x)
<1> DEFINE r == Append(ms, m)
<1>1. /\ r \in Seq(Row) /\ Len(r) = Len(ms) + 1 /\ r[Len(ms) + 1] = m /\ Len(ms) \in Nat
      /\ \A i \in 1..Len(ms) : r[i] = ms[i]
      /\ DOMAIN r = 1..Len(r) /\ DOMAIN ms = 1..Len(ms)
  OBVIOUS
<1> HIDE DEF r
<1>2. Once(ms) => Once(r)
  <2> SUFFICES ASSUME Once(ms), NEW i \in DOMAIN r, NEW j \in DOMAIN r, i # j,
                      SameAlert(r[i], r[j])
               PROVE  r[i].tag = "swap"
    BY DEF Once
  <2>1. \A k \in DOMAIN r : (k \in DOMAIN ms /\ r[k] = ms[k]) \/ (k = Len(ms) + 1 /\ r[k] = m)
    <3>1. \A k \in 1..(Len(ms) + 1) : k \in 1..Len(ms) \/ k = Len(ms) + 1
      BY <1>1
    <3> QED
      BY <1>1, <3>1
  <2>2. i \in DOMAIN ms /\ r[i] = ms[i] /\ j \in DOMAIN ms /\ r[j] = ms[j]
    BY <2>1 DEF SameAlert
  <2> QED
    BY <2>2 DEF Once
<1>3. \A i \in (Len(ms) + 1)..Len(r) : r[i].tx = x.hash
  <2>1. \A i \in (Len(ms) + 1)..Len(r) : i = Len(ms) + 1
    BY <1>1
  <2> QED
    BY <1>1, <2>1
<1>4. Plain(ms) => Plain(r)
  <2> SUFFICES ASSUME Plain(ms), NEW i \in DOMAIN r PROVE PlainRow(r[i])
    BY DEF Plain
  <2>1. CASE i = Len(ms) + 1
    BY <1>1, <2>1
  <2>2. CASE i \in 1..Len(ms)
    BY <1>1, <2>2 DEF Plain
  <2>3. i = Len(ms) + 1 \/ i \in 1..Len(ms)
    BY <1>1
  <2> QED
    BY <2>1, <2>2, <2>3
<1> QED
  BY <1>1, <1>2, <1>3, <1>4 DEF Extends, r

(* More of them, all for tokens. *)
LEMMA AppendSwaps ==
  ASSUME NEW ms \in Seq(Row), NEW q \in Seq(Row), NEW x,
         \A i \in DOMAIN q : q[i].tag = "swap" /\ q[i].tx = x.hash
  PROVE  Extends(ms, ms \o q, x)
<1> DEFINE r == ms \o q
<1>1. /\ r \in Seq(Row) /\ Len(r) = Len(ms) + Len(q) /\ Len(ms) \in Nat /\ Len(q) \in Nat
      /\ \A i \in 1..Len(ms) : r[i] = ms[i]
      /\ \A i \in (Len(ms) + 1)..Len(r) : r[i] = q[i - Len(ms)] /\ i - Len(ms) \in DOMAIN q
      /\ DOMAIN r = 1..Len(r) /\ DOMAIN ms = 1..Len(ms)
  OBVIOUS
<1> HIDE DEF r
<1>2. Once(ms) => Once(r)
  <2> SUFFICES ASSUME Once(ms), NEW i \in DOMAIN r, NEW j \in DOMAIN r, i # j,
                      SameAlert(r[i], r[j])
               PROVE  r[i].tag = "swap"
    BY DEF Once
  <2>1. CASE i \in 1..Len(ms) /\ j \in 1..Len(ms)
    BY <1>1, <2>1 DEF Once
  <2>2. CASE i \notin 1..Len(ms)
    BY <1>1, <2>2
  <2>3. CASE j \notin 1..Len(ms)
    <3>1. j \in (Len(ms) + 1)..Len(r)
      BY <1>1, <2>3
    <3>2. r[j].tag = "swap"
      BY <1>1, <3>1
    <3> QED
      BY <3>2 DEF SameAlert
  <2> QED
    BY <2>1, <2>2, <2>3
<1>3. Plain(ms) => Plain(r)
  <2> SUFFICES ASSUME Plain(ms), NEW i \in DOMAIN r PROVE PlainRow(r[i])
    BY DEF Plain
  <2>1. CASE i \in (Len(ms) + 1)..Len(r)
    BY <1>1, <2>1 DEF PlainRow
  <2>2. CASE i \in 1..Len(ms)
    BY <1>1, <2>2 DEF Plain
  <2>3. i \in (Len(ms) + 1)..Len(r) \/ i \in 1..Len(ms)
    BY <1>1
  <2> QED
    BY <2>1, <2>2, <2>3
<1> QED
  BY <1>1, <1>2, <1>3 DEF Extends, r

LEMMA SetAsSeq ==
  ASSUME NEW T, NEW S \in SUBSET T, IsFiniteSet(S)
  PROVE  /\ SetToSeq(S) \in Seq(T)
         /\ \A i \in DOMAIN SetToSeq(S) : SetToSeq(S)[i] \in S
         /\ \A s \in S : \E i \in DOMAIN SetToSeq(S) : SetToSeq(S)[i] = s
<1> DEFINE n == Cardinality(S)
<1>1. n \in Nat /\ ExistsBijection(1..n, S)
  BY FS_CardinalityType
<1>2. PICK g \in [1..n -> S] : IsInjective(g)
  BY <1>1 DEF ExistsBijection, Bijection, Injection, IsInjective
<1>3. SetToSeq(S) \in [1..n -> S] /\ IsInjective(SetToSeq(S))
  <2>1. SetToSeq(S) = CHOOSE f \in [1..n -> S] : IsInjective(f)
    BY DEF SetToSeq
  <2> QED
    BY <1>2, <2>1
<1> DEFINE q == SetToSeq(S)
<1>4. q \in Injection(1..n, S)
  BY <1>3 DEF Injection, IsInjective
<1>5. q \in Surjection(1..n, S)
  <2>1. Cardinality(1..n) = n
    BY <1>1, FS_Interval
  <2> HIDE DEF q
  <2> QED
    BY <1>4, <2>1, FS_Injection
<1> HIDE DEF q
<1>6. q \in [1..n -> S] /\ DOMAIN q = 1..n /\ \A s \in S : \E i \in 1..n : q[i] = s
  BY <1>5 DEF Surjection
<1>7. q \in Seq(T)
  BY <1>1, <1>6
<1> QED
  BY <1>6, <1>7 DEF q

-----------------------------------------------------------------------------
(* What one filter adds, and what is lost of it when no call fails.        *)
Prepared(x) == x.hash \in Seq(Nat) /\ x.gasPrice.decimals # 0

LEMMA RowOf ==
  ASSUME NEW rule \in DOMAIN StoredRules \union NewRules, NEW user \in Users, NEW h \in Seq(Nat),
         NEW tag \in {"finance", "swap"}, NEW token \in Tokens \union {""}
  PROVE  [rule |-> rule, user |-> user, tx |-> h, tag |-> tag, token |-> token] \in Row
BY DEF Row

LEMMA MatchRow ==
  ASSUME NEW f \in FilterRow, NEW x, Prepared(x),
         NEW tag \in {"finance", "swap"}, NEW token \in Tokens \union {""},
         NEW m, m = [rule |-> f.rule, user |-> f.user, tx |-> x.hash, tag |-> tag, token |-> token]
  PROVE  m \in Row
<1>1. PICK h \in Seq(Nat) : h = x.hash
  BY DEF Prepared
<1>2. f.rule \in DOMAIN StoredRules \union NewRules /\ f.user \in Users
  BY DEF FilterRow
<1>3. [rule |-> f.rule, user |-> f.user, tx |-> h, tag |-> tag, token |-> token] \in Row
  BY <1>2, RowOf
<1> QED
  BY <1>1, <1>3

(* A match that the rule has not got yet. *)
LEMMA NotEmitted ==
  ASSUME NEW m \in Row, NEW x, m.tx = x.hash, NEW ms \in Seq(Row), PlainRow(m),
         \A i \in DOMAIN ms : ~(ms[i].rule = m.rule /\ ms[i].tx = x.hash /\ ms[i].tag = m.tag)
  PROVE  Extends(ms, Append(ms, m), x)
<1>1. \A i \in DOMAIN ms : ~SameAlert(ms[i], m)
  BY DEF SameAlert
<1> QED
  BY <1>1, AppendNew

LEMMA Longer ==
  ASSUME NEW m \in Row, NEW ms \in Seq(Row), NEW r, r = Append(ms, m)
  PROVE  /\ r \in Seq(Row) /\ Len(r) \in DOMAIN r /\ r[Len(r)] = m
         /\ \A k \in (Len(ms) + 1)..Len(r) : r[k] = m
<1>1. /\ r \in Seq(Row) /\ Len(r) = Len(ms) + 1 /\ r[Len(ms) + 1] = m /\ Len(ms) \in Nat
      /\ DOMAIN r = 1..Len(r)
  OBVIOUS
<1>2. \A k \in (Len(ms) + 1)..Len(r) : k = Len(ms) + 1
  BY <1>1
<1> QED
  BY <1>1, <1>2

(* A text with decimals is never read as a gas price. *)
LEMMA GasPart ==
  ASSUME NEW f, NEW x, Prepared(x), NEW ms
  PROVE  AddGas(ms, f, x) = ms
<1>1. ParseInt(x.gasPrice) = {}
  BY DEF ParseInt, Prepared
<1> QED
  BY <1>1 DEF AddGas, GasHolds

(* A match for a token is one the filter asks for. *)
Asked(r, from, f, x, failed) ==
  \A k \in (from + 1)..Len(r) :
    r[k].tag = "swap" => /\ r[k].rule = f.rule /\ r[k].user = f.user
                         /\ f.when.named /\ Own(f, x) /\ r[k].token \in SwapTokens(f, x, failed)

LEMMA SwapPart ==
  ASSUME NEW f \in FilterRow, NEW x, Prepared(x), NEW ms \in Seq(Row), NEW failed,
         NEW r, r = AddSwap(ms, f, x, failed)
  PROVE  /\ r \in Seq(Row) /\ Extends(ms, r, x)
         /\ f.when.named => Asked(r, Len(ms), f, x, failed)
         /\ Own(f, x) /\ <<f.id, "swap">> # failed =>
              \A t \in SwapTokens(f, x, failed) : HasSwap(r, x, f, t)
<1>1. PICK T : T = SwapTokens(f, x, failed)
  OBVIOUS
<1>2. T \in SUBSET Tokens /\ IsFiniteSet(Tokens)
  BY <1>1, RulesAssumption DEF FilterRow, SwapTokens, Countable, Moved
<1>3. PICK g : g = [t \in T |-> [rule |-> f.rule, user |-> f.user, tx |-> x.hash,
                                  tag |-> "swap", token |-> t]]
  OBVIOUS
<1>4. \A t \in T : /\ g[t] \in Row /\ g[t].rule = f.rule /\ g[t].user = f.user
                   /\ g[t].tx = x.hash /\ g[t].tag = "swap" /\ g[t].token = t
  <2> SUFFICES ASSUME NEW t \in T
               PROVE  /\ g[t] \in Row /\ g[t].rule = f.rule /\ g[t].user = f.user
                      /\ g[t].tx = x.hash /\ g[t].tag = "swap" /\ g[t].token = t
    OBVIOUS
  <2>1. t \in Tokens \union {""} /\ "swap" \in {"finance", "swap"}
    BY <1>2
  <2>2. PICK m : m = [rule |-> f.rule, user |-> f.user, tx |-> x.hash, tag |-> "swap", token |-> t]
    OBVIOUS
  <2>3. g[t] = m
    BY <1>3, <2>2
  <2>4. m \in Row
    BY <2>1, <2>2, MatchRow
  <2>5. m.rule = f.rule /\ m.user = f.user /\ m.tx = x.hash /\ m.tag = "swap" /\ m.token = t
    BY <2>2
  <2> QED
    BY <2>3, <2>4, <2>5
<1>6. PICK S : S = {g[t] : t \in T}
  OBVIOUS
<1>7. S \in SUBSET Row /\ g \in [T -> S]
  <2>1. \A s \in S : s \in Row
    BY <1>4, <1>6
  <2>2. \A t \in T : g[t] \in S
    BY <1>6
  <2> QED
    BY <1>3, <2>1, <2>2
<1>8. IsFiniteSet(S)
  <2>1. IsFiniteSet(T)
    BY <1>2, FS_Subset
  <2>2. g \in Surjection(T, S)
    BY <1>6, <1>7 DEF Surjection
  <2> QED
    BY <2>1, <2>2, FS_Surjection
<1>9. PICK q : q = SetToSeq(S)
  OBVIOUS
<1>10. /\ q \in Seq(Row) /\ \A i \in DOMAIN q : q[i] \in S
       /\ \A s \in S : \E i \in DOMAIN q : q[i] = s
  BY <1>7, <1>8, <1>9, SetAsSeq
<1>11. \A i \in DOMAIN q : /\ q[i].tag = "swap" /\ q[i].tx = x.hash /\ q[i].rule = f.rule
                           /\ q[i].user = f.user /\ q[i].token \in T
  <2> SUFFICES ASSUME NEW i \in DOMAIN q
               PROVE  /\ q[i].tag = "swap" /\ q[i].tx = x.hash /\ q[i].rule = f.rule
                      /\ q[i].user = f.user /\ q[i].token \in T
    OBVIOUS
  <2>1. PICK t \in T : q[i] = g[t]
    BY <1>6, <1>10
  <2> QED
    BY <1>4, <2>1
<1>12. PICK c : c = ms \o q
  OBVIOUS
<1>13. c \in Seq(Row) /\ Extends(ms, c, x)
  <2>1. c \in Seq(Row)
    BY <1>10, <1>12
  <2> QED
    BY <2>1, <1>10, <1>11, <1>12, AppendSwaps
<1>14. /\ Len(c) = Len(ms) + Len(q) /\ Len(ms) \in Nat /\ Len(q) \in Nat
       /\ \A k \in (Len(ms) + 1)..Len(c) : k - Len(ms) \in DOMAIN q /\ c[k] = q[k - Len(ms)]
       /\ \A i \in DOMAIN q : Len(ms) + i \in DOMAIN c /\ c[Len(ms) + i] = q[i]
  BY <1>10, <1>12
<1>15. CASE Own(f, x) /\ <<f.id, "swap">> # failed
  <2>1. r = c
    <3>1. S = {[rule |-> f.rule, user |-> f.user, tx |-> x.hash, tag |-> "swap", token |-> t] :
               t \in SwapTokens(f, x, failed)}
      BY <1>1, <1>3, <1>6
    <3>2. r = ms \o SetToSeq({[rule |-> f.rule, user |-> f.user, tx |-> x.hash,
                               tag |-> "swap", token |-> t] : t \in SwapTokens(f, x, failed)})
      BY <1>15 DEF AddSwap, Match
    <3> QED
      BY <1>9, <1>12, <3>1, <3>2
  <2>2. f.when.named => Asked(c, Len(ms), f, x, failed)
    BY <1>1, <1>11, <1>14, <1>15 DEF Asked
  <2>3. \A t \in T : HasSwap(c, x, f, t)
    <3> SUFFICES ASSUME NEW t \in T PROVE HasSwap(c, x, f, t)
      OBVIOUS
    <3>1. PICK i \in DOMAIN q : q[i] = g[t]
      BY <1>6, <1>10
    <3>2. q[i].rule = f.rule /\ q[i].tx = x.hash /\ q[i].tag = "swap" /\ q[i].token = t
      BY <1>4, <3>1
    <3>3. Len(ms) + i \in DOMAIN c /\ c[Len(ms) + i] = q[i]
      BY <1>14
    <3> QED
      BY <3>2, <3>3 DEF HasSwap
  <2> QED
    BY <1>1, <1>13, <2>1, <2>2, <2>3
<1>16. CASE ~(Own(f, x) /\ <<f.id, "swap">> # failed)
  <2>1. r = ms
    BY <1>16 DEF AddSwap
  <2>2. \A k \in (Len(ms) + 1)..Len(ms) : FALSE
    BY <1>14
  <2>3. Asked(ms, Len(ms), f, x, failed)
    BY <2>2 DEF Asked
  <2> QED
    BY <1>16, <2>1, <2>3, ExtendsItself
<1> QED
  BY <1>15, <1>16

(* What is done for a filter that asks for something by itself. *)
Served(r, f, x) ==
  /\ AsksFinance(f, x) => HasFinance(r, x, f)
  /\ ~Finance(f) => \A t \in AsksSwap(f, x) : HasSwap(r, x, f, t)

LEMMA NoCallFails ==
  ASSUME NEW id, NEW what
  PROVE  <<id, what>> # <<>>
OBVIOUS

AddFinance(ms, f, x) == Append(ms, Match(f, x, "finance", ""))

LEMMA FinancePart ==
  ASSUME NEW f \in FilterRow, NEW x, Prepared(x), NEW ms \in Seq(Row),
         NEW r, r = AddFinance(ms, f, x),
         \A i \in DOMAIN ms : ~(ms[i].rule = f.rule /\ ms[i].tx = x.hash /\ ms[i].tag = "finance")
  PROVE  /\ r \in Seq(Row) /\ Extends(ms, r, x) /\ HasFinance(r, x, f)
         /\ \A k \in (Len(ms) + 1)..Len(r) : r[k].tag = "finance"
<1>1. PICK m : m = [rule |-> f.rule, user |-> f.user, tx |-> x.hash, tag |-> "finance", token |-> ""]
  OBVIOUS
<1>2. m \in Row
  BY <1>1, MatchRow
<1>3. m.rule = f.rule /\ m.tx = x.hash /\ m.tag = "finance" /\ m.token = ""
  BY <1>1
<1>4. r = Append(ms, m)
  BY <1>1 DEF Match, AddFinance
<1>6. \A i \in DOMAIN ms : ~(ms[i].rule = m.rule /\ ms[i].tx = x.hash /\ ms[i].tag = m.tag)
  BY <1>3
<1>7. Extends(ms, Append(ms, m), x)
  <2>1. PlainRow(m) /\ m.tx = x.hash
    BY <1>3 DEF PlainRow
  <2> QED
    BY <1>2, <1>6, <2>1, NotEmitted
<1>8. /\ r \in Seq(Row) /\ Len(r) \in DOMAIN r /\ r[Len(r)] = m
      /\ \A k \in (Len(ms) + 1)..Len(r) : r[k] = m
  BY <1>2, <1>4, Longer
<1>9. HasFinance(r, x, f)
  BY <1>3, <1>8 DEF HasFinance
<1> QED
  BY <1>3, <1>4, <1>7, <1>8, <1>9

(* What was asked for before is joined by what is asked for now. *)
LEMMA AskedOn ==
  ASSUME NEW f, NEW x, NEW failed, NEW a \in Seq(Row), NEW b \in Seq(Row), NEW c \in Seq(Row),
         Extends(a, b, x), Extends(b, c, x), Asked(b, Len(a), f, x, failed), Asked(c, Len(b), f, x, failed)
  PROVE  Asked(c, Len(a), f, x, failed)
<1>1. Len(a) \in Nat /\ Len(b) \in Nat /\ Len(c) \in Nat /\ Len(a) <= Len(b) /\ Len(b) <= Len(c)
      /\ DOMAIN b = 1..Len(b)
  BY DEF Extends
<1> SUFFICES ASSUME NEW k \in (Len(a) + 1)..Len(c), c[k].tag = "swap"
             PROVE  /\ c[k].rule = f.rule /\ c[k].user = f.user
                    /\ f.when.named /\ Own(f, x) /\ c[k].token \in SwapTokens(f, x, failed)
  BY DEF Asked
<1>2. CASE k \in (Len(b) + 1)..Len(c)
  BY <1>2 DEF Asked
<1>3. CASE k \in (Len(a) + 1)..Len(b)
  <2>1. c[k] = b[k]
    BY <1>1, <1>3 DEF Extends
  <2> QED
    BY <1>3, <2>1 DEF Asked
<1> QED
  BY <1>1, <1>2, <1>3

LEMMA AskedNone ==
  ASSUME NEW f, NEW x, NEW failed, NEW a \in Seq(Row), NEW b \in Seq(Row),
         \A k \in (Len(a) + 1)..Len(b) : b[k].tag # "swap"
  PROVE  Asked(b, Len(a), f, x, failed)
BY DEF Asked

LEMMA AddFilterFacts ==
  ASSUME NEW f \in FilterRow, NEW x, Prepared(x), NEW ms \in Seq(Row), NEW failed,
         NEW r, r = AddFilter(ms, f, x, failed)
  PROVE  /\ r \in Seq(Row) /\ Extends(ms, r, x) /\ Asked(r, Len(ms), f, x, failed)
         /\ failed = <<>> /\ Plain(ms) => Served(r, f, x)
<1>1. PICK g : g = AddGas(ms, f, x) /\ g = ms
  BY GasPart
<1>2. g \in Seq(Row) /\ Extends(ms, g, x)
  BY <1>1, ExtendsItself
<1>3. Asked(g, Len(ms), f, x, failed)
  <2>1. \A k \in (Len(ms) + 1)..Len(g) : g[k].tag # "swap"
    <3>1. Len(ms) \in Nat
      OBVIOUS
    <3> QED
      BY <1>1, <3>1
  <2> QED
    BY <1>2, <2>1, AskedNone
<1>4. CASE ~f.when.named
  <2>1. r = ms
    BY <1>4 DEF AddFilter
  <2>2. \A k \in (Len(ms) + 1)..Len(ms) : ms[k].tag # "swap"
    <3>1. Len(ms) \in Nat
      OBVIOUS
    <3> QED
      BY <3>1
  <2>3. Served(r, f, x)
    BY <1>4 DEF Served, AsksFinance, AsksSwap, Mine
  <2> QED
    BY <2>1, <2>2, <2>3, ExtendsItself, AskedNone
<1>5. CASE f.when.named /\ ~Finance(f)
  <2>1. r = AddSwap(g, f, x, failed)
    BY <1>1, <1>5 DEF AddFilter
  <2>2. /\ r \in Seq(Row) /\ Extends(g, r, x) /\ Asked(r, Len(g), f, x, failed)
        /\ Own(f, x) /\ <<f.id, "swap">> # failed =>
             \A t \in SwapTokens(f, x, failed) : HasSwap(r, x, f, t)
    BY <1>2, <1>5, <2>1, SwapPart
  <2>3. failed = <<>> => Served(r, f, x)
    <3> SUFFICES ASSUME failed = <<>>, NEW t \in AsksSwap(f, x) PROVE HasSwap(r, x, f, t)
      BY <1>5 DEF Served, AsksFinance
    <3>1. t \in SwapTokens(f, x, failed) /\ Own(f, x)
      BY DEF AsksSwap, Mine, Own
    <3>2. <<f.id, "swap">> # failed
      BY NoCallFails
    <3> QED
      BY <2>2, <3>1, <3>2
  <2> QED
    BY <1>2, <1>3, <2>2, <2>3, ExtendsOn, AskedOn
<1>6. CASE f.when.named /\ Finance(f) /\ FinanceMatches(g, f, x, failed)
  <2>1. PICK h : h = AddFinance(g, f, x)
    OBVIOUS
  <2>2. r = AddSwap(h, f, x, failed)
    BY <1>1, <1>6, <2>1 DEF AddFilter, AddFinance
  <2>3. /\ h \in Seq(Row) /\ Extends(g, h, x) /\ HasFinance(h, x, f)
        /\ \A k \in (Len(g) + 1)..Len(h) : h[k].tag = "finance"
    <3>1. \A i \in DOMAIN g : ~(g[i].rule = f.rule /\ g[i].tx = x.hash /\ g[i].tag = "finance")
      BY <1>6 DEF FinanceMatches, Emitted
    <3> QED
      BY <1>2, <2>1, <3>1, FinancePart
  <2>4. Asked(h, Len(g), f, x, failed)
    <3>1. \A k \in (Len(g) + 1)..Len(h) : h[k].tag # "swap"
      BY <2>3
    <3> QED
      BY <1>2, <2>3, <3>1, AskedNone
  <2>5. r \in Seq(Row) /\ Extends(h, r, x) /\ Asked(r, Len(h), f, x, failed)
    BY <1>6, <2>2, <2>3, SwapPart
  <2>6. Extends(ms, h, x) /\ Asked(h, Len(ms), f, x, failed)
    BY <1>2, <1>3, <2>3, <2>4, ExtendsOn, AskedOn
  <2>7. Served(r, f, x)
    BY <1>6, <2>3, <2>5, HasStays DEF Served
  <2> QED
    BY <2>3, <2>5, <2>6, <2>7, ExtendsOn, AskedOn
<1>7. CASE f.when.named /\ Finance(f) /\ ~FinanceMatches(g, f, x, failed)
  <2>1. r = g
    BY <1>1, <1>7 DEF AddFilter
  <2>2. failed = <<>> /\ Plain(ms) => Served(r, f, x)
    <3> SUFFICES ASSUME failed = <<>>, Plain(ms), AsksFinance(f, x) PROVE HasFinance(g, x, f)
      BY <1>7, <2>1 DEF Served
    <3>1. FinanceHolds(f, x, failed) /\ <<f.id, "finance">> # failed
      BY NoCallFails DEF AsksFinance
    <3>2. Emitted(g, f, x, "finance")
      BY <1>7, <3>1 DEF FinanceMatches
    <3>3. PICK i \in DOMAIN g : g[i].rule = f.rule /\ g[i].tx = x.hash /\ g[i].tag = "finance"
      BY <3>2 DEF Emitted
    <3>4. g[i].token = ""
      BY <1>2, <3>3 DEF Extends, Plain, PlainRow
    <3> QED
      BY <3>3, <3>4 DEF HasFinance
  <2> QED
    BY <1>2, <1>3, <2>1, <2>2
<1> QED
  BY <1>4, <1>5, <1>6, <1>7

-----------------------------------------------------------------------------
(* What all filters add. *)
Prompted(m, fs, n, x, failed) ==
  \E j \in 1..n : /\ m.rule = fs[j].rule /\ m.user = fs[j].user
                  /\ fs[j].when.named /\ Own(fs[j], x) /\ m.token \in SwapTokens(fs[j], x, failed)

AllAsked(r, from, fs, n, x, failed) ==
  \A k \in (from + 1)..Len(r) : r[k].tag = "swap" => Prompted(r[k], fs, n, x, failed)

AllServed(r, fs, n, x) == \A j \in 1..n : Served(r, fs[j], x)

SoFar(ms, r, fs, n, x, failed) ==
  /\ r \in Seq(Row) /\ Extends(ms, r, x) /\ AllAsked(r, Len(ms), fs, n, x, failed)
  /\ failed = <<>> /\ Plain(ms) => AllServed(r, fs, n, x)

LEMMA SoFarNone ==
  ASSUME NEW ms \in Seq(Row), NEW fs, NEW x, NEW failed
  PROVE  SoFar(ms, ms, fs, 0, x, failed)
<1>1. AllAsked(ms, Len(ms), fs, 0, x, failed)
  <2>1. \A k \in (Len(ms) + 1)..Len(ms) : FALSE
    <3>1. Len(ms) \in Nat
      OBVIOUS
    <3> QED
      BY <3>1
  <2> QED
    BY <2>1 DEF AllAsked
<1>2. AllServed(ms, fs, 0, x)
  BY DEF AllServed
<1> QED
  BY <1>1, <1>2, ExtendsItself DEF SoFar

LEMMA SoFarMore ==
  ASSUME NEW ms \in Seq(Row), NEW fs, NEW x, Prepared(x), NEW failed, NEW n \in Nat,
         NEW r, SoFar(ms, r, fs, n, x, failed), fs[n + 1] \in FilterRow,
         NEW s, s = AddFilter(r, fs[n + 1], x, failed)
  PROVE  SoFar(ms, s, fs, n + 1, x, failed)
<1>1. PICK f \in FilterRow : f = fs[n + 1]
  OBVIOUS
<1>2. /\ r \in Seq(Row) /\ Extends(ms, r, x) /\ AllAsked(r, Len(ms), fs, n, x, failed)
      /\ failed = <<>> /\ Plain(ms) => AllServed(r, fs, n, x)
  BY DEF SoFar
<1>3. s = AddFilter(r, f, x, failed)
  BY <1>1
<1>4. /\ s \in Seq(Row) /\ Extends(r, s, x) /\ Asked(s, Len(r), f, x, failed)
      /\ failed = <<>> /\ Plain(r) => Served(s, f, x)
  BY <1>2, <1>3, AddFilterFacts
<1>5. Extends(ms, s, x)
  BY <1>2, <1>4, ExtendsOn
<1>6. AllAsked(s, Len(ms), fs, n + 1, x, failed)
  <2> SUFFICES ASSUME NEW k \in (Len(ms) + 1)..Len(s), s[k].tag = "swap"
               PROVE  Prompted(s[k], fs, n + 1, x, failed)
    BY DEF AllAsked
  <2>1. Len(ms) \in Nat /\ Len(r) \in Nat /\ Len(s) \in Nat /\ DOMAIN r = 1..Len(r)
    BY <1>2, <1>4
  <2>2. CASE k \in (Len(r) + 1)..Len(s)
    <3>1. /\ s[k].rule = f.rule /\ s[k].user = f.user
          /\ f.when.named /\ Own(f, x) /\ s[k].token \in SwapTokens(f, x, failed)
      BY <1>4, <2>2 DEF Asked
    <3>2. n + 1 \in 1..(n + 1)
      OBVIOUS
    <3> QED
      BY <1>1, <3>1, <3>2 DEF Prompted
  <2>3. CASE k \in (Len(ms) + 1)..Len(r)
    <3>1. s[k] = r[k]
      BY <1>4, <2>1, <2>3 DEF Extends
    <3>2. Prompted(r[k], fs, n, x, failed)
      BY <1>2, <2>3, <3>1 DEF AllAsked
    <3>3. \A j \in 1..n : j \in 1..(n + 1)
      OBVIOUS
    <3> QED
      BY <3>1, <3>2, <3>3 DEF Prompted
  <2> QED
    BY <2>1, <2>2, <2>3
<1>7. failed = <<>> /\ Plain(ms) => AllServed(s, fs, n + 1, x)
  <2> SUFFICES ASSUME failed = <<>>, Plain(ms), NEW j \in 1..(n + 1) PROVE Served(s, fs[j], x)
    BY DEF AllServed
  <2>1. CASE j = n + 1
    <3>1. Plain(r)
      BY <1>2 DEF Extends
    <3> QED
      BY <1>1, <1>4, <2>1, <3>1
  <2>2. CASE j \in 1..n
    <3>1. Served(r, fs[j], x)
      BY <1>2, <2>2 DEF AllServed
    <3>2. PICK h : h = fs[j]
      OBVIOUS
    <3>3. /\ HasFinance(r, x, h) => HasFinance(s, x, h)
          /\ \A t : HasSwap(r, x, h, t) => HasSwap(s, x, h, t)
      BY <1>2, <1>4, HasStays
    <3> QED
      BY <3>1, <3>2, <3>3 DEF Served
  <2> QED
    BY <2>1, <2>2
<1> QED
  BY <1>4, <1>5, <1>6, <1>7 DEF SoFar

LEMMA AddTxRuns ==
  ASSUME NEW ms \in Seq(Row), snapshot \in Seq(FilterRow), NEW x, Prepared(x), NEW failed, Relevant(x)
  PROVE  \E g : /\ g[0] = ms /\ AddTx(ms, x, failed) = g[Len(snapshot)]
                /\ \A i \in 1..Len(snapshot) : g[i] = AddFilter(g[i - 1], snapshot[i], x, failed)
<1> DEFINE n == Len(snapshot)
           More(i, q) == AddFilter(q, snapshot[i], x, failed)
           step == [i \in 1..n |-> [q \in Seq(Row) |-> More(i, q)]]
           Is(g) == g = [i \in 0..n |->
                           IF i = 0 THEN ms ELSE AddFilter(g[i - 1], snapshot[i], x, failed)]
<1>1. n \in Nat /\ step \in [1..n -> [Seq(Row) -> Seq(Row)]]
  <2>1. n \in Nat /\ \A i \in 1..n : snapshot[i] \in FilterRow
    OBVIOUS
  <2>2. \A i \in 1..n, q \in Seq(Row) : More(i, q) \in Seq(Row)
    <3> SUFFICES ASSUME NEW i \in 1..n, NEW q \in Seq(Row) PROVE More(i, q) \in Seq(Row)
      OBVIOUS
    <3>1. PICK f \in FilterRow : f = snapshot[i]
      BY <2>1
    <3>2. PICK r : r = AddFilter(q, f, x, failed)
      OBVIOUS
    <3>3. r \in Seq(Row)
      BY <3>2, AddFilterFacts
    <3> QED
      BY <3>1, <3>2, <3>3
  <2> HIDE DEF More, n
  <2> QED
    BY <2>1, <2>2
<1>2. PICK g \in [0..n -> Seq(Row)] :
        g[0] = ms /\ \A i \in 1..n : g[i] = step[i][g[i - 1]]
  <2>1. ms \in Seq(Row) /\ n \in Nat /\ step \in [1..n -> [Seq(Row) -> Seq(Row)]]
    BY <1>1
  <2> HIDE DEF step, n
  <2>2. \E g : Runs(Seq(Row), ms, n, step, g)
    BY <2>1, RunsExist, Zenon
  <2> QED
    BY <2>2 DEF Runs
<1>3. \A i \in 1..n : g[i] = More(i, g[i - 1])
  <2> SUFFICES ASSUME NEW i \in 1..n PROVE g[i] = More(i, g[i - 1])
    OBVIOUS
  <2>1. i - 1 \in 0..n
    BY <1>1
  <2>2. g[i - 1] \in Seq(Row)
    BY <2>1
  <2>3. step[i][g[i - 1]] = More(i, g[i - 1])
    <3> HIDE DEF More, n
    <3> QED
      BY <2>2
  <2> QED
    BY <1>2, <2>3
<1>4. Is(g)
  <2>1. g = [i \in 0..n |-> g[i]]
    OBVIOUS
  <2>2. \A i \in 0..n : g[i] = IF i = 0 THEN ms ELSE More(i, g[i - 1])
    <3> SUFFICES ASSUME NEW i \in 0..n PROVE g[i] = IF i = 0 THEN ms ELSE More(i, g[i - 1])
      OBVIOUS
    <3>1. i = 0 \/ i \in 1..n
      BY <1>1
    <3> HIDE DEF More, n
    <3> QED
      BY <1>2, <1>3, <3>1
  <2> QED
    BY <2>1, <2>2
<1>5. PICK k : Is(k) /\ k = CHOOSE f : Is(f)
  BY <1>4
<1>6. AddTx(ms, x, failed) = k[n]
  BY <1>5 DEF AddTx
<1>7. k[0] = ms
  BY <1>1, <1>5
<1>8. ASSUME NEW i \in 1..n
      PROVE  k[i] = AddFilter(k[i - 1], snapshot[i], x, failed)
  <2>1. i \in 0..n /\ i # 0
    BY <1>1
  <2> QED
    BY <1>5, <2>1
<1> QED
  BY <1>6, <1>7, <1>8

(* A transaction of a filter's wallet is never irrelevant. *)
LEMMA MineIsRelevant ==
  ASSUME NEW x, NEW i \in DOMAIN snapshot, Mine(snapshot[i], x)
  PROVE  Relevant(x)
BY DEF Mine, Relevant, Addresses

LEMMA AddTxFacts ==
  ASSUME NEW ms \in Seq(Row), snapshot \in Seq(FilterRow), NEW x, Prepared(x), NEW failed
  PROVE  SoFar(ms, AddTx(ms, x, failed), snapshot, Len(snapshot), x, failed)
<1>1. CASE Relevant(x)
  <2>1. PICK g : /\ g[0] = ms /\ AddTx(ms, x, failed) = g[Len(snapshot)]
                 /\ \A i \in 1..Len(snapshot) : g[i] = AddFilter(g[i - 1], snapshot[i], x, failed)
    BY <1>1, AddTxRuns
  <2> DEFINE N == {n \in Nat : n <= Len(snapshot) => SoFar(ms, g[n], snapshot, n, x, failed)}
  <2>2. 0 \in N
    <3>1. SoFar(ms, ms, snapshot, 0, x, failed)
      BY SoFarNone
    <3> QED
      BY <2>1, <3>1
  <2>3. ASSUME NEW n \in Nat, n \in N
        PROVE  n + 1 \in N
    <3> SUFFICES ASSUME n + 1 <= Len(snapshot)
                 PROVE  SoFar(ms, g[n + 1], snapshot, n + 1, x, failed)
      OBVIOUS
    <3>1. SoFar(ms, g[n], snapshot, n, x, failed)
      BY <2>3
    <3>2. n + 1 \in 1..Len(snapshot) /\ (n + 1) - 1 = n
      OBVIOUS
    <3>3. g[n + 1] = AddFilter(g[n], snapshot[n + 1], x, failed)
      BY <2>1, <3>2
    <3>4. snapshot[n + 1] \in FilterRow
      BY <3>2
    <3> QED
      BY <3>1, <3>3, <3>4, SoFarMore
  <2>4. Len(snapshot) \in N
    <3> HIDE DEF N
    <3>1. Len(snapshot) \in Nat
      OBVIOUS
    <3> QED
      BY <2>2, <2>3, <3>1, NumbersOneByOne
  <2> QED
    BY <2>1, <2>4
<1>2. CASE ~Relevant(x)
  <2>1. AddTx(ms, x, failed) = ms
    BY <1>2 DEF AddTx
  <2>2. \A k \in (Len(ms) + 1)..Len(ms) : FALSE
    <3>1. Len(ms) \in Nat
      OBVIOUS
    <3> QED
      BY <3>1
  <2>3. AllAsked(ms, Len(ms), snapshot, Len(snapshot), x, failed)
    BY <2>2 DEF AllAsked
  <2>4. AllServed(ms, snapshot, Len(snapshot), x)
    <3> SUFFICES ASSUME NEW j \in 1..Len(snapshot) PROVE Served(ms, snapshot[j], x)
      BY DEF AllServed
    <3>1. ~Mine(snapshot[j], x)
      BY <1>2, MineIsRelevant
    <3> QED
      BY <3>1 DEF Served, AsksFinance, AsksSwap
  <2>5. SoFar(ms, ms, snapshot, Len(snapshot), x, failed)
    BY <2>3, <2>4, ExtendsItself DEF SoFar
  <2> QED
    BY <2>1, <2>5
<1> QED
  BY <1>1, <1>2

-----------------------------------------------------------------------------
(* Rules and filters: a filter's rule is there, whatever is deleted.       *)
DbInv ==
  /\ DOMAIN rules \subseteq DOMAIN StoredRules \union NewRules
  /\ filters \in Seq(FilterRow)
  /\ \A i \in DOMAIN filters : filters[i].rule \in DOMAIN rules
  /\ edits \in 0..MaxEdits

LEMMA DbInit ==
  ASSUME Init
  PROVE  DbInv
<1>1. rules = StoredRules /\ filters = StoredFilters /\ edits = 0
  BY DEF Init
<1>2. PICK S : S = [id : Nat, rule : DOMAIN StoredRules, user : Users, when : Wanted]
  OBVIOUS
<1>3. filters \in Seq(S) /\ MaxEdits \in Nat
  BY <1>1, <1>2, RulesAssumption
<1>4. \A f \in S : f \in FilterRow /\ f.rule \in DOMAIN StoredRules
  BY <1>2 DEF FilterRow
<1>5. filters \in Seq(FilterRow) /\ \A i \in DOMAIN filters : filters[i] \in S
  BY <1>3, <1>4
<1> QED
  BY <1>1, <1>3, <1>4, <1>5 DEF DbInv

LEMMA RequestsKeepDb ==
  ASSUME DbInv, Requests
  PROVE  DbInv'
<1>1. /\ DOMAIN rules \subseteq DOMAIN StoredRules \union NewRules
      /\ filters \in Seq(FilterRow) /\ edits \in 0..MaxEdits /\ MaxEdits \in Nat
      /\ \A i \in DOMAIN filters : filters[i] \in FilterRow /\ filters[i].rule \in DOMAIN rules
  BY RulesAssumption DEF DbInv
<1>2. edits' \in 0..MaxEdits
  <2>1. Edit
    BY DEF Requests, CreateRule, CreateFilter, UpdateFilter, DeleteFilter, DeleteRule
  <2> QED
    BY <1>1, <2>1 DEF Edit
<1>3. ASSUME NEW u \in Users, NEW r \in NewRules, CreateRule(r, u)
      PROVE  DbInv'
  <2>1. filters' = filters /\ DOMAIN rules' = DOMAIN rules \union {r}
    BY <1>3 DEF CreateRule
  <2> QED
    BY <1>1, <1>2, <2>1 DEF DbInv
<1>4. ASSUME NEW u \in Users, NEW r \in DOMAIN rules, NEW when \in Conditions, CreateFilter(r, u, when)
      PROVE  DbInv'
  <2>1. PICK f : f = [id |-> NextFilterId, rule |-> r, user |-> u, when |-> when]
    OBVIOUS
  <2>2. filters' = Append(filters, f) /\ rules' = rules
    BY <1>4, <2>1 DEF CreateFilter
  <2>3. NextFilterId \in Nat
    <3>1. PICK T : StoredFilters \in Seq(T)
      BY RulesAssumption
    <3>2. Len(StoredFilters) \in Nat
      BY <3>1
    <3> QED
      BY <1>1, <3>2 DEF NextFilterId
  <2>4. f \in FilterRow
    <3>1. PICK n \in Nat : n = NextFilterId
      BY <2>3
    <3>2. r \in DOMAIN StoredRules \union NewRules /\ when \in Wanted
      BY <1>1 DEF Wanted
    <3> QED
      BY <2>1, <3>1, <3>2 DEF FilterRow
  <2>5. f.rule = r
    BY <2>1
  <2>6. filters' \in Seq(FilterRow)
    BY <1>1, <2>2, <2>4
  <2>7. \A i \in DOMAIN filters' : filters'[i].rule \in DOMAIN rules
    BY <1>1, <2>2, <2>4, <2>5
  <2> QED
    BY <1>1, <1>2, <2>2, <2>6, <2>7 DEF DbInv
<1>5. ASSUME NEW id, NEW when \in Conditions, UpdateFilter(id, when)
      PROVE  DbInv'
  <2>1. when \in Wanted
    BY DEF Wanted
  <2>2. rules' = rules /\ DOMAIN filters' = DOMAIN filters
        /\ \A i \in DOMAIN filters : \/ filters'[i] = filters[i]
                                     \/ filters'[i] = [filters[i] EXCEPT !.when = when]
    BY <1>5 DEF UpdateFilter
  <2>3. \A f \in FilterRow : /\ [f EXCEPT !.when = when] \in FilterRow
                             /\ [f EXCEPT !.when = when].rule = f.rule
    BY <2>1 DEF FilterRow
  <2>4. \A i \in DOMAIN filters : filters'[i] \in FilterRow /\ filters'[i].rule = filters[i].rule
    BY <1>1, <2>2, <2>3
  <2>5. filters' \in Seq(FilterRow)
    <3>1. DOMAIN filters = 1..Len(filters) /\ Len(filters) \in Nat
      BY <1>1
    <3>2. filters' = [i \in 1..Len(filters) |-> filters'[i]]
      BY <1>5, <3>1 DEF UpdateFilter
    <3>3. [i \in 1..Len(filters) |-> filters'[i]] \in Seq(FilterRow)
      BY <2>4, <3>1
    <3> QED
      BY <3>2, <3>3
  <2> QED
    BY <1>1, <1>2, <2>2, <2>4, <2>5 DEF DbInv
<1>6. ASSUME NEW S, filters' = Keep(filters, S)
      PROVE  /\ filters' \in Seq(FilterRow)
             /\ \A i \in DOMAIN filters' : /\ filters'[i] \in S
                                           /\ \E k \in DOMAIN filters : filters[k] = filters'[i]
  <2>1. PICK s \in Seq(FilterRow) : s = filters
    BY <1>1
  <2>2. PICK q : q = Keep(s, S)
    OBVIOUS
  <2>3. /\ q \in Seq(FilterRow)
        /\ \A i \in DOMAIN q : q[i] \in S /\ \E k \in DOMAIN s : s[k] = q[i]
    BY <2>2, KeepFacts
  <2> QED
    BY <1>6, <2>1, <2>2, <2>3
<1>7. ASSUME NEW id, DeleteFilter(id)
      PROVE  DbInv'
  <2>1. rules' = rules /\ filters' = Keep(filters, {f \in Range(filters) : f.id # id})
    BY <1>7 DEF DeleteFilter
  <2>2. /\ filters' \in Seq(FilterRow)
        /\ \A i \in DOMAIN filters' : \E k \in DOMAIN filters : filters[k] = filters'[i]
    BY <1>6, <2>1
  <2> QED
    BY <1>1, <1>2, <2>1, <2>2 DEF DbInv
<1>8. ASSUME NEW r \in DOMAIN rules, DeleteRule(r)
      PROVE  DbInv'
  <2>1. PICK S : S = {f \in Range(filters) : f.rule # r}
    OBVIOUS
  <2>2. DOMAIN rules' = DOMAIN rules \ {r} /\ filters' = Keep(filters, S)
    BY <1>8, <2>1 DEF DeleteRule
  <2>3. /\ filters' \in Seq(FilterRow)
        /\ \A i \in DOMAIN filters' : /\ filters'[i] \in S
                                      /\ \E k \in DOMAIN filters : filters[k] = filters'[i]
    BY <1>6, <2>2
  <2>4. \A i \in DOMAIN filters' : filters'[i].rule \in DOMAIN rules \ {r}
    BY <1>1, <2>1, <2>3
  <2> QED
    BY <1>1, <1>2, <2>2, <2>3, <2>4 DEF DbInv
<1> QED
  BY <1>3, <1>4, <1>5, <1>7, <1>8 DEF Requests

LEMMA DbStays ==
  ASSUME DbInv, UNCHANGED <<rules, filters, edits>>
  PROVE  DbInv'
BY DEF DbInv

-----------------------------------------------------------------------------
(* The consumer.  A transaction's gas price has six decimals; its hash     *)
(* starts with the number of its block, so that what is matched in a block is apart from what is stored  *)
(* of the blocks before; of its own block, nothing is stored before all of *)
(* it is matched.                                                          *)
OfBlock(x, n) == x.gasPrice.decimals = 6 /\ \E k \in Nat : x.hash = <<n, k>>

Apart(s, t) == \A i \in DOMAIN s, j \in DOMAIN t : SameAlert(s[i], t[j]) => s[i].tag = "swap"

BlockInv ==
  /\ phase \in {"idle", "match", "store"}
  /\ phase = "idle" => block = <<>> /\ matches = <<>>
  /\ phase = "store" => block = <<>>
  /\ \E S : block \in Seq(S)
  /\ \A i \in DOMAIN block : OfBlock(block[i], blocks)
  /\ snapshot \in Seq(FilterRow)
  /\ blocks \in 0..MaxBlocks

RowsInv ==
  /\ matches \in Seq(Row) /\ alerts \in Seq(Row)
  /\ Plain(matches) /\ Once(matches) /\ Once(alerts) /\ Apart(alerts, matches)
  /\ \A i \in DOMAIN matches : matches[i].tx[1] = blocks
  /\ \A i \in DOMAIN alerts : alerts[i].tx[1] \in 0..blocks
  /\ phase = "match" => \A i \in DOMAIN alerts : alerts[i].tx[1] # blocks

ConsumerInv == BlockInv /\ RowsInv

LEMMA ConsumerInit ==
  ASSUME Init
  PROVE  ConsumerInv
<1>1. phase = "idle" /\ block = <<>> /\ snapshot = <<>> /\ matches = <<>> /\ alerts = <<>> /\ blocks = 0
  BY DEF Init
<1>2. BlockInv
  BY <1>1, RulesAssumption DEF BlockInv
<1>3. RowsInv
  BY <1>1 DEF RowsInv, Plain, Once, Apart
<1> QED
  BY <1>2, <1>3 DEF ConsumerInv

LEMMA ConsumerStays ==
  ASSUME ConsumerInv, UNCHANGED <<consumer, alerts, blocks>>
  PROVE  ConsumerInv'
BY DEF ConsumerInv, BlockInv, RowsInv, consumer

(* Nothing is matched yet. *)
LEMMA NothingYet ==
  ASSUME RowsInv, UNCHANGED alerts, matches' = <<>>, blocks \in Nat, blocks' \in Nat,
         blocks' >= blocks, phase' = "match" => blocks' > blocks
  PROVE  RowsInv'
<1>1. \A i \in DOMAIN alerts : /\ alerts[i].tx[1] \in 0..blocks'
                              /\ phase' = "match" => alerts[i].tx[1] # blocks'
  BY DEF RowsInv
<1> QED
  BY <1>1 DEF RowsInv, Plain, Once, Apart

LEMMA LoadFiltersKeeps ==
  ASSUME ConsumerInv, DbInv, NEW sent \in Blocks, LoadFilters(sent)
  PROVE  ConsumerInv'
<1>1. /\ phase = "idle" /\ blocks < MaxBlocks /\ blocks' = blocks + 1
      /\ snapshot' = filters /\ matches' = <<>> /\ UNCHANGED alerts
  BY DEF LoadFilters
<1>2. blocks \in 0..MaxBlocks /\ MaxBlocks \in Nat
  BY RulesAssumption DEF ConsumerInv, BlockInv
<1>3. RowsInv'
  BY <1>1, <1>2, NothingYet DEF ConsumerInv
<1>4. CASE filters = <<>>
  <2>1. phase' = "idle" /\ block' = <<>>
    BY <1>4 DEF LoadFilters
  <2> QED
    BY <1>1, <1>2, <1>3, <1>4, <2>1 DEF ConsumerInv, BlockInv, DbInv
<1>5. CASE filters # <<>>
  <2>1. phase' = "match" /\ block' = [i \in DOMAIN sent |-> Numbered(sent[i], <<blocks + 1, i>>)]
    BY <1>5 DEF LoadFilters
  <2>2. DOMAIN sent = 1..Len(sent) /\ Len(sent) \in Nat
    <3>1. PICK S : sent \in Seq(S)
      BY RulesAssumption
    <3> QED
      BY <3>1
  <2>3. ASSUME NEW i \in DOMAIN sent
        PROVE  OfBlock(block'[i], blocks')
    <3>1. block'[i] = Numbered(sent[i], <<blocks + 1, i>>)
      BY <2>1
    <3>2. block'[i].hash = <<blocks + 1, i>> /\ block'[i].gasPrice.decimals = 6
      BY <3>1 DEF Numbered, WeiToEth
    <3>3. i \in Nat
      BY <2>2
    <3> QED
      BY <1>1, <3>2, <3>3 DEF OfBlock
  <2>4. DOMAIN block' = DOMAIN sent /\ \E S : block' \in Seq(S)
    <3> DEFINE S == {block'[i] : i \in 1..Len(sent)}
    <3>1. block' = [i \in 1..Len(sent) |-> block'[i]]
      BY <2>1, <2>2
    <3>2. block' \in [1..Len(sent) -> S]
      BY <3>1
    <3> HIDE DEF S
    <3>3. block' \in Seq(S)
      BY <2>2, <3>2
    <3> QED
      BY <2>1, <3>3
  <2>5. \A i \in DOMAIN block' : OfBlock(block'[i], blocks')
    BY <2>3, <2>4
  <2>6. phase' = "match" /\ snapshot' \in Seq(FilterRow) /\ blocks' \in 0..MaxBlocks
    BY <1>1, <1>2, <2>1 DEF DbInv
  <2> QED
    BY <1>3, <2>4, <2>5, <2>6 DEF ConsumerInv, BlockInv
<1> QED
  BY <1>4, <1>5

(* The rest of the block's transactions. *)
LEMMA RestOfBlock ==
  ASSUME NEW b, NEW n, \E S : b \in Seq(S), b # <<>>, \A i \in DOMAIN b : OfBlock(b[i], n)
  PROVE  /\ \E S : Tail(b) \in Seq(S)
         /\ \A i \in DOMAIN Tail(b) : OfBlock(Tail(b)[i], n)
         /\ OfBlock(Head(b), n)
         /\ Len(b) = 1 => Tail(b) = <<>>
<1>1. PICK S : b \in Seq(S)
  OBVIOUS
<1>2. Tail(b) \in Seq(S) /\ Len(b) \in Nat \ {0} /\ 1 \in DOMAIN b /\ Head(b) = b[1]
  BY <1>1
<1>3. \A i \in DOMAIN Tail(b) : i + 1 \in DOMAIN b /\ Tail(b)[i] = b[i + 1]
  BY <1>1, <1>2
<1>4. Len(b) = 1 => Tail(b) = <<>>
  <2>1. Len(b) = 1 => Len(Tail(b)) = 0
    BY <1>1
  <2>2. PICK t \in Seq(S) : t = Tail(b)
    BY <1>2
  <2>3. Len(t) = 0 => t = <<>>
    OBVIOUS
  <2> QED
    BY <2>1, <2>2, <2>3
<1> QED
  BY <1>2, <1>3, <1>4

LEMMA MatchTxKeeps ==
  ASSUME ConsumerInv, NEW failed, MatchTx(failed)
  PROVE  /\ ConsumerInv'
         /\ Prepared(Head(block))
         /\ SoFar(matches, matches', snapshot, Len(snapshot), Head(block), failed)
<1>1. PICK x : x = Head(block)
  OBVIOUS
<1>2. /\ phase = "match" /\ block # <<>> /\ matches' = AddTx(matches, x, failed) /\ block' = Tail(block)
      /\ phase' = (IF Len(block) = 1 THEN "store" ELSE "match")
      /\ UNCHANGED <<snapshot, alerts, blocks>>
  BY <1>1 DEF MatchTx
<1>3. BlockInv /\ RowsInv
  BY DEF ConsumerInv
<1>4. /\ \E S : block' \in Seq(S)
      /\ \A i \in DOMAIN block' : OfBlock(block'[i], blocks')
      /\ OfBlock(x, blocks)
      /\ Len(block) = 1 => block' = <<>>
  BY <1>1, <1>2, <1>3, RestOfBlock DEF BlockInv
<1>5. x.hash[1] = blocks /\ Prepared(x)
  <2>1. PICK k \in Nat : x.hash = <<blocks, k>> /\ x.gasPrice.decimals = 6
    BY <1>4 DEF OfBlock
  <2>2. blocks \in Nat
    BY <1>3 DEF BlockInv
  <2> QED
    BY <2>1, <2>2 DEF Prepared
<1>6. SoFar(matches, matches', snapshot, Len(snapshot), x, failed)
  BY <1>2, <1>3, <1>5, AddTxFacts DEF BlockInv, RowsInv
<1>7. BlockInv'
  BY <1>2, <1>3, <1>4 DEF BlockInv
<1>8. matches' \in Seq(Row) /\ Extends(matches, matches', x)
  BY <1>6 DEF SoFar
<1>9. /\ Len(matches) \in Nat /\ Len(matches') \in Nat
      /\ DOMAIN matches = 1..Len(matches) /\ DOMAIN matches' = 1..Len(matches')
  BY <1>3, <1>8 DEF RowsInv
<1>10. ASSUME NEW i \in DOMAIN matches'
       PROVE  matches'[i].tx[1] = blocks
  <2>1. CASE i \in DOMAIN matches
    BY <1>3, <1>8, <2>1 DEF Extends, RowsInv
  <2>2. CASE i \in (Len(matches) + 1)..Len(matches')
    BY <1>5, <1>8, <2>2 DEF Extends
  <2> QED
    BY <1>9, <2>1, <2>2
<1>11. Apart(alerts, matches')
  <2> SUFFICES ASSUME NEW i \in DOMAIN alerts, NEW j \in DOMAIN matches',
                      SameAlert(alerts[i], matches'[j])
               PROVE  FALSE
    BY DEF Apart
  <2>1. alerts[i].tx[1] # blocks
    BY <1>2, <1>3 DEF RowsInv
  <2> QED
    BY <1>10, <2>1 DEF SameAlert
<1>12. Plain(matches') /\ Once(matches')
  BY <1>3, <1>8 DEF Extends, RowsInv
<1>13. phase' = "match" => \A i \in DOMAIN alerts : alerts[i].tx[1] # blocks
  BY <1>2, <1>3 DEF RowsInv
<1>14. RowsInv'
  <2>1. Plain(matches)' /\ Once(matches)' /\ Apart(alerts, matches)' /\ Once(alerts)'
    <3>1. Once(alerts)' <=> Once(alerts)
      BY <1>2 DEF Once
    <3> QED
      BY <1>2, <1>3, <1>11, <1>12, <3>1 DEF RowsInv, Plain, Once, Apart
  <2> QED
    BY <1>2, <1>3, <1>8, <1>10, <1>13, <2>1 DEF RowsInv
<1> QED
  BY <1>1, <1>5, <1>6, <1>7, <1>14 DEF ConsumerInv

(* The first match goes, into the table or nowhere. *)
LEMMA FirstMatch ==
  ASSUME NEW ms \in Seq(Row), ms # <<>>
  PROVE  /\ Head(ms) = ms[1] /\ 1 \in DOMAIN ms /\ Head(ms) \in Row /\ Tail(ms) \in Seq(Row)
         /\ \A i \in DOMAIN Tail(ms) : i + 1 \in DOMAIN ms /\ Tail(ms)[i] = ms[i + 1] /\ i + 1 # 1
         /\ Len(ms) = 1 => Tail(ms) = <<>>
<1>1. /\ Head(ms) = ms[1] /\ Tail(ms) \in Seq(Row) /\ Len(Tail(ms)) = Len(ms) - 1
      /\ Len(ms) \in Nat \ {0} /\ DOMAIN ms = 1..Len(ms)
      /\ \A i \in DOMAIN Tail(ms) : i \in 1..(Len(ms) - 1) /\ Tail(ms)[i] = ms[i + 1]
  OBVIOUS
<1>2. \A t \in Seq(Row) : Len(t) = 0 => t = <<>>
  OBVIOUS
<1>3. ms[1] \in Row /\ 1 \in DOMAIN ms
  BY <1>1
<1>4. \A i \in 1..(Len(ms) - 1) : i + 1 \in 1..Len(ms) /\ i + 1 # 1
  BY <1>1
<1> QED
  BY <1>1, <1>2, <1>3, <1>4

LEMMA StoreKeeps ==
  ASSUME ConsumerInv, BroadcastAlert \/ InsertFails
  PROVE  ConsumerInv'
<1>1. /\ phase = "store" /\ matches # <<>> /\ matches' = Tail(matches)
      /\ phase' = (IF Len(matches) = 1 THEN "idle" ELSE "store")
      /\ UNCHANGED <<block, snapshot, blocks>>
      /\ (UNCHANGED alerts \/ alerts' = Append(alerts, Head(matches)))
  BY DEF BroadcastAlert, InsertFails, Drop
<1>2. BlockInv /\ RowsInv
  BY DEF ConsumerInv
<1>3. PICK m : m = Head(matches)
  OBVIOUS
<1>4. PICK rest : rest = Tail(matches)
  OBVIOUS
<1>5. /\ m = matches[1] /\ 1 \in DOMAIN matches /\ m \in Row /\ rest \in Seq(Row)
      /\ \A i \in DOMAIN rest : i + 1 \in DOMAIN matches /\ rest[i] = matches[i + 1] /\ i + 1 # 1
      /\ Len(matches) = 1 => rest = <<>>
  BY <1>1, <1>2, <1>3, <1>4, FirstMatch DEF RowsInv
<1>6. BlockInv'
  BY <1>1, <1>2, <1>4, <1>5 DEF BlockInv
<1>7. /\ Plain(rest) /\ Once(rest) /\ Apart(alerts, rest)
      /\ \A i \in DOMAIN rest : rest[i].tx[1] = blocks
      /\ \A i \in DOMAIN rest : SameAlert(m, rest[i]) => m.tag = "swap"
  <2>1. Plain(rest)
    BY <1>2, <1>5 DEF RowsInv, Plain
  <2>2. Once(rest)
    <3> SUFFICES ASSUME NEW i \in DOMAIN rest, NEW j \in DOMAIN rest, i # j,
                        SameAlert(rest[i], rest[j])
                 PROVE  rest[i].tag = "swap"
      BY DEF Once
    <3>1. i \in Int /\ j \in Int
      BY <1>5
    <3>2. i + 1 # j + 1
      BY <3>1
    <3> QED
      BY <1>2, <1>5, <3>2 DEF RowsInv, Once
  <2>3. Apart(alerts, rest)
    BY <1>2, <1>5 DEF RowsInv, Apart
  <2>4. \A i \in DOMAIN rest : rest[i].tx[1] = blocks
    BY <1>2, <1>5 DEF RowsInv
  <2>5. \A i \in DOMAIN rest : SameAlert(m, rest[i]) => m.tag = "swap"
    BY <1>2, <1>5 DEF RowsInv, Once
  <2> QED
    BY <2>1, <2>2, <2>3, <2>4, <2>5
<1>8. CASE UNCHANGED alerts
  BY <1>1, <1>2, <1>4, <1>5, <1>6, <1>7, <1>8 DEF ConsumerInv, RowsInv, Plain, Once, Apart
<1>9. CASE alerts' = Append(alerts, Head(matches))
  <2>1. PICK a \in Seq(Row) : a = alerts
    BY <1>2 DEF RowsInv
  <2>2. PICK r : r = Append(a, m)
    OBVIOUS
  <2>3. /\ r \in Seq(Row) /\ DOMAIN r = DOMAIN a \union {Len(a) + 1} /\ r[Len(a) + 1] = m
        /\ \A i \in DOMAIN a : r[i] = a[i]
    BY <1>5, <2>2
  <2>4. \A i \in DOMAIN a : SameAlert(a[i], m) \/ SameAlert(m, a[i]) => a[i].tag = "swap" /\ m.tag = "swap"
    <3>1. \A i \in DOMAIN a : SameAlert(a[i], m) => a[i].tag = "swap"
      BY <1>2, <1>5, <2>1 DEF RowsInv, Apart
    <3> QED
      BY <3>1 DEF SameAlert
  <2>5. Once(a) /\ Apart(a, rest)
    BY <1>2, <1>7, <2>1 DEF RowsInv
  <2>6. Once(r)
    BY <2>3, <2>4, <2>5 DEF Once
  <2>7. Apart(r, rest)
    BY <1>7, <2>3, <2>5 DEF Apart
  <2>8. \A i \in DOMAIN r : r[i].tx[1] \in 0..blocks
    <3>1. \A i \in DOMAIN a : a[i].tx[1] \in 0..blocks
      BY <1>2, <2>1 DEF RowsInv
    <3>2. m.tx[1] = blocks /\ blocks \in 0..blocks
      BY <1>2, <1>5 DEF RowsInv, BlockInv
    <3> QED
      BY <2>3, <3>1, <3>2
  <2>9. alerts' = r /\ matches' = rest /\ blocks' = blocks /\ phase' # "match"
    BY <1>1, <1>3, <1>4, <1>9, <2>1, <2>2
  <2> QED
    BY <1>5, <1>6, <1>7, <2>3, <2>6, <2>7, <2>8, <2>9 DEF ConsumerInv, RowsInv, Plain, Once, Apart
<1> QED
  BY <1>1, <1>8, <1>9

LEMMA BlockSkipped ==
  ASSUME ConsumerInv, LoadFails \/ NothingMatched \/ Restart
  PROVE  ConsumerInv'
<1>1. BlockInv /\ RowsInv /\ blocks \in 0..MaxBlocks /\ MaxBlocks \in Nat
  BY RulesAssumption DEF ConsumerInv, BlockInv
<1>2. CASE LoadFails
  <2>1. /\ phase = "idle" /\ blocks < MaxBlocks /\ blocks' = blocks + 1
        /\ UNCHANGED <<phase, block, snapshot, matches, alerts>>
    BY <1>2 DEF LoadFails, consumer
  <2>2. matches = <<>> /\ block = <<>>
    BY <1>1, <2>1 DEF BlockInv
  <2>3. RowsInv'
    BY <1>1, <2>1, <2>2, NothingYet
  <2> QED
    BY <1>1, <2>1, <2>2, <2>3 DEF ConsumerInv, BlockInv
<1>3. CASE NothingMatched
  <2>1. /\ phase = "store" /\ phase' = "idle" /\ matches = <<>>
        /\ UNCHANGED <<block, snapshot, matches, alerts, blocks>>
    BY <1>3 DEF NothingMatched
  <2>2. RowsInv'
    BY <1>1, <2>1, NothingYet
  <2> QED
    BY <1>1, <2>1, <2>2 DEF ConsumerInv, BlockInv
<1>4. CASE Restart
  <2>1. /\ phase' = "idle" /\ block' = <<>> /\ snapshot' = <<>> /\ matches' = <<>>
        /\ UNCHANGED <<alerts, blocks>>
    BY <1>4 DEF Restart
  <2>2. RowsInv'
    BY <1>1, <2>1, NothingYet
  <2> QED
    BY <1>1, <2>1, <2>2 DEF ConsumerInv, BlockInv
<1> QED
  BY <1>2, <1>3, <1>4

-----------------------------------------------------------------------------
(* What the stream has displayed, stands at and is answered are rows of    *)
(* its rule.                                                               *)
StreamTypes ==
  /\ shown \subseteq Rows /\ lastId \in shown \union {0}
  /\ \A page \in polls : page \subseteq Rows

LEMMA StreamTypesStay ==
  ASSUME StreamTypes, alerts \in Seq(Row), [Next]_vars
  PROVE  StreamTypes'
<1>1. UNCHANGED <<alerts, stream>> => StreamTypes'
  BY DEF StreamTypes, Rows, stream
<1>2. CASE UNCHANGED vars
  BY <1>1, <1>2 DEF vars
<1>3. CASE Requests
  <2>1. Edit
    BY <1>3 DEF Requests, CreateRule, CreateFilter, UpdateFilter, DeleteFilter, DeleteRule
  <2> QED
    BY <1>1, <2>1 DEF Edit
<1>4. ASSUME NEW t \in Tokens, PriceArrives(t)
      PROVE  StreamTypes'
  BY <1>1, <1>4 DEF PriceArrives
<1>5. ASSUME NEW sent \in Blocks, LoadFilters(sent)
      PROVE  StreamTypes'
  BY <1>1, <1>5 DEF LoadFilters
<1>6. CASE LoadFails \/ NothingMatched \/ Restart
  BY <1>1, <1>6 DEF LoadFails, NothingMatched, Restart
<1>7. ASSUME NEW failed, MatchTx(failed)
      PROVE  StreamTypes'
  BY <1>1, <1>7 DEF MatchTx
<1>8. CASE Matches \/ MatchFails
  BY <1>7, <1>8 DEF Matches, MatchFails
<1>9. CASE BroadcastAlert \/ InsertFails
  <2>1. UNCHANGED stream /\ (UNCHANGED alerts \/ alerts' = Append(alerts, Head(matches)))
    BY <1>9 DEF BroadcastAlert, InsertFails, Drop
  <2>2. ASSUME NEW e, alerts' = Append(alerts, e)
        PROVE  StreamTypes'
    <3>1. Rows \subseteq Rows'
      <4>1. \A i \in DOMAIN alerts : i \in DOMAIN Append(alerts, e) /\ Append(alerts, e)[i] = alerts[i]
        OBVIOUS
      <4> QED
        BY <2>2, <4>1 DEF Rows
    <3> QED
      BY <2>1, <3>1 DEF StreamTypes, stream
  <2> QED
    BY <1>1, <2>1, <2>2
<1>10. ASSUME NEW page \in SUBSET Rows, Display(page), UNCHANGED alerts
       PROVE  shown' \subseteq Rows' /\ lastId' \in shown' \union {0}
  <2>1. Rows' = Rows
    BY <1>10 DEF Rows
  <2>2. CASE page = {}
    BY <1>10, <2>1, <2>2 DEF Display, StreamTypes
  <2>3. CASE page # {}
    <3>1. page \in SUBSET (1..Len(alerts)) /\ Len(alerts) \in Nat
      BY DEF Rows
    <3>2. Max(page) \in page
      BY <2>3, <3>1, MaxOfBounded, Zenon
    <3> QED
      BY <1>10, <2>1, <2>3, <3>2 DEF Display, StreamTypes
  <2> QED
    BY <2>2, <2>3
<1>11. \A after : Page(after) \in SUBSET Rows
  BY DEF Page
<1>12. UNCHANGED alerts => Rows' = Rows
  BY DEF Rows
<1>13. CASE Open
  BY <1>10, <1>11, <1>12, <1>13 DEF Open, StreamTypes
<1>14. CASE Poll
  BY <1>11, <1>12, <1>14 DEF Poll, StreamTypes
<1>15. ASSUME NEW page \in polls, Answer(page)
       PROVE  StreamTypes'
  BY <1>10, <1>12, <1>15 DEF Answer, StreamTypes
<1>16. CASE PollFails
  BY <1>12, <1>16 DEF PollFails, StreamTypes
<1> QED
  BY <1>2, <1>3, <1>4, <1>5, <1>6, <1>8, <1>9, <1>13, <1>14, <1>15, <1>16
     DEF Next, BlockConsumer

(* Prices and the bound on faults. *)
Rest == priced \subseteq Tokens /\ faults \in 0..MaxFaults

LEMMA RestStays ==
  ASSUME Rest, [Next]_vars
  PROVE  Rest'
<1>1. MaxFaults \in Nat
  BY RulesAssumption
<1>2. ASSUME NEW t \in Tokens, PriceArrives(t)
      PROVE  Rest'
  BY <1>2 DEF PriceArrives, Rest
<1>3. CASE priced' = priced /\ (faults' = faults \/ Fault)
  BY <1>1, <1>3 DEF Rest, Fault
<1>4. CASE UNCHANGED vars \/ Requests
  BY <1>3, <1>4 DEF vars, Requests, CreateRule, CreateFilter, UpdateFilter, DeleteFilter, DeleteRule, Edit
<1>5. CASE BlockConsumer
  <2>1. ASSUME NEW failed, MatchTx(failed) PROVE priced' = priced
    BY <2>1 DEF MatchTx
  <2> QED
    BY <1>3, <1>5, <2>1 DEF BlockConsumer, LoadFilters, LoadFails, Matches, MatchFails,
         NothingMatched, BroadcastAlert, InsertFails, Drop
<1>6. CASE Restart \/ Open \/ Poll \/ PollFails
  BY <1>3, <1>6 DEF Restart, Open, Poll, PollFails
<1>7. ASSUME NEW page \in polls, Answer(page)
      PROVE  Rest'
  BY <1>3, <1>7 DEF Answer
<1> QED
  BY <1>2, <1>4, <1>5, <1>6, <1>7 DEF Next

-----------------------------------------------------------------------------
RulesInv == DbInv /\ ConsumerInv /\ StreamTypes /\ Rest

LEMMA RulesStepInv ==
  ASSUME RulesInv, [Next]_vars
  PROVE  RulesInv'
<1>1. DbInv /\ ConsumerInv /\ StreamTypes /\ Rest
  BY DEF RulesInv
<1>2. StreamTypes'
  BY <1>1, StreamTypesStay DEF ConsumerInv, RowsInv
<1>3. Rest'
  BY <1>1, RestStays
<1>4. DbInv'
  <2>1. CASE Requests
    BY <1>1, <2>1, RequestsKeepDb
  <2>2. ASSUME NEW failed, MatchTx(failed) PROVE UNCHANGED <<rules, filters, edits>>
    BY <2>2 DEF MatchTx, db
  <2>3. CASE BlockConsumer
    <3>1. UNCHANGED <<rules, filters, edits>>
      BY <2>2, <2>3 DEF BlockConsumer, LoadFilters, LoadFails, Matches, MatchFails,
           NothingMatched, BroadcastAlert, InsertFails, Drop, db
    <3> QED
      BY <1>1, <3>1, DbStays
  <2>4. CASE Restart \/ Open \/ Poll \/ PollFails \/ (\E page \in polls : Answer(page))
             \/ (\E t \in Tokens : PriceArrives(t)) \/ UNCHANGED vars
    <3>1. UNCHANGED <<rules, filters, edits>>
      BY <2>4 DEF Restart, Open, Poll, PollFails, Answer, PriceArrives, vars, db
    <3> QED
      BY <1>1, <3>1, DbStays
  <2> QED
    BY <2>1, <2>3, <2>4 DEF Next
<1>5. ConsumerInv'
  <2>1. UNCHANGED <<consumer, alerts, blocks>> => ConsumerInv'
    BY <1>1, ConsumerStays
  <2>2. CASE Requests
    <3>1. Edit
      BY <2>2 DEF Requests, CreateRule, CreateFilter, UpdateFilter, DeleteFilter, DeleteRule
    <3> QED
      BY <2>1, <3>1 DEF Edit
  <2>3. CASE Open \/ Poll \/ PollFails \/ (\E page \in polls : Answer(page))
             \/ (\E t \in Tokens : PriceArrives(t)) \/ UNCHANGED vars
    BY <2>1, <2>3 DEF Open, Poll, PollFails, Answer, PriceArrives, vars
  <2>4. CASE LoadFails \/ NothingMatched \/ Restart
    BY <1>1, <2>4, BlockSkipped
  <2>5. CASE BroadcastAlert \/ InsertFails
    BY <1>1, <2>5, StoreKeeps
  <2>6. CASE \E sent \in Blocks : LoadFilters(sent)
    BY <1>1, <2>6, LoadFiltersKeeps
  <2>7. CASE Matches \/ MatchFails
    BY <1>1, <2>7, MatchTxKeeps DEF Matches, MatchFails
  <2> QED
    BY <2>2, <2>3, <2>4, <2>5, <2>6, <2>7 DEF Next, BlockConsumer
<1> QED
  BY <1>2, <1>3, <1>4, <1>5 DEF RulesInv

LEMMA RulesInit ==
  ASSUME Init
  PROVE  RulesInv
<1>1. StreamTypes /\ Rest
  BY RulesAssumption DEF Init, StreamTypes, Rest
<1> QED
  BY <1>1, DbInit, ConsumerInit DEF RulesInv

(* What is stored and what is still to be stored, in one list. *)
LEMMA OnceInAll ==
  ASSUME NEW s \in Seq(Row), NEW t \in Seq(Row), Once(s), Once(t), Apart(s, t),
         NEW i \in DOMAIN (s \o t), NEW j \in DOMAIN (s \o t), i # j,
         SameAlert((s \o t)[i], (s \o t)[j])
  PROVE  (s \o t)[i].tag = "swap"
<1>1. PICK c : c = s \o t
  OBVIOUS
<1>2. /\ \A k \in DOMAIN c : \/ k \in DOMAIN s /\ c[k] = s[k]
                             \/ k - Len(s) \in DOMAIN t /\ c[k] = t[k - Len(s)] /\ k \in Int
      /\ Len(s) \in Nat
  BY <1>1
<1>3. i \in DOMAIN c /\ j \in DOMAIN c /\ SameAlert(c[i], c[j]) /\ SameAlert(c[j], c[i])
  BY <1>1 DEF SameAlert
<1>4. CASE i \in DOMAIN s /\ c[i] = s[i]
  <2>1. CASE j \in DOMAIN s /\ c[j] = s[j]
    BY <1>1, <1>3, <1>4, <2>1 DEF Once
  <2>2. CASE j - Len(s) \in DOMAIN t /\ c[j] = t[j - Len(s)]
    BY <1>1, <1>3, <1>4, <2>2 DEF Apart
  <2> QED
    BY <1>2, <1>3, <2>1, <2>2
<1>5. CASE i - Len(s) \in DOMAIN t /\ c[i] = t[i - Len(s)] /\ i \in Int
  <2>1. CASE j \in DOMAIN s /\ c[j] = s[j]
    <3>1. s[j].tag = "swap"
      BY <1>3, <1>5, <2>1 DEF Apart
    <3> QED
      BY <1>1, <1>3, <2>1, <3>1 DEF SameAlert
  <2>2. CASE j - Len(s) \in DOMAIN t /\ c[j] = t[j - Len(s)] /\ j \in Int
    <3>1. i - Len(s) # j - Len(s)
      BY <1>2, <1>5, <2>2
    <3> QED
      BY <1>1, <1>3, <1>5, <2>2, <3>1 DEF Once
  <2> QED
    BY <1>2, <1>3, <2>1, <2>2
<1> QED
  BY <1>2, <1>3, <1>4, <1>5

LEMMA RulesInvTypes ==
  ASSUME RulesInv
  PROVE  TypeOK
<1>1. DbInv /\ BlockInv /\ RowsInv /\ StreamTypes /\ Rest
  BY DEF RulesInv, ConsumerInv
<1>2. /\ DOMAIN rules \subseteq DOMAIN StoredRules \union NewRules
      /\ \A i \in DOMAIN filters : filters[i].rule \in DOMAIN rules
      /\ edits \in 0..MaxEdits
  BY <1>1 DEF DbInv
<1>3. /\ phase \in {"idle", "match", "store"}
      /\ phase = "idle" => block = <<>> /\ matches = <<>>
      /\ blocks \in 0..MaxBlocks
  BY <1>1 DEF BlockInv
<1>4. matches \in Seq(Row) /\ alerts \in Seq(Row)
  BY <1>1 DEF RowsInv
<1> QED
  BY <1>1, <1>2, <1>3, <1>4 DEF TypeOK, StreamTypes, Rest

(* A rule has one alert at most on the finances of a transaction, and none *)
(* on its gas price, for any rules, filters and blocks, whatever fails and *)
(* whenever the process restarts.                                          *)
THEOREM OneAlertPerRuleHolds == Spec => []OneAlertPerRule
<1>1. Init => RulesInv
  BY RulesInit
<1>2. RulesInv /\ [Next]_vars => RulesInv'
  BY RulesStepInv
<1>3. RulesInv => OneAlertPerRule
  <2> SUFFICES ASSUME RulesInv PROVE OneAlertPerRule
    OBVIOUS
  <2>1. alerts \in Seq(Row) /\ matches \in Seq(Row) /\ Once(alerts) /\ Once(matches) /\ Apart(alerts, matches)
    BY DEF RulesInv, ConsumerInv, RowsInv
  <2>2. \A i, j \in DOMAIN (alerts \o matches) :
          i # j /\ SameAlert((alerts \o matches)[i], (alerts \o matches)[j]) => (alerts \o matches)[i].tag = "swap"
    BY <2>1, OnceInAll
  <2> QED
    BY <2>2, RulesInvTypes DEF OneAlertPerRule
<1> QED
  BY <1>1, <1>2, <1>3, PTL DEF Spec

(* Filters do not disturb each other: matching a transaction yields an     *)
(* alert for whatever a filter asks for by itself, and a swap alert goes   *)
(* to the rule and user of a filter that asks for it.                      *)
THEOREM FiltersIndependentHolds == Spec => FiltersIndependent
<1> DEFINE
  Wish(x) == \A i \in DOMAIN snapshot :
               /\ AsksFinance(snapshot[i], x) => HasFinance(matches', x, snapshot[i])
               /\ ~Finance(snapshot[i]) =>
                    \A t \in AsksSwap(snapshot[i], x) : HasSwap(matches', x, snapshot[i], t)
  Cause(x) == \A k \in (Len(matches) + 1)..Len(matches') :
                matches'[k].tag = "swap" =>
                  \E i \in DOMAIN snapshot :
                    /\ snapshot[i].rule = matches'[k].rule /\ snapshot[i].user = matches'[k].user
                    /\ \/ matches'[k].token \in AsksSwap(snapshot[i], x)
                       \/ snapshot[i].when.address = ""
<1>1. RulesInv /\ Matches => Wish(Head(block)) /\ Cause(Head(block))
  <2> SUFFICES ASSUME RulesInv, Matches PROVE Wish(Head(block)) /\ Cause(Head(block))
    OBVIOUS
  <2>1. PICK x : x = Head(block)
    OBVIOUS
  <2>2. PICK failed : failed = <<>>
    OBVIOUS
  <2>3. MatchTx(failed) /\ ConsumerInv
    BY <2>2 DEF Matches, RulesInv
  <2>4. SoFar(matches, matches', snapshot, Len(snapshot), x, failed)
    BY <2>1, <2>3, MatchTxKeeps
  <2>5. Plain(matches) /\ DOMAIN snapshot = 1..Len(snapshot)
    BY <2>3 DEF ConsumerInv, RowsInv, BlockInv
  <2>6. /\ AllServed(matches', snapshot, Len(snapshot), x)
        /\ AllAsked(matches', Len(matches), snapshot, Len(snapshot), x, failed)
    BY <2>2, <2>4, <2>5 DEF SoFar
  <2>7. Wish(x)
    BY <2>5, <2>6 DEF AllServed, Served
  <2>8. Cause(x)
    <3> SUFFICES ASSUME NEW k \in (Len(matches) + 1)..Len(matches'), matches'[k].tag = "swap"
                 PROVE  \E i \in DOMAIN snapshot :
                          /\ snapshot[i].rule = matches'[k].rule /\ snapshot[i].user = matches'[k].user
                          /\ \/ matches'[k].token \in AsksSwap(snapshot[i], x)
                             \/ snapshot[i].when.address = ""
      OBVIOUS
    <3>1. PICK m : m = matches'[k]
      OBVIOUS
    <3>2. Prompted(m, snapshot, Len(snapshot), x, failed)
      BY <2>6, <3>1 DEF AllAsked
    <3>3. PICK j \in DOMAIN snapshot :
            /\ m.rule = snapshot[j].rule /\ m.user = snapshot[j].user
            /\ snapshot[j].when.named /\ Own(snapshot[j], x)
            /\ m.token \in SwapTokens(snapshot[j], x, failed)
      BY <2>5, <3>2 DEF Prompted
    <3>4. \/ m.token \in AsksSwap(snapshot[j], x)
          \/ snapshot[j].when.address = ""
      BY <2>2, <3>3 DEF AsksSwap, Mine, Own
    <3> QED
      BY <3>1, <3>3, <3>4
  <2> QED
    BY <2>1, <2>7, <2>8
<1>2. Wish(Head(block)) /\ Cause(Head(block)) =>
        LET x == Head(block)
            f(i) == snapshot[i]
            has(rule, tag, token) ==
              \E k \in DOMAIN matches' : /\ matches'[k].rule = rule /\ matches'[k].tx = x.hash
                                        /\ matches'[k].tag = tag /\ matches'[k].token = token
        IN  /\ \A i \in DOMAIN snapshot :
                  /\ AsksFinance(f(i), x) => has(f(i).rule, "finance", "")
                  /\ ~Finance(f(i)) => \A t \in AsksSwap(f(i), x) : has(f(i).rule, "swap", t)
            /\ \A k \in (Len(matches) + 1)..Len(matches') :
                  matches'[k].tag = "swap" =>
                    \E i \in DOMAIN snapshot :
                      /\ f(i).rule = matches'[k].rule /\ f(i).user = matches'[k].user
                      /\ \/ matches'[k].token \in AsksSwap(f(i), x)
                         \/ f(i).when.address = ""
  BY Zenon DEF HasFinance, HasSwap
<1> HIDE DEF Wish, Cause
<1>3. Init => RulesInv
  BY RulesInit
<1>4. RulesInv /\ [Next]_vars => RulesInv'
  BY RulesStepInv
<1> QED
  BY <1>1, <1>2, <1>3, <1>4, PTL DEF Spec, FiltersIndependent

-----------------------------------------------------------------------------
(* PortfolioAlerts. *)

(* The gate's two functions. *)
LEMMA FreshFacts ==
  ASSUME NEW f
  PROVE  /\ DOMAIN Fresh(f) = {k \in DOMAIN f : now - f[k] <= KeepFor}
         /\ \A k \in DOMAIN Fresh(f) : Fresh(f)[k] = f[k]
BY DEF Fresh

LEMMA SetFacts ==
  ASSUME NEW f, NEW key
  PROVE  /\ DOMAIN Set(f, key) = DOMAIN f \union {key}
         /\ Set(f, key)[key] = now
         /\ \A k \in DOMAIN f : k # key => Set(f, key)[k] = f[k]
BY DEF Set

LEMMA SetAtLeast ==
  ASSUME NEW f, NEW key, NEW k \in DOMAIN f, NEW x, f[k] >= x, now >= x
  PROVE  k \in DOMAIN Set(f, key) /\ Set(f, key)[k] >= x
BY DEF Set

LEMMA SetTyped ==
  ASSUME NEW f, NEW key, NEW K, NEW V, key \in K, now \in V,
         DOMAIN f \subseteq K, \A k \in DOMAIN f : f[k] \in V
  PROVE  /\ DOMAIN Set(f, key) \subseteq K
         /\ \A k \in DOMAIN Set(f, key) : Set(f, key)[k] \in V
BY DEF Set

-----------------------------------------------------------------------------
(* What an action does to the table, the gate and the transaction.         *)

(* The transaction stays, or its analysis ends. *)
Ends == tx' = tx \/ tx' = NoTx

(* Every action but Tick and Begin takes no time and starts nothing. *)
Still == now' = now /\ txs' = txs /\ Ends

(* The alert of p on the transfer is written, or only let through. *)
Writes(p) == LetThrough(p) /\ notes' = Append(notes, EventNote(p)) /\ UNCHANGED restarts /\ Still
Swallows(p) == LetThrough(p) /\ UNCHANGED <<notes, restarts>> /\ Still

Forgets ==
  /\ lastByTx' = Fresh(lastByTx) /\ lastBySlot' = Fresh(lastBySlot)
  /\ UNCHANGED <<notes, restarts>> /\ Still

Reports(p) ==
  /\ part = "reports" /\ p \in subs /\ Insertable(ReportNote(p))
  /\ notes' = Append(notes, ReportNote(p))
  /\ UNCHANGED <<gate, restarts>> /\ Still

Keeps == UNCHANGED <<gate, notes, restarts>> /\ Still

LEMMA StepKinds ==
  ASSUME [AlertsNext]_analysis
  PROVE  \/ Tick
         \/ \E transfers \in Transactions, delay \in 0..MaxDelay : Begin(transfers, delay)
         \/ Keeps \/ Forgets \/ AlertsRestart
         \/ \E p \in Portfolios : Writes(p) \/ Swallows(p) \/ Reports(p)
<1>1. CASE UNCHANGED analysis
  BY <1>1 DEF analysis, loop, Keeps, Still, Ends
<1>2. CASE NothingToDo
  BY <1>2 DEF NothingToDo, analysis, loop, Keeps, Still, Ends
<1>3. CASE LoadSubs
  BY <1>3 DEF LoadSubs, NextTransfer, Return, Keeps, Still, Ends
<1>4. CASE LoadSubsFails \/ ToReports
  BY <1>4 DEF LoadSubsFails, ToReports, Return, Keeps, Still, Ends
<1>5. CASE ReportsDone
  BY <1>5 DEF ReportsDone, NextTransfer, Return, Keeps, Still, Ends
<1>6. ASSUME NEW p \in Portfolios, Pass(p)
      PROVE  Keeps \/ Forgets
  BY <1>6 DEF Pass, Keeps, Forgets, Still, Ends
<1>7. ASSUME NEW p \in Portfolios, Alert(p)
      PROVE  Writes(p)
  BY <1>7 DEF Alert, Writes, Still, Ends
<1>8. ASSUME NEW p \in Portfolios, AlertFails(p)
      PROVE  Writes(p) \/ Swallows(p)
  BY <1>8 DEF AlertFails, Return, Writes, Swallows, Still, Ends
<1>9. ASSUME NEW p \in Portfolios, TooQuiet(p) \/ ReportRefused(p)
      PROVE  Keeps
  BY <1>9 DEF TooQuiet, ReportRefused, Return, Keeps, Still, Ends
<1>10. ASSUME NEW p \in Portfolios, Report(p)
       PROVE  Reports(p)
  BY <1>10 DEF Report, Reports, Still, Ends
<1>11. ASSUME NEW p \in Portfolios, ReportFails(p)
       PROVE  Reports(p) \/ Keeps
  BY <1>11 DEF ReportFails, Return, Reports, Keeps, Still, Ends
<1> QED
  BY <1>1, <1>2, <1>3, <1>4, <1>5, <1>6, <1>7, <1>8, <1>9, <1>10, <1>11 DEF AlertsNext

-----------------------------------------------------------------------------
(* Types. *)
LEMMA LoopStep ==
  ASSUME LoopType, TxCurrent, [AlertsNext]_analysis
  PROVE  LoopType' /\ TxCurrent'
<1> USE AlertsAssumption
<1>0. /\ now \in Nat /\ txs \in 0..MaxTxs /\ subs \subseteq Portfolios
      /\ tx # NoTx => tx.started \in Nat /\ tx.started <= now /\ now - tx.started <= KeepFor
  BY DEF LoopType, TxCurrent
<1>1. CASE UNCHANGED analysis
  BY <1>1 DEF LoopType, TxCurrent, analysis, loop, Subscriptions, Transfer
<1>2. CASE Tick
  <2>1. LoopType'
    BY <1>2 DEF Tick, LoopType, loop
  <2>2. TxCurrent'
    BY <1>0, <1>2 DEF Tick, TxCurrent, loop, Subscriptions, Transfer
  <2> QED
    BY <2>1, <2>2
<1>3. ASSUME NEW transfers \in Transactions, NEW delay \in 0..MaxDelay, Begin(transfers, delay)
      PROVE  LoopType' /\ TxCurrent'
  <2>1. tx' \in [id : 1..MaxTxs, transfers : Transactions, blockTime : Nat, started : Nat]
    BY <1>0, <1>3 DEF Begin
  <2>2. tx' # NoTx /\ tx'.id = txs' /\ tx'.started = now' /\ at' = 1
    BY <1>0, <1>3 DEF Begin, NoTx
  <2>3. 1 \in DOMAIN tx'.transfers
    <3>1. transfers \in Seq(TransferType) /\ transfers # <<>> /\ tx'.transfers = transfers
      BY <1>3 DEF Begin
    <3> QED
      BY <3>1
  <2>4. LoopType'
    BY <1>3, <2>1, <2>2, <2>3 DEF Begin, LoopType
  <2>5. TxCurrent'
    BY <1>0, <1>3, <2>2 DEF Begin, TxCurrent
  <2> QED
    BY <2>4, <2>5
<1>4. ASSUME Return, UNCHANGED <<now, txs>>,
             failures' \in 0..MaxFailures, restarts' \in 0..MaxRestarts
      PROVE  LoopType' /\ TxCurrent'
  BY <1>4 DEF Return, LoopType, TxCurrent
<1>5. ASSUME part # "idle", NextTransfer, UNCHANGED <<now, txs, failures, restarts>>
      PROVE  LoopType' /\ TxCurrent'
  <2>1. CASE Return
    BY <1>4, <1>5, <2>1 DEF LoopType
  <2>2. CASE at < Len(tx.transfers)
    <3>1. tx # NoTx /\ tx.transfers \in Seq(TransferType) /\ at \in DOMAIN tx.transfers
      BY <1>5 DEF LoopType
    <3>2. at + 1 \in DOMAIN tx.transfers
      BY <2>2, <3>1
    <3> QED
      BY <1>5, <2>2, <3>1, <3>2 DEF NextTransfer, LoopType, TxCurrent
  <2> QED
    BY <1>5, <2>1, <2>2 DEF NextTransfer
<1>6. ASSUME part # "idle", part' \in {"alerts", "reports"},
             subs' \subseteq Subscriptions(Transfer), UNCHANGED <<tx, at, now, txs, restarts>>,
             failures' \in 0..MaxFailures
      PROVE  LoopType' /\ TxCurrent'
  <2>1. Subscriptions(Transfer)' = Subscriptions(Transfer)
    BY <1>6 DEF Subscriptions, Transfer
  <2>2. subs' \subseteq Portfolios
    BY <1>6 DEF Subscriptions
  <2>3. LoopType'
    BY <1>6, <2>2 DEF LoopType
  <2>4. TxCurrent'
    BY <1>0, <1>6, <2>1 DEF TxCurrent
  <2> QED
    BY <2>3, <2>4
<1>7. failures < MaxFailures /\ failures' = failures + 1 => failures' \in 0..MaxFailures
  BY DEF LoopType
<1>8. failures \in 0..MaxFailures /\ restarts \in 0..MaxRestarts
  BY DEF LoopType
<1>9. CASE NothingToDo
  BY <1>1, <1>9 DEF NothingToDo
<1>10. CASE LoadSubs
  BY <1>5, <1>6, <1>8, <1>10 DEF LoadSubs
<1>11. CASE LoadSubsFails
  BY <1>4, <1>7, <1>8, <1>11 DEF LoadSubsFails
<1>12. CASE ToReports
  BY <1>6, <1>8, <1>12 DEF ToReports
<1>13. CASE ReportsDone
  BY <1>5, <1>8, <1>13 DEF ReportsDone
<1>14. CASE AlertsRestart
  BY <1>4, <1>8, <1>14 DEF AlertsRestart
<1>15. ASSUME NEW p \in Portfolios, Pass(p) \/ Alert(p) \/ TooQuiet(p) \/ Report(p)
       PROVE  LoopType' /\ TxCurrent'
  <2>1. part \in {"alerts", "reports"} /\ subs' = subs \ {p}
        /\ UNCHANGED <<part, tx, at, now, txs, restarts, failures>>
    BY <1>15 DEF Pass, Alert, LetThrough, TooQuiet, Report
  <2>2. subs' \subseteq Subscriptions(Transfer)
    BY <2>1 DEF TxCurrent
  <2> QED
    BY <1>6, <1>8, <2>1, <2>2
<1>16. ASSUME NEW p \in Portfolios, AlertFails(p) \/ ReportRefused(p) \/ ReportFails(p)
       PROVE  LoopType' /\ TxCurrent'
  BY <1>4, <1>7, <1>8, <1>16 DEF AlertFails, ReportRefused, ReportFails
<1> QED
  BY <1>1, <1>2, <1>3, <1>9, <1>10, <1>11, <1>12, <1>13, <1>14, <1>15, <1>16
     DEF AlertsNext

(* A transfer under analysis is of a token that its subscribers hold. *)
LEMMA OfHeldToken ==
  ASSUME LoopType, TxCurrent, part \in {"alerts", "reports"}, NEW p \in Portfolios, p \in subs
  PROVE  /\ tx # NoTx /\ tx.id \in 1..MaxTxs /\ tx.id = txs /\ tx.blockTime \in Nat
         /\ Transfer \in TransferType
         /\ Transfer.token \in HeldTokens
<1>1. /\ tx # NoTx /\ tx.id \in 1..MaxTxs /\ tx.id = txs /\ tx.blockTime \in Nat
      /\ tx.transfers \in Seq(TransferType) /\ at \in DOMAIN tx.transfers
  BY AlertsAssumption DEF LoopType, TxCurrent
<1>2. Transfer.token \in Holds[p]
  BY DEF TxCurrent, Subscriptions
<1> QED
  BY <1>1, <1>2 DEF Transfer, HeldTokens

LEMMA GateStep ==
  ASSUME LoopType, GateType, TxCurrent, [AlertsNext]_analysis
  PROVE  GateType'
<1> USE AlertsAssumption
<1>0. now \in Nat
  BY DEF LoopType
<1>1. CASE Tick
  BY <1>0, <1>1 DEF Tick, GateType, gate
<1>2. ASSUME NEW transfers \in Transactions, NEW delay \in 0..MaxDelay, Begin(transfers, delay)
      PROVE  GateType'
  BY <1>2 DEF Begin, GateType, gate
<1>3. CASE Keeps
  BY <1>3 DEF Keeps, Still, GateType, gate
<1>4. CASE Forgets
  BY <1>4, FreshFacts, ZenonT(40) DEF Forgets, Still, GateType
<1>5. CASE AlertsRestart
  BY <1>5 DEF AlertsRestart, GateType
<1>6. ASSUME NEW p \in Portfolios, Reports(p)
      PROVE  GateType'
  BY <1>6 DEF Reports, Still, GateType, gate
<1>7. ASSUME NEW p \in Portfolios, Writes(p) \/ Swallows(p)
      PROVE  GateType'
  <2>1. now' = now /\ LetThrough(p)
    BY <1>7 DEF Writes, Swallows, Still
  <2>2. /\ lastByTx' = Set(Fresh(lastByTx), <<p, tx.id>>)
        /\ lastBySlot' = Set(Fresh(lastBySlot), <<p, Transfer.token>>)
        /\ tx.id \in 1..MaxTxs /\ Transfer.token \in HeldTokens
    BY <2>1, OfHeldToken DEF LetThrough
  <2>3. /\ DOMAIN Fresh(lastByTx) \subseteq Portfolios \X (1..MaxTxs)
        /\ \A k \in DOMAIN Fresh(lastByTx) : Fresh(lastByTx)[k] \in 0..now
    BY FreshFacts DEF GateType
  <2>4. /\ DOMAIN Fresh(lastBySlot) \subseteq Portfolios \X HeldTokens
        /\ \A k \in DOMAIN Fresh(lastBySlot) : Fresh(lastBySlot)[k] \in 0..now
    BY FreshFacts DEF GateType
  <2>5. /\ DOMAIN lastByTx' \subseteq Portfolios \X (1..MaxTxs)
        /\ \A k \in DOMAIN lastByTx' : lastByTx'[k] \in 0..now
    <3>1. now \in 0..now /\ <<p, tx.id>> \in Portfolios \X (1..MaxTxs)
      BY <1>0, <2>2
    <3> QED
      BY <2>2, <2>3, <3>1, SetTyped, Zenon
  <2>6. /\ DOMAIN lastBySlot' \subseteq Portfolios \X HeldTokens
        /\ \A k \in DOMAIN lastBySlot' : lastBySlot'[k] \in 0..now
    <3>1. now \in 0..now /\ <<p, Transfer.token>> \in Portfolios \X HeldTokens
      BY <1>0, <2>2
    <3> QED
      BY <2>2, <2>4, <3>1, SetTyped, Zenon
  <2> QED
    BY <2>1, <2>5, <2>6 DEF GateType
<1> QED
  BY <1>1, <1>2, <1>3, <1>4, <1>5, <1>6, <1>7, StepKinds

LEMMA NotesTyped ==
  ASSUME LoopType, TxCurrent, NEW p \in Portfolios, p \in subs
  PROVE  /\ part = "alerts" => EventNote(p) \in Note
         /\ part = "reports" => ReportNote(p) \in Note
<1> USE AlertsAssumption
<1>0. now \in 0..MaxTime /\ restarts \in 0..MaxRestarts
  BY DEF LoopType
<1>1. part = "alerts" => EventNote(p) \in Note
  BY <1>0, OfHeldToken DEF EventNote, Note, Critical, TransferType
<1>2. ASSUME part = "reports"
      PROVE  ReportNote(p) \in Note
  <2>1. DayOf(tx.blockTime) \in Nat
    BY <1>2, OfHeldToken DEF DayOf
  <2> QED
    BY <1>0, <1>2, <2>1, OfHeldToken DEF ReportNote, Note
<1> QED
  BY <1>1, <1>2

LEMMA NotesStep ==
  ASSUME AlertsTypeOK, TxCurrent, [AlertsNext]_analysis
  PROVE  (notes \in Seq(Note))'
<1>1. UNCHANGED notes \/ \E n \in Note : notes' = Append(notes, n)
  <2>1. CASE Tick \/ Keeps \/ Forgets \/ AlertsRestart
    BY <2>1 DEF Tick, Keeps, Forgets, AlertsRestart
  <2>2. ASSUME NEW transfers \in Transactions, NEW delay \in 0..MaxDelay, Begin(transfers, delay)
        PROVE  UNCHANGED notes
    BY <2>2 DEF Begin
  <2>3. ASSUME NEW p \in Portfolios, Writes(p) \/ Swallows(p) \/ Reports(p)
        PROVE  UNCHANGED notes \/ \E n \in Note : notes' = Append(notes, n)
    BY <2>3, NotesTyped DEF Writes, Swallows, Reports, LetThrough, AlertsTypeOK
  <2> QED
    BY <2>1, <2>2, <2>3, StepKinds
<1> QED
  BY <1>1 DEF AlertsTypeOK

-----------------------------------------------------------------------------
(* What the gate remembers of alert n. *)
Remembered(n) ==
  /\ n.tx \in 1..txs /\ n.at <= now /\ n.boot <= restarts
  /\ tx # NoTx /\ n.tx = tx.id
       => /\ <<n.portfolio, tx.id>> \in DOMAIN lastByTx
          /\ lastByTx[<<n.portfolio, tx.id>>] >= tx.started
  /\ n.boot = restarts
       => \/ now - n.at > KeepFor
          \/ /\ <<n.portfolio, n.token>> \in DOMAIN lastBySlot
             /\ lastBySlot[<<n.portfolio, n.token>>] >= n.at

(* What is remembered of the transaction under analysis and of alerts no   *)
(* older than KeepFor survives the forgetting.                             *)
LEMMA FreshRemembers ==
  ASSUME LoopType, GateType, TxCurrent, NEW n \in Note, Remembered(n)
  PROVE  /\ tx # NoTx /\ n.tx = tx.id
              => /\ <<n.portfolio, tx.id>> \in DOMAIN Fresh(lastByTx)
                 /\ Fresh(lastByTx)[<<n.portfolio, tx.id>>] >= tx.started
         /\ n.boot = restarts
              => \/ now - n.at > KeepFor
                 \/ /\ <<n.portfolio, n.token>> \in DOMAIN Fresh(lastBySlot)
                    /\ Fresh(lastBySlot)[<<n.portfolio, n.token>>] >= n.at
<1> USE AlertsAssumption
<1>0. now \in Nat /\ n.at \in Nat
  BY DEF LoopType, Note
<1>1. ASSUME tx # NoTx, n.tx = tx.id
      PROVE  /\ <<n.portfolio, tx.id>> \in DOMAIN Fresh(lastByTx)
             /\ Fresh(lastByTx)[<<n.portfolio, tx.id>>] >= tx.started
  <2> DEFINE k == <<n.portfolio, tx.id>>
  <2>1. k \in DOMAIN lastByTx /\ lastByTx[k] >= tx.started /\ lastByTx[k] \in Nat
    BY <1>0, <1>1 DEF Remembered, GateType
  <2>2. tx.started \in Nat /\ now - tx.started <= KeepFor
    BY <1>1 DEF LoopType, TxCurrent
  <2>3. now - lastByTx[k] <= KeepFor
    BY <1>0, <2>1, <2>2
  <2> QED
    BY <2>1, <2>3, FreshFacts
<1>2. ASSUME n.boot = restarts, ~(now - n.at > KeepFor)
      PROVE  /\ <<n.portfolio, n.token>> \in DOMAIN Fresh(lastBySlot)
             /\ Fresh(lastBySlot)[<<n.portfolio, n.token>>] >= n.at
  <2> DEFINE k == <<n.portfolio, n.token>>
  <2>1. k \in DOMAIN lastBySlot /\ lastBySlot[k] >= n.at /\ lastBySlot[k] \in Nat
    BY <1>0, <1>2 DEF Remembered, GateType
  <2>2. now - lastBySlot[k] <= KeepFor
    BY <1>0, <1>2, <2>1
  <2> QED
    BY <2>1, <2>2, FreshFacts
<1> QED
  BY <1>1, <1>2

LEMMA StaysRemembered ==
  ASSUME LoopType, GateType, TxCurrent, NEW n \in Note, Remembered(n), [AlertsNext]_analysis
  PROVE  Remembered(n)'
<1> USE AlertsAssumption
<1>0. /\ now \in Nat /\ n.at \in Nat /\ txs \in Nat /\ restarts \in Nat /\ n.boot \in Nat
      /\ n.tx \in 1..txs /\ n.at <= now /\ n.boot <= restarts
  BY DEF LoopType, Note, Remembered
<1>1. CASE Tick
  BY <1>0, <1>1 DEF Tick, Remembered, loop, gate
<1>2. ASSUME NEW transfers \in Transactions, NEW delay \in 0..MaxDelay, Begin(transfers, delay)
      PROVE  Remembered(n)'
  <2>1. n.tx # tx'.id
    BY <1>0, <1>2 DEF Begin
  <2>2. txs' = txs + 1 /\ UNCHANGED <<now, gate, restarts>>
    BY <1>2 DEF Begin
  <2> QED
    BY <1>0, <2>1, <2>2 DEF Remembered, gate
<1>3. CASE Keeps
  BY <1>3 DEF Keeps, Still, Ends, Remembered, gate
<1>4. CASE AlertsRestart
  BY <1>0, <1>4 DEF AlertsRestart, Return, Remembered
<1>5. ASSUME NEW p \in Portfolios, Reports(p)
      PROVE  Remembered(n)'
  BY <1>5 DEF Reports, Still, Ends, Remembered, gate
<1>6. CASE Forgets
  BY <1>0, <1>6, FreshRemembers DEF Forgets, Still, Ends, Remembered
<1>7. ASSUME NEW p \in Portfolios, Writes(p) \/ Swallows(p)
      PROVE  Remembered(n)'
  <2>1. /\ UNCHANGED <<now, txs, restarts>> /\ Ends /\ tx # NoTx
        /\ part = "alerts" /\ p \in subs
        /\ lastByTx' = Set(Fresh(lastByTx), <<p, tx.id>>)
        /\ lastBySlot' = Set(Fresh(lastBySlot), <<p, Transfer.token>>)
    BY <1>7 DEF Writes, Swallows, Still, LetThrough, LoopType
  <2>2. now >= tx.started
    BY <1>0, <2>1 DEF LoopType, TxCurrent
  <2>3. ASSUME tx' # NoTx, n.tx = tx'.id
        PROVE  /\ <<n.portfolio, tx'.id>> \in DOMAIN lastByTx'
               /\ lastByTx'[<<n.portfolio, tx'.id>>] >= tx'.started
    <3>1. tx' = tx
      BY <2>1, <2>3 DEF Ends
    <3>2. /\ <<n.portfolio, tx.id>> \in DOMAIN Fresh(lastByTx)
          /\ Fresh(lastByTx)[<<n.portfolio, tx.id>>] >= tx.started
      BY <2>1, <2>3, <3>1, FreshRemembers
    <3> QED
      BY <2>1, <2>2, <3>1, <3>2, SetAtLeast, Zenon
  <2>4. ASSUME n.boot = restarts', ~(now' - n.at > KeepFor)
        PROVE  /\ <<n.portfolio, n.token>> \in DOMAIN lastBySlot'
               /\ lastBySlot'[<<n.portfolio, n.token>>] >= n.at
    <3>1. /\ <<n.portfolio, n.token>> \in DOMAIN Fresh(lastBySlot)
          /\ Fresh(lastBySlot)[<<n.portfolio, n.token>>] >= n.at
      BY <2>1, <2>4, FreshRemembers
    <3>2. now >= n.at
      BY <1>0
    <3> QED
      BY <2>1, <3>1, <3>2, SetAtLeast, Zenon
  <2> QED
    BY <1>0, <2>1, <2>3, <2>4 DEF Remembered
<1> QED
  BY <1>1, <1>2, <1>3, <1>4, <1>5, <1>6, <1>7, StepKinds

(* An alert just written is remembered. *)
LEMMA WrittenIsRemembered ==
  ASSUME LoopType, GateType, TxCurrent, NEW p \in Portfolios, Writes(p),
         NEW n \in Note, n = EventNote(p)
  PROVE  Remembered(n)'
<1> USE AlertsAssumption
<1>1. /\ UNCHANGED <<now, txs, restarts>> /\ Ends
      /\ part = "alerts" /\ p \in subs
      /\ lastByTx' = Set(Fresh(lastByTx), <<p, tx.id>>)
      /\ lastBySlot' = Set(Fresh(lastBySlot), <<p, Transfer.token>>)
  BY DEF Writes, Still, LetThrough
<1>2. /\ n.portfolio = p /\ n.token = Transfer.token /\ n.tx = tx.id
      /\ n.at = now /\ n.boot = restarts
  BY DEF EventNote
<1>3. /\ tx # NoTx /\ tx.id = txs /\ txs \in 1..MaxTxs /\ tx.started <= now
      /\ now \in Nat /\ restarts \in Nat
  BY <1>1, OfHeldToken DEF TxCurrent, LoopType
<1>4. <<p, tx.id>> \in DOMAIN lastByTx' /\ lastByTx'[<<p, tx.id>>] = now
  BY <1>1, SetFacts, ZenonT(40)
<1>5. <<p, Transfer.token>> \in DOMAIN lastBySlot' /\ lastBySlot'[<<p, Transfer.token>>] = now
  BY <1>1, SetFacts, ZenonT(40)
<1> QED
  BY <1>1, <1>2, <1>3, <1>4, <1>5 DEF Remembered, Ends

-----------------------------------------------------------------------------
(* The table only grows, by an alert or by a report. *)
NoNewAlert == /\ DOMAIN notes \subseteq DOMAIN notes'
              /\ \A i \in DOMAIN notes : notes'[i] = notes[i]
              /\ Alerts' = Alerts

NewAlert(p) ==
  /\ Alerts' = Alerts \union {Len(notes) + 1}
  /\ \A i \in Alerts : i < Len(notes) + 1
  /\ \A i \in Alerts : notes'[i] = notes[i]
  /\ notes'[Len(notes) + 1] = EventNote(p)

LEMMA Appended ==
  ASSUME NEW S, NEW s \in Seq(S), NEW e \in S
  PROVE  /\ DOMAIN Append(s, e) = DOMAIN s \union {Len(s) + 1}
         /\ \A i \in DOMAIN s : Append(s, e)[i] = s[i] /\ i < Len(s) + 1
         /\ Append(s, e)[Len(s) + 1] = e
OBVIOUS

LEMMA TableGrows ==
  ASSUME AlertsTypeOK, TxCurrent, [AlertsNext]_analysis
  PROVE  NoNewAlert \/ \E p \in Portfolios : Writes(p) /\ NewAlert(p)
<1>1. notes \in Seq(Note)
  BY DEF AlertsTypeOK
<1>2. CASE UNCHANGED notes
  BY <1>2 DEF NoNewAlert, Alerts
<1>3. ASSUME NEW p \in Portfolios, Reports(p)
      PROVE  NoNewAlert
  <2>1. ReportNote(p) \in Note /\ notes' = Append(notes, ReportNote(p))
    BY <1>3, NotesTyped DEF Reports, AlertsTypeOK
  <2>2. /\ DOMAIN notes' = DOMAIN notes \union {Len(notes) + 1}
        /\ \A i \in DOMAIN notes : notes'[i] = notes[i]
        /\ notes'[Len(notes) + 1].kind = "DAILY_REPORT"
    BY <1>1, <2>1, Appended DEF ReportNote
  <2> QED
    BY <2>2 DEF NoNewAlert, Alerts
<1>4. ASSUME NEW p \in Portfolios, Writes(p)
      PROVE  NewAlert(p)
  <2>1. EventNote(p) \in Note /\ notes' = Append(notes, EventNote(p))
    BY <1>4, NotesTyped DEF Writes, LetThrough, AlertsTypeOK
  <2>2. /\ DOMAIN notes' = DOMAIN notes \union {Len(notes) + 1}
        /\ \A i \in DOMAIN notes : notes'[i] = notes[i] /\ i < Len(notes) + 1
        /\ notes'[Len(notes) + 1] = EventNote(p)
        /\ EventNote(p).kind = "EVENT"
    BY <1>1, <2>1, Appended DEF EventNote
  <2> QED
    BY <2>2 DEF NewAlert, Alerts
<1>5. ASSUME NEW p \in Portfolios, Swallows(p)
      PROVE  UNCHANGED notes
  BY <1>5 DEF Swallows
<1>6. ASSUME NEW transfers \in Transactions, NEW delay \in 0..MaxDelay, Begin(transfers, delay)
      PROVE  UNCHANGED notes
  BY <1>6 DEF Begin
<1>7. CASE Tick \/ Keeps \/ Forgets \/ AlertsRestart
  BY <1>2, <1>7 DEF Tick, Keeps, Forgets, AlertsRestart
<1> QED
  BY <1>2, <1>3, <1>4, <1>5, <1>6, <1>7, StepKinds

LEMMA RememberedForm == GateRemembers <=> \A i \in Alerts : Remembered(notes[i])
BY DEF GateRemembers, Remembered

(* An alert that is let through is no repetition, and keeps its distance. *)
LEMMA LetThroughFits ==
  ASSUME LoopType, GateType, TxCurrent, NEW p \in Portfolios, LetThrough(p),
         NEW n \in Note, Remembered(n), n.portfolio = p
  PROVE  /\ n.tx # tx.id
         /\ n.token = Transfer.token /\ n.boot = restarts /\ ~Critical(Transfer)
              => now - n.at >= Cooldown
<1> USE AlertsAssumption
<1>1. tx # NoTx /\ GateOpen(p, Transfer) /\ now \in Nat /\ n.at \in Nat
  BY DEF LetThrough, LoopType, Note
<1>2. n.tx # tx.id
  BY <1>1, FreshRemembers DEF GateOpen
<1>3. ASSUME n.token = Transfer.token, n.boot = restarts, ~Critical(Transfer)
      PROVE  now - n.at >= Cooldown
  <2> DEFINE k == <<p, Transfer.token>>
  <2>1. CASE now - n.at > KeepFor
    BY <1>1, <2>1
  <2>2. CASE k \in DOMAIN Fresh(lastBySlot) /\ Fresh(lastBySlot)[k] >= n.at
    <3>1. now - lastBySlot[k] >= Cooldown
      BY <1>1, <1>3, <2>2 DEF GateOpen
    <3>2. k \in DOMAIN lastBySlot /\ Fresh(lastBySlot)[k] = lastBySlot[k]
      BY <2>2, FreshFacts
    <3>3. lastBySlot[k] \in Nat /\ lastBySlot[k] >= n.at
      BY <1>1, <2>2, <3>2 DEF GateType
    <3> QED
      BY <1>1, <3>1, <3>3
  <2> QED
    BY <1>3, <2>1, <2>2, FreshRemembers
<1> QED
  BY <1>2, <1>3

LEMMA AlertsStep ==
  ASSUME GateInv, [AlertsNext]_analysis
  PROVE  (GateRemembers /\ OneAlertPerTx /\ AlertsSpaced)'
<1> USE AlertsAssumption
<1>1. /\ LoopType /\ GateType /\ TxCurrent /\ AlertsTypeOK
      /\ \A i \in Alerts : notes[i] \in Note /\ Remembered(notes[i])
  BY RememberedForm DEF GateInv, AlertsTypeOK, Alerts
<1>2. \A n \in Note : Remembered(n) => Remembered(n)'
  BY <1>1, StaysRemembered
<1>3. ASSUME \A i \in Alerts' : \E n \in Note : n = notes'[i] /\ Remembered(n)'
      PROVE  GateRemembers'
  <2> SUFFICES ASSUME NEW i \in Alerts', NEW n \in Note, n = notes'[i], Remembered(n)'
               PROVE  /\ notes'[i].tx \in 1..txs' /\ notes'[i].at <= now'
                      /\ notes'[i].boot <= restarts'
                      /\ tx' # NoTx /\ notes'[i].tx = tx'.id
                           => /\ <<notes'[i].portfolio, tx'.id>> \in DOMAIN lastByTx'
                              /\ lastByTx'[<<notes'[i].portfolio, tx'.id>>] >= tx'.started
                      /\ notes'[i].boot = restarts'
                           => \/ now' - notes'[i].at > KeepFor
                              \/ /\ <<notes'[i].portfolio, notes'[i].token>> \in DOMAIN lastBySlot'
                                 /\ lastBySlot'[<<notes'[i].portfolio, notes'[i].token>>] >= notes'[i].at
    BY <1>3 DEF GateRemembers
  <2> QED
    BY DEF Remembered
<1>4. CASE NoNewAlert
  <2>1. \A i \in Alerts : notes'[i] = notes[i]
    BY <1>4 DEF NoNewAlert, Alerts
  <2>2. GateRemembers'
    BY <1>1, <1>2, <1>3, <1>4, <2>1 DEF NoNewAlert
  <2>3. OneAlertPerTx'
    BY <1>4, <2>1 DEF GateInv, OneAlertPerTx, NoNewAlert
  <2>4. AlertsSpaced'
    BY <1>4, <2>1 DEF GateInv, AlertsSpaced, NoNewAlert
  <2> QED
    BY <2>2, <2>3, <2>4
<1>5. ASSUME NEW p \in Portfolios, Writes(p), NewAlert(p)
      PROVE  (GateRemembers /\ OneAlertPerTx /\ AlertsSpaced)'
  <2> DEFINE last == Len(notes) + 1
  <2>1. LetThrough(p) /\ now \in Nat /\ EventNote(p) \in Note
    BY <1>1, <1>5, NotesTyped DEF Writes, LetThrough, LoopType
  <2>2. /\ Alerts' = Alerts \union {last}
        /\ \A i \in Alerts : i < last /\ i \in Nat /\ notes'[i] = notes[i]
        /\ last \in Nat
        /\ notes'[last] = EventNote(p)
    BY <1>1, <1>5 DEF NewAlert, Alerts, AlertsTypeOK
  <2> HIDE DEF last
  <2>3. GateRemembers'
    <3>1. \A n \in Note : n = EventNote(p) => Remembered(n)'
      BY <1>1, <1>5, WrittenIsRemembered
    <3> QED
      BY <1>1, <1>2, <1>3, <2>1, <2>2, <3>1
  <2>4. ASSUME NEW i \in Alerts, notes[i].portfolio = p
        PROVE  /\ notes[i].tx # tx.id
               /\ /\ notes[i].token = Transfer.token /\ notes[i].boot = restarts
                  /\ ~Critical(Transfer)
                  => now - notes[i].at >= Cooldown
    BY <1>1, <2>1, <2>4, LetThroughFits
  <2>5. /\ notes'[last].portfolio = p /\ notes'[last].tx = tx.id /\ notes'[last].at = now
        /\ notes'[last].token = Transfer.token /\ notes'[last].boot = restarts
        /\ notes'[last].critical = Critical(Transfer)
    BY <2>2 DEF EventNote
  <2>6. OneAlertPerTx'
    BY <2>2, <2>4, <2>5 DEF GateInv, OneAlertPerTx
  <2>7. AlertsSpaced'
    <3> SUFFICES ASSUME NEW i \in Alerts', NEW j \in Alerts', i < j,
                        notes'[i].portfolio = notes'[j].portfolio,
                        notes'[i].token = notes'[j].token,
                        notes'[i].boot = notes'[j].boot,
                        ~notes'[j].critical
                 PROVE  notes'[j].at - notes'[i].at >= Cooldown
      BY DEF AlertsSpaced
    <3>1. i \in Alerts
      BY <2>2
    <3>2. CASE j \in Alerts
      BY <2>2, <3>1, <3>2 DEF GateInv, AlertsSpaced
    <3>3. CASE j = last
      BY <2>2, <2>4, <2>5, <3>1, <3>3
    <3> QED
      BY <2>2, <3>2, <3>3
  <2> QED
    BY <2>3, <2>6, <2>7
<1> QED
  BY <1>1, <1>4, <1>5, TableGrows

-----------------------------------------------------------------------------
LEMMA InitGate == AlertsInit => GateInv
<1> SUFFICES ASSUME AlertsInit PROVE GateInv
  OBVIOUS
<1> USE AlertsAssumption
<1>1. LoopType /\ GateType /\ notes \in Seq(Note)
  BY DEF AlertsInit, LoopType, GateType
<1>2. Alerts = {} /\ TxCurrent
  BY DEF AlertsInit, Alerts, TxCurrent
<1> QED
  BY <1>1, <1>2 DEF GateInv, AlertsTypeOK, GateRemembers, OneAlertPerTx, AlertsSpaced

(* GateInv holds in every reachable state: within a run of the process and *)
(* across runs, whatever inserts and lookups report.                       *)
THEOREM GateInvariance == AlertsSpec => []GateInv
<1>1. GateInv /\ [AlertsNext]_analysis => GateInv'
  <2> SUFFICES ASSUME GateInv, [AlertsNext]_analysis PROVE GateInv'
    OBVIOUS
  <2>1. LoopType' /\ TxCurrent'
    BY LoopStep DEF GateInv, AlertsTypeOK
  <2>2. GateType'
    BY GateStep DEF GateInv, AlertsTypeOK
  <2>3. (notes \in Seq(Note))'
    BY NotesStep DEF GateInv
  <2> QED
    BY <2>1, <2>2, <2>3, AlertsStep DEF GateInv, AlertsTypeOK
<1> QED
  BY <1>1, InitGate, PTL DEF AlertsSpec

-----------------------------------------------------------------------------
(* No alert is swallowed.  The alerts that were let through, written or    *)
(* refused: *)
Given == {notes[i] : i \in Alerts} \union refused

(* ... each entry of the gate's two maps is the trace of one of them, *)
GateEarned ==
  /\ \A p \in Portfolios, id \in 1..MaxTxs :
       <<p, id>> \in DOMAIN lastByTx => \E m \in Given : m.portfolio = p /\ m.tx = id
  /\ \A p \in Portfolios, t \in HeldTokens :
       <<p, t>> \in DOMAIN lastBySlot
         => \E m \in Given : /\ m.portfolio = p /\ m.token = t
                            /\ m.at = lastBySlot[<<p, t>>]

(* ... and what the loop has looked at has been answered by one. *)
Looked(i, p) ==
  i < at \/ (i = at /\ (part = "reports" \/ (part = "alerts" /\ p \notin subs)))

IsAnswered(i, p) ==
  Qualifies(tx.transfers[i], Rule(p)) => \E m \in Given : Answers(m, p, tx.transfers[i], tx)

LookedAnswered ==
  tx # NoTx =>
    \A i \in DOMAIN tx.transfers : \A p \in Subscriptions(tx.transfers[i]) :
      Looked(i, p) => IsAnswered(i, p)

AnswerInv == GateInv /\ GateEarned /\ LookedAnswered

LEMMA GateKinds ==
  ASSUME [AlertsNext]_analysis
  PROVE  /\ refused \subseteq refused'
         /\ \/ UNCHANGED gate
            \/ lastByTx' = Fresh(lastByTx) /\ lastBySlot' = Fresh(lastBySlot)
            \/ AlertsRestart
            \/ \E p \in Portfolios : Alert(p) \/ AlertFails(p)
<1>1. CASE UNCHANGED analysis
  BY <1>1 DEF analysis
<1>2. CASE Tick \/ NothingToDo \/ LoadSubs \/ LoadSubsFails \/ ToReports \/ ReportsDone
  BY <1>2 DEF Tick, NothingToDo, LoadSubs, LoadSubsFails, ToReports, ReportsDone,
              analysis
<1>3. ASSUME NEW transfers \in Transactions, NEW delay \in 0..MaxDelay, Begin(transfers, delay)
      PROVE  UNCHANGED <<gate, refused>>
  BY <1>3 DEF Begin
<1>4. ASSUME NEW p \in Portfolios, Pass(p)
      PROVE  /\ UNCHANGED refused
             /\ \/ UNCHANGED gate
                \/ lastByTx' = Fresh(lastByTx) /\ lastBySlot' = Fresh(lastBySlot)
  BY <1>4 DEF Pass
<1>5. ASSUME NEW p \in Portfolios, Alert(p) \/ AlertFails(p)
      PROVE  refused \subseteq refused'
  BY <1>5 DEF Alert, AlertFails
<1>6. ASSUME NEW p \in Portfolios, TooQuiet(p) \/ Report(p) \/ ReportRefused(p) \/ ReportFails(p)
      PROVE  UNCHANGED <<gate, refused>>
  BY <1>6 DEF TooQuiet, Report, ReportRefused, ReportFails
<1>7. CASE AlertsRestart
  BY <1>7 DEF AlertsRestart
<1> QED
  BY <1>1, <1>2, <1>3, <1>4, <1>5, <1>6, <1>7 DEF AlertsNext

LEMMA GivenStays ==
  ASSUME AlertsTypeOK, TxCurrent, [AlertsNext]_analysis
  PROVE  Given \subseteq Given'
<1>1. Alerts \subseteq Alerts' /\ \A i \in Alerts : notes'[i] = notes[i]
  BY TableGrows DEF NoNewAlert, NewAlert, Alerts
<1>2. refused \subseteq refused'
  BY GateKinds
<1> QED
  BY <1>1, <1>2 DEF Given

(* An alert that is let through is given, refused or not. *)
LEMMA LetThroughGiven ==
  ASSUME AlertsTypeOK, TxCurrent, NEW p \in Portfolios, Alert(p) \/ AlertFails(p)
  PROVE  \E m \in Given' : /\ m.portfolio = p /\ m.tx = tx.id
                           /\ m.token = Transfer.token /\ m.at = now
<1>1. CASE Alert(p)
  <2>1. /\ EventNote(p) \in Note /\ notes \in Seq(Note)
        /\ notes' = Append(notes, EventNote(p))
    BY <1>1, NotesTyped DEF Alert, LetThrough, AlertsTypeOK
  <2>2. Len(notes) + 1 \in DOMAIN notes' /\ notes'[Len(notes) + 1] = EventNote(p)
    BY <2>1, Appended
  <2>3. EventNote(p) \in Given'
    BY <2>2 DEF Given, Alerts, EventNote
  <2> QED
    BY <2>3 DEF EventNote
<1>2. CASE AlertFails(p)
  <2>1. [portfolio |-> p, token |-> Transfer.token, tx |-> tx.id, at |-> now] \in Given'
    BY <1>2 DEF AlertFails, Given
  <2> QED
    BY <2>1
<1> QED
  BY <1>1, <1>2

LEMMA GateEarnedStep ==
  ASSUME AlertsTypeOK, TxCurrent, GateEarned, [AlertsNext]_analysis
  PROVE  GateEarned'
<1>1. Given \subseteq Given'
  BY GivenStays
<1>2. ASSUME DOMAIN lastByTx' \subseteq DOMAIN lastByTx,
             DOMAIN lastBySlot' \subseteq DOMAIN lastBySlot,
             \A k \in DOMAIN lastBySlot' : lastBySlot'[k] = lastBySlot[k]
      PROVE  GateEarned'
  BY <1>1, <1>2 DEF GateEarned
<1>3. CASE UNCHANGED gate
  BY <1>2, <1>3 DEF gate
<1>4. CASE lastByTx' = Fresh(lastByTx) /\ lastBySlot' = Fresh(lastBySlot)
  BY <1>2, <1>4, FreshFacts
<1>5. CASE AlertsRestart
  BY <1>5 DEF AlertsRestart, GateEarned
<1>6. ASSUME NEW p \in Portfolios, Alert(p) \/ AlertFails(p)
      PROVE  GateEarned'
  <2>1. PICK m \in Given' : /\ m.portfolio = p /\ m.tx = tx.id
                            /\ m.token = Transfer.token /\ m.at = now
    BY <1>6, LetThroughGiven
  <2>2. /\ lastByTx' = Set(Fresh(lastByTx), <<p, tx.id>>)
        /\ lastBySlot' = Set(Fresh(lastBySlot), <<p, Transfer.token>>)
    BY <1>6 DEF Alert, AlertFails, LetThrough
  <2>3. DOMAIN lastByTx' \subseteq DOMAIN lastByTx \union {<<p, tx.id>>}
    BY <2>2 DEF Set, Fresh
  <2>4. /\ DOMAIN lastBySlot' \subseteq DOMAIN lastBySlot \union {<<p, Transfer.token>>}
        /\ lastBySlot'[<<p, Transfer.token>>] = now
        /\ \A k \in DOMAIN lastBySlot' :
             k # <<p, Transfer.token>> => lastBySlot'[k] = lastBySlot[k]
    BY <2>2 DEF Set, Fresh
  <2>5. ASSUME NEW q \in Portfolios, NEW id \in 1..MaxTxs, <<q, id>> \in DOMAIN lastByTx'
        PROVE  \E n \in Given' : n.portfolio = q /\ n.tx = id
    BY <1>1, <2>1, <2>3, <2>5 DEF GateEarned
  <2>6. ASSUME NEW q \in Portfolios, NEW t \in HeldTokens, <<q, t>> \in DOMAIN lastBySlot'
        PROVE  \E n \in Given' : /\ n.portfolio = q /\ n.token = t
                                 /\ n.at = lastBySlot'[<<q, t>>]
    <3>1. CASE <<q, t>> = <<p, Transfer.token>>
      BY <2>1, <2>4, <3>1
    <3>2. CASE <<q, t>> # <<p, Transfer.token>>
      BY <1>1, <2>4, <2>6, <3>2 DEF GateEarned
    <3> QED
      BY <3>1, <3>2
  <2> QED
    BY <2>5, <2>6 DEF GateEarned, HeldTokens
<1> QED
  BY <1>3, <1>4, <1>5, <1>6, GateKinds

(* Whom the gate is closed to has been answered. *)
LEMMA ClosedIsAnswered ==
  ASSUME AlertsTypeOK, TxCurrent, GateEarned, NEW p \in Portfolios, p \in subs, part = "alerts",
         ~GateOpen(p, Transfer)
  PROVE  \E m \in Given : Answers(m, p, Transfer, tx)
<1> USE AlertsAssumption
<1>1. /\ tx.id \in 1..MaxTxs /\ Transfer.token \in HeldTokens
      /\ now \in Nat /\ tx.started \in Nat /\ tx.started <= now
  BY OfHeldToken DEF AlertsTypeOK, LoopType, TxCurrent
<1>2. CASE <<p, tx.id>> \in DOMAIN Fresh(lastByTx)
  <2>1. <<p, tx.id>> \in DOMAIN lastByTx
    BY <1>2, FreshFacts
  <2> QED
    BY <1>1, <2>1 DEF GateEarned, Answers
<1>3. CASE /\ <<p, Transfer.token>> \in DOMAIN Fresh(lastBySlot)
           /\ ~(now - lastBySlot[<<p, Transfer.token>>] >= Cooldown)
  <2>1. <<p, Transfer.token>> \in DOMAIN lastBySlot
    BY <1>3, FreshFacts
  <2>2. PICK m \in Given : /\ m.portfolio = p /\ m.token = Transfer.token
                           /\ m.at = lastBySlot[<<p, Transfer.token>>]
    BY <1>1, <2>1 DEF GateEarned
  <2>3. m.at \in Nat
    BY <1>1, <2>1, <2>2 DEF AlertsTypeOK, GateType
  <2>4. m.at > tx.started - Cooldown
    BY <1>1, <1>3, <2>2, <2>3
  <2> QED
    BY <2>2, <2>4 DEF Answers
<1> QED
  BY <1>2, <1>3 DEF GateOpen

LEMMA LookedStep ==
  ASSUME GateInv, GateEarned, LookedAnswered, [AlertsNext]_analysis
  PROVE  LookedAnswered'
<1> USE AlertsAssumption
<1>0. /\ AlertsTypeOK /\ TxCurrent /\ LoopType
      /\ tx # NoTx => at \in DOMAIN tx.transfers /\ at \in Nat /\ DOMAIN tx.transfers \subseteq Nat
  BY DEF GateInv, AlertsTypeOK, LoopType
<1>1. Given \subseteq Given'
  BY <1>0, GivenStays
<1>2. CASE tx' = NoTx
  BY <1>2 DEF LookedAnswered
<1>3. ASSUME tx' = tx,
             \A i \in DOMAIN tx.transfers : \A p \in Subscriptions(tx.transfers[i]) :
               Looked(i, p)' => \/ Looked(i, p)
                                \/ /\ Qualifies(tx.transfers[i], Rule(p))
                                   => \E m \in Given' : Answers(m, p, tx.transfers[i], tx)
      PROVE  LookedAnswered'
  <2> SUFFICES ASSUME tx # NoTx, NEW i \in DOMAIN tx.transfers,
                      NEW p \in Subscriptions(tx.transfers[i]), Looked(i, p)',
                      Qualifies(tx.transfers[i], Rule(p))
               PROVE  \E m \in Given' : Answers(m, p, tx.transfers[i], tx)
    BY <1>3 DEF LookedAnswered, IsAnswered, Subscriptions
  <2> QED
    BY <1>1, <1>3 DEF LookedAnswered, IsAnswered
<1>4. CASE UNCHANGED loop
  BY <1>3, <1>4 DEF loop, Looked
<1>5. ASSUME NEW transfers \in Transactions, NEW delay \in 0..MaxDelay, Begin(transfers, delay)
      PROVE  LookedAnswered'
  <2>1. at' = 1 /\ part' = "load" /\ DOMAIN tx'.transfers \subseteq Nat \ {0}
    BY <1>5 DEF Begin
  <2>2. \A i \in DOMAIN tx'.transfers : \A p : ~Looked(i, p)'
    BY <2>1 DEF Looked
  <2> QED
    BY <2>2 DEF LookedAnswered
<1>6. ASSUME part # "idle", tx # NoTx, NextTransfer,
             part = "reports" \/ Subscriptions(Transfer) = {}
      PROVE  LookedAnswered'
  <2>1. CASE Return
    BY <1>2, <2>1 DEF Return
  <2>2. CASE at' = at + 1 /\ part' = "load" /\ tx' = tx
    <3>1. ASSUME NEW i \in DOMAIN tx.transfers, NEW p \in Subscriptions(tx.transfers[i]),
                 Looked(i, p)'
          PROVE  Looked(i, p)
      BY <1>0, <1>6, <2>2, <3>1 DEF Looked, Transfer
    <3> QED
      BY <1>3, <2>2, <3>1
  <2> QED
    BY <1>6, <2>1, <2>2 DEF NextTransfer
<1>7. CASE LoadSubs
  <2>1. part # "idle" /\ tx # NoTx
    BY <1>0, <1>7 DEF LoadSubs, LoopType
  <2>2. CASE Subscriptions(Transfer) = {}
    BY <1>6, <1>7, <2>1, <2>2 DEF LoadSubs
  <2>3. CASE Subscriptions(Transfer) # {}
    <3>1. part' = "alerts" /\ subs' = Subscriptions(Transfer) /\ tx' = tx /\ at' = at
      BY <1>7, <2>3 DEF LoadSubs
    <3>2. ASSUME NEW i \in DOMAIN tx.transfers, NEW p \in Subscriptions(tx.transfers[i]),
                 Looked(i, p)'
          PROVE  Looked(i, p)
      BY <3>1, <3>2 DEF Looked, Transfer
    <3> QED
      BY <1>3, <3>1, <3>2
  <2> QED
    BY <2>2, <2>3
<1>8. CASE ToReports
  BY <1>3, <1>8 DEF ToReports, Looked
<1>9. CASE ReportsDone
  BY <1>0, <1>6, <1>9 DEF ReportsDone, LoopType
<1>10. ASSUME NEW p \in Portfolios, Pass(p) \/ Alert(p)
       PROVE  LookedAnswered'
  <2>1. /\ part = "alerts" /\ p \in subs /\ subs' = subs \ {p}
        /\ UNCHANGED <<part, tx, at>>
    BY <1>10 DEF Pass, Alert, LetThrough
  <2>2. Qualifies(Transfer, Rule(p)) => \E m \in Given' : Answers(m, p, Transfer, tx)
    <3>1. CASE Pass(p)
      BY <1>0, <1>1, <2>1, <3>1, ClosedIsAnswered DEF Pass
    <3>2. CASE Alert(p)
      BY <1>0, <3>2, LetThroughGiven DEF Answers
    <3> QED
      BY <1>10, <3>1, <3>2
  <2>3. \A i \in DOMAIN tx.transfers : \A q :
          Looked(i, q)' => Looked(i, q) \/ (i = at /\ q = p)
    BY <2>1 DEF Looked
  <2> QED
    BY <1>3, <2>1, <2>2, <2>3 DEF Transfer
<1>11. ASSUME NEW p \in Portfolios, TooQuiet(p) \/ Report(p)
       PROVE  LookedAnswered'
  BY <1>3, <1>11 DEF TooQuiet, Report, Looked
<1>12. ASSUME NEW p \in Portfolios, AlertFails(p) \/ ReportRefused(p) \/ ReportFails(p)
       PROVE  LookedAnswered'
  BY <1>2, <1>12 DEF AlertFails, ReportRefused, ReportFails, Return
<1>13. CASE LoadSubsFails \/ AlertsRestart
  BY <1>2, <1>13 DEF LoadSubsFails, AlertsRestart, Return
<1>14. CASE Tick \/ NothingToDo \/ UNCHANGED analysis
  BY <1>4, <1>14 DEF Tick, NothingToDo, analysis
<1> QED
  BY <1>5, <1>7, <1>8, <1>9, <1>10, <1>11, <1>12, <1>13, <1>14 DEF AlertsNext

(* The analysis runs through at its last transfer only. *)
LEMMA RunsThroughAnswered ==
  ASSUME AnswerInv, [AlertsNext]_analysis, RunsThrough,
         NEW i \in DOMAIN tx.transfers, NEW p \in Subscriptions(tx.transfers[i]),
         Qualifies(tx.transfers[i], Rule(p))
  PROVE  Answered(p, tx.transfers[i], tx)
<1> USE AlertsAssumption
<1>0. /\ AlertsTypeOK /\ TxCurrent /\ LoopType /\ tx # NoTx /\ part # "idle"
      /\ at \in DOMAIN tx.transfers /\ DOMAIN tx.transfers = 1..Len(tx.transfers)
      /\ failures \in Nat /\ restarts \in Nat
  BY DEF AnswerInv, GateInv, AlertsTypeOK, LoopType, RunsThrough, Finishes
<1>1. LoadSubs \/ ReportsDone
  <2>1. tx' = NoTx /\ tx' # tx /\ failures' = failures /\ restarts' = restarts
        /\ (part = "reports" => subs = {})
    BY DEF RunsThrough, Finishes
  <2>2. ~UNCHANGED analysis /\ ~Tick /\ ~NothingToDo /\ ~ToReports
    BY <2>1 DEF analysis, loop, Tick, NothingToDo, ToReports
  <2>3. ~LoadSubsFails /\ ~AlertsRestart
    BY <1>0, <2>1 DEF LoadSubsFails, AlertsRestart
  <2>4. ASSUME NEW transfers \in Transactions, NEW delay \in 0..MaxDelay, Begin(transfers, delay)
        PROVE  FALSE
    BY <1>0, <2>4 DEF Begin
  <2>5. ASSUME NEW q \in Portfolios
        PROVE  ~(Pass(q) \/ Alert(q) \/ TooQuiet(q) \/ Report(q))
    BY <2>1 DEF Pass, Alert, TooQuiet, Report
  <2>6. ASSUME NEW q \in Portfolios
        PROVE  ~(AlertFails(q) \/ ReportRefused(q) \/ ReportFails(q))
    BY <1>0, <2>1 DEF AlertFails, ReportRefused, ReportFails
  <2> QED
    BY <2>2, <2>3, <2>4, <2>5, <2>6 DEF AlertsNext
<1>2. ~(at < Len(tx.transfers))
  BY <1>0, <1>1 DEF LoadSubs, ReportsDone, NextTransfer, RunsThrough, Finishes
<1>3. i < at \/ i = at
  BY <1>0, <1>2
<1>4. Looked(i, p)
  BY <1>0, <1>1, <1>3 DEF LoadSubs, ReportsDone, Looked, Transfer, RunsThrough, Finishes
<1>5. PICK m \in Given : Answers(m, p, tx.transfers[i], tx)
  BY <1>0, <1>4 DEF AnswerInv, LookedAnswered, IsAnswered
<1>6. m \in Given'
  BY <1>0, <1>5, GivenStays
<1> QED
  BY <1>5, <1>6 DEF Answered, Given, Alerts

(* The gate swallows no alert but for an earlier answer: when the analysis *)
(* of a transaction runs through, every transfer that qualifies has been   *)
(* answered (AnalyzeTokenActivityFromTx, shouldNotifyPortfolioEvent).      *)
THEOREM QualifiedIsAnsweredHolds == AlertsSpec => QualifiedIsAnswered
<1>1. AlertsInit => AnswerInv
  BY InitGate DEF AlertsInit, AnswerInv, GateEarned, LookedAnswered
<1>2. AnswerInv /\ [AlertsNext]_analysis => GateEarned' /\ LookedAnswered'
  BY GateEarnedStep, LookedStep DEF AnswerInv, GateInv
<1>3. AnswerInv /\ [AlertsNext]_analysis
        => [RunsThrough => AllAnswered(LAMBDA t, p : Qualifies(t, Rule(p)))]_analysis
  BY RunsThroughAnswered DEF AllAnswered
<1> QED
  BY <1>1, <1>2, <1>3, GateInvariance, PTL
     DEF AlertsSpec, QualifiedIsAnswered, AnswerInv
=============================================================================
