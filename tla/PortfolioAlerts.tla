-------------------------- MODULE PortfolioAlerts --------------------------
(***************************************************************************)
(* scanner/token_activity_full.go, the last part of                        *)
(* AnalyzeTokenActivityFromTx: which transfers of a transaction become     *)
(* notifications of the portfolios that hold the token, and when the daily *)
(* report of a token is written.                                           *)
(*                                                                         *)
(* The block consumer runs it, one transaction at a time.  The gate        *)
(* (portfolioAlertGate) is in memory and set before the notification is    *)
(* inserted; portfolio_notifications is the table.  Every return err ends  *)
(* the analysis of the transaction where it stands, and nobody retries it. *)
(* SendTelegramAlert follows a successful insert and only logs when it     *)
(* fails, so a row stands for the message too.                             *)
(*                                                                         *)
(* Amounts are in thousands of US dollars and stand for the raw amounts of *)
(* a token without a price too; dominance is in percent.  One chain.       *)
(***************************************************************************)
EXTENDS Integers, Sequences, SequencesExt

CONSTANTS
  Portfolios,
  Holds,         \* the tokens each portfolio is subscribed to
  Profile,       \* the tracking profile of each portfolio
  ReportsOn,     \* portfolios with daily_report_enabled
  Transactions,  \* the lists of transfers a transaction may contain
  StrictMode,    \* sql_mode has STRICT_TRANS_TABLES, MySQL 8's default
  Cooldown,      \* alertCooldownWindow (15 minutes)
  KeepFor,       \* how long the gate remembers (48 hours)
  ReportWindow,  \* the first 10 minutes of a day
  DayLen,        \* 24 hours
  MaxDelay,      \* how far behind the clock the blocks analysed may be
  MaxTime,       \* bound: the clock
  MaxTxs,        \* bound: transactions analysed
  MaxFailures,   \* bound: database errors
  MaxRestarts    \* bound: restarts of the process

TransferType ==
  [token : STRING, exchange : BOOLEAN, priced : BOOLEAN, amount : Nat, avg : Nat, total : Nat]

ASSUME AlertsAssumption ==
  /\ Holds \in [Portfolios -> SUBSET STRING]
  /\ Profile \in [Portfolios -> {"quiet", "balanced", "aggressive"}]
  /\ Transactions \subseteq Seq(TransferType) \ {<<>>}
  /\ ReportsOn \subseteq Portfolios
  /\ StrictMode \in BOOLEAN
  /\ Cooldown \in Nat /\ KeepFor \in Nat /\ KeepFor >= Cooldown
  /\ DayLen \in Nat \ {0} /\ ReportWindow \in 1..DayLen
  /\ MaxDelay \in Nat /\ MaxTime \in Nat
  /\ MaxTxs \in Nat /\ MaxFailures \in Nat /\ MaxRestarts \in Nat

NoTx == [id |-> 0, transfers |-> <<>>, blockTime |-> 0, started |-> 0]

VARIABLES
  now,         \* time.Now()
  part,       \* "idle", or the part of the loop: "load", "alerts", "reports"
  tx, at,      \* the transaction under analysis and the index of its transfer
  subs,        \* subscriptions still to be looked at in this part
  lastByTx,    \* gate: when each (portfolio, transaction) was let through
  lastBySlot,  \* gate: when each (portfolio, token) was let through
  notes,       \* portfolio_notifications, in the order of insertion
  txs, failures, restarts,
  refused      \* history: alerts let through whose insert reported an error

loop == <<part, tx, at, subs>>
gate == <<lastByTx, lastBySlot>>
analysis == <<now, loop, gate, notes, txs, failures, restarts, refused>>

Transfer == tx.transfers[at]
Subscriptions(t) == {p \in Portfolios : t.token \in Holds[p]}

-----------------------------------------------------------------------------
(* trackingProfileDefaults. *)
ProfileRule(name) ==
  CASE name = "quiet"      -> [minUSD |-> 75, spike |-> 4, dominance |-> 20]
    [] name = "aggressive" -> [minUSD |-> 10, spike |-> 2, dominance |-> 10]
    [] OTHER               -> [minUSD |-> 25, spike |-> 3, dominance |-> 15]

(* effectivePortfolioRule: no threshold is below the defaults. *)
AtLeast(x, y) == IF x < y THEN y ELSE x
EffectiveRule(rule) ==
  [minUSD    |-> AtLeast(rule.minUSD, 25),
   spike     |-> AtLeast(rule.spike, 3),
   dominance |-> AtLeast(rule.dominance, 15)]

(* EvaluateAlertRule.  avg and total are the token's hourly average and    *)
(* its total of this hour, 0 when unknown.                                 *)
RuleMatches(t, rule) ==
  /\ t.priced => t.amount >= rule.minUSD
  /\ t.avg > 0 => t.amount > t.avg * rule.spike
  /\ t.total > 0 => 100 * t.amount > t.total * rule.dominance

Critical(t) == t.priced /\ t.amount >= 150

Qualifies(t, rule) == t.exchange /\ (Critical(t) \/ RuleMatches(t, rule))

(* The gate forgets what is older than KeepFor. *)
Fresh(f) == [k \in {j \in DOMAIN f : now - f[j] <= KeepFor} |-> f[k]]

Set(f, key) == [k \in DOMAIN f \union {key} |-> IF k = key THEN now ELSE f[k]]

(* Definitions marked "wrong" are slips this code might contain: each is   *)
(* put in the place of the definition after it, to see a property fail.    *)

(* Wrong: transactions are not remembered; the cooldown is one tick too    *)
(* long.                                                                   *)
GateOpenBySlot(p, t) ==
  ~Critical(t) /\ <<p, t.token>> \in DOMAIN Fresh(lastBySlot)
    => now - lastBySlot[<<p, t.token>>] >= Cooldown
GateOpenLate(p, t) ==
  /\ <<p, tx.id>> \notin DOMAIN Fresh(lastByTx)
  /\ ~Critical(t) /\ <<p, t.token>> \in DOMAIN Fresh(lastBySlot)
       => now - lastBySlot[<<p, t.token>>] > Cooldown

(* shouldNotifyPortfolioEvent lets the transfer through. *)
GateOpen(p, t) ==
  /\ <<p, tx.id>> \notin DOMAIN Fresh(lastByTx)
  /\ ~Critical(t) /\ <<p, t.token>> \in DOMAIN Fresh(lastBySlot)
       => now - lastBySlot[<<p, t.token>>] >= Cooldown

AlertsInit ==
  /\ now = 0
  /\ part = "idle" /\ tx = NoTx /\ at = 0 /\ subs = {}
  /\ lastByTx = <<>> /\ lastBySlot = <<>>
  /\ notes = <<>>
  /\ txs = 0 /\ failures = 0 /\ restarts = 0
  /\ refused = {}

-----------------------------------------------------------------------------
(* Time passes; the analysis of one transaction takes less than KeepFor. *)
Tick ==
  /\ now < MaxTime
  /\ tx # NoTx => now - tx.started < KeepFor
  /\ now' = now + 1
  /\ UNCHANGED <<loop, gate, notes, txs, failures, restarts, refused>>

(* The activity of a transaction is counted and its alerts are next. *)
Begin(transfers, delay) ==
  /\ part = "idle"
  /\ txs < MaxTxs
  /\ delay <= now
  /\ txs' = txs + 1
  /\ tx' = [id |-> txs + 1, transfers |-> transfers,
            blockTime |-> now - delay, started |-> now]
  /\ at' = 1 /\ part' = "load" /\ subs' = {}
  /\ UNCHANGED <<now, gate, notes, failures, restarts, refused>>

(* A transaction without transfers of tracked tokens: return nil. *)
NothingToDo == part = "idle" /\ UNCHANGED analysis

(* return err, or the end of the loop. *)
Return == part' = "idle" /\ tx' = NoTx /\ at' = 0 /\ subs' = {}

NextTransfer ==
  IF at < Len(tx.transfers)
  THEN part' = "load" /\ at' = at + 1 /\ subs' = {} /\ UNCHANGED tx
  ELSE Return

LoadSubs ==
  /\ part = "load"
  /\ IF Subscriptions(Transfer) = {}
     THEN NextTransfer
     ELSE /\ part' = "alerts" /\ subs' = Subscriptions(Transfer)
          /\ UNCHANGED <<tx, at>>
  /\ UNCHANGED <<now, gate, notes, txs, failures, restarts, refused>>

(* Subscriptions and hourly figures are loaded once for each token. *)
LoadSubsFails ==
  /\ part = "load"
  /\ \A i \in 1..(at - 1) : tx.transfers[i].token # Transfer.token
  /\ failures < MaxFailures
  /\ failures' = failures + 1
  /\ Return
  /\ UNCHANGED <<now, gate, notes, txs, restarts, refused>>

Rule(p) == EffectiveRule(ProfileRule(Profile[p]))

(* The transfer is of no interest to p, or the gate is closed.  A closed   *)
(* gate forgets its old entries, too.                                      *)
Pass(p) ==
  /\ part = "alerts" /\ p \in subs
  /\ \/ /\ ~Qualifies(Transfer, Rule(p))
        /\ UNCHANGED gate
     \/ /\ Qualifies(Transfer, Rule(p)) /\ ~GateOpen(p, Transfer)
        /\ lastByTx' = Fresh(lastByTx) /\ lastBySlot' = Fresh(lastBySlot)
  /\ subs' = subs \ {p}
  /\ UNCHANGED <<now, part, tx, at, notes, txs, failures, restarts, refused>>

(* The gate lets the transfer through and remembers it, whatever becomes   *)
(* of the insert.                                                          *)
LetThrough(p) ==
  /\ part = "alerts" /\ p \in subs
  /\ Qualifies(Transfer, Rule(p)) /\ GateOpen(p, Transfer)
  /\ lastByTx' = Set(Fresh(lastByTx), <<p, tx.id>>)
  /\ lastBySlot' = Set(Fresh(lastBySlot), <<p, Transfer.token>>)

EventNote(p) ==
  [kind |-> "EVENT", portfolio |-> p, token |-> Transfer.token, tx |-> tx.id,
   critical |-> Critical(Transfer), at |-> now, boot |-> restarts, day |-> 0]

Alert(p) ==
  /\ LetThrough(p)
  /\ notes' = Append(notes, EventNote(p))
  /\ subs' = subs \ {p}
  /\ UNCHANGED <<now, part, tx, at, txs, failures, restarts, refused>>

AlertFails(p) ==
  /\ LetThrough(p)
  /\ failures < MaxFailures
  /\ failures' = failures + 1
  /\ refused' = refused \union
       {[portfolio |-> p, token |-> Transfer.token, tx |-> tx.id, at |-> now]}
  /\ UNCHANGED notes \/ notes' = Append(notes, EventNote(p))
  /\ Return
  /\ UNCHANGED <<now, txs, restarts>>

-----------------------------------------------------------------------------
DayOf(t) == t \div DayLen
InReportWindow == tx.blockTime % DayLen < ReportWindow

(* The alerts of the transfer are done; daily reports are next. *)
ToReports ==
  /\ part = "alerts" /\ subs = {}
  /\ part' = "reports"
  /\ subs' = IF InReportWindow THEN Subscriptions(Transfer) \intersect ReportsOn ELSE {}
  /\ UNCHANGED <<now, tx, at, gate, notes, txs, failures, restarts, refused>>

ReportNote(p) ==
  [kind |-> "DAILY_REPORT", portfolio |-> p, token |-> Transfer.token, tx |-> 0,
   critical |-> FALSE, at |-> now, boot |-> restarts, day |-> DayOf(tx.blockTime)]

(* UNIQUE KEY uniq_daily_report; rows of events have no day_ts. *)
Duplicate(note) ==
  \E i \in DOMAIN notes :
    /\ notes[i].kind = "DAILY_REPORT"
    /\ notes[i].portfolio = note.portfolio /\ notes[i].token = note.token
    /\ notes[i].day = note.day

(* The insert names no tx_hash, block_time, direction or amount_raw, which *)
(* are NOT NULL without a default: in strict mode the server refuses it.   *)
Insertable(note) == ~StrictMode /\ ~Duplicate(note)

(* The last 24 hours were too quiet for a report. *)
TooQuiet(p) ==
  /\ part = "reports" /\ p \in subs
  /\ subs' = subs \ {p}
  /\ UNCHANGED <<now, part, tx, at, gate, notes, txs, failures, restarts, refused>>

Report(p) ==
  /\ part = "reports" /\ p \in subs
  /\ Insertable(ReportNote(p))
  /\ notes' = Append(notes, ReportNote(p))
  /\ subs' = subs \ {p}
  /\ UNCHANGED <<now, part, tx, at, gate, txs, failures, restarts, refused>>

(* The server refuses the row. *)
ReportRefused(p) ==
  /\ part = "reports" /\ p \in subs
  /\ ~Insertable(ReportNote(p))
  /\ Return
  /\ UNCHANGED <<now, gate, notes, txs, failures, restarts, refused>>

(* A query of the report or its insert is not answered; after an insert    *)
(* the row may be there.                                                   *)
ReportFails(p) ==
  /\ part = "reports" /\ p \in subs
  /\ failures < MaxFailures
  /\ failures' = failures + 1
  /\ \/ UNCHANGED notes
     \/ Insertable(ReportNote(p)) /\ notes' = Append(notes, ReportNote(p))
  /\ Return
  /\ UNCHANGED <<now, gate, txs, restarts, refused>>

ReportsDone ==
  /\ part = "reports" /\ subs = {}
  /\ NextTransfer
  /\ UNCHANGED <<now, gate, notes, txs, failures, restarts, refused>>

(* A restart empties the gate and drops the transaction under analysis. *)
AlertsRestart ==
  /\ restarts < MaxRestarts
  /\ restarts' = restarts + 1
  /\ lastByTx' = <<>> /\ lastBySlot' = <<>>
  /\ Return
  /\ UNCHANGED <<now, notes, txs, failures, refused>>

AlertsNext ==
  \/ Tick
  \/ \E transfers \in Transactions, delay \in 0..MaxDelay : Begin(transfers, delay)
  \/ NothingToDo \/ LoadSubs \/ LoadSubsFails \/ ToReports \/ ReportsDone
  \/ \E p \in Portfolios :
       \/ Pass(p) \/ Alert(p) \/ AlertFails(p)
       \/ TooQuiet(p) \/ Report(p) \/ ReportRefused(p) \/ ReportFails(p)
  \/ AlertsRestart

AlertsSpec == AlertsInit /\ [][AlertsNext]_analysis

-----------------------------------------------------------------------------
HeldTokens == UNION {Holds[p] : p \in Portfolios}

LoopType ==
  /\ now \in 0..MaxTime
  /\ part \in {"idle", "load", "alerts", "reports"}
  /\ part = "idle" <=> tx = NoTx
  /\ tx # NoTx => /\ tx \in [id : 1..MaxTxs, transfers : Transactions,
                             blockTime : Nat, started : Nat]
                  /\ at \in DOMAIN tx.transfers
  /\ subs \subseteq Portfolios
  /\ txs \in 0..MaxTxs /\ failures \in 0..MaxFailures /\ restarts \in 0..MaxRestarts

GateType ==
  /\ DOMAIN lastByTx \subseteq Portfolios \X (1..MaxTxs)
  /\ DOMAIN lastBySlot \subseteq Portfolios \X HeldTokens
  /\ \A k \in DOMAIN lastByTx : lastByTx[k] \in 0..now
  /\ \A k \in DOMAIN lastBySlot : lastBySlot[k] \in 0..now

Note == [kind : {"EVENT", "DAILY_REPORT"}, portfolio : Portfolios, token : HeldTokens,
         tx : 0..MaxTxs, critical : BOOLEAN, at : 0..MaxTime, boot : 0..MaxRestarts,
         day : Nat]

AlertsTypeOK == LoopType /\ GateType /\ notes \in Seq(Note)

Alerts == {i \in DOMAIN notes : notes[i].kind = "EVENT"}

(* A portfolio is notified of a transaction once at most, however many of  *)
(* its transfers qualify and of however many tokens.                       *)
OneAlertPerTx ==
  \A i, j \in Alerts :
    notes[i].portfolio = notes[j].portfolio /\ notes[i].tx = notes[j].tx => i = j

(* Within one run of the process an alert that is not critical comes at    *)
(* least a cooldown after the portfolio's previous alert on the token.     *)
AlertsSpaced ==
  \A i, j \in Alerts :
    /\ i < j
    /\ notes[i].portfolio = notes[j].portfolio /\ notes[i].token = notes[j].token
    /\ notes[i].boot = notes[j].boot
    /\ ~notes[j].critical
    => notes[j].at - notes[i].at >= Cooldown

(* The transaction under analysis is the latest, no older than what the    *)
(* gate remembers, and its subscriptions hold the token.                   *)
TxCurrent ==
  /\ tx # NoTx => tx.id = txs /\ tx.started <= now /\ now - tx.started <= KeepFor
  /\ part \in {"alerts", "reports"} => subs \subseteq Subscriptions(Transfer)

(* Alerts are of the past, and the gate remembers those of the transaction *)
(* under analysis and those on a token for as long as the cooldown needs.  *)
GateRemembers ==
  \A i \in Alerts :
    /\ notes[i].tx \in 1..txs /\ notes[i].at <= now /\ notes[i].boot <= restarts
    /\ tx # NoTx /\ notes[i].tx = tx.id
         => /\ <<notes[i].portfolio, tx.id>> \in DOMAIN lastByTx
            /\ lastByTx[<<notes[i].portfolio, tx.id>>] >= tx.started
    /\ notes[i].boot = restarts
         => \/ now - notes[i].at > KeepFor
            \/ /\ <<notes[i].portfolio, notes[i].token>> \in DOMAIN lastBySlot
               /\ lastBySlot[<<notes[i].portfolio, notes[i].token>>] >= notes[i].at

(* Types, and what the gate lets through in one run of the process and     *)
(* across them; with what the gate remembers, an inductive invariant.      *)
GateInv == AlertsTypeOK /\ TxCurrent /\ GateRemembers /\ OneAlertPerTx /\ AlertsSpaced

(* What may stand for an alert of p on transfer t of transaction x: one    *)
(* for the same transaction, one on the token less than a cooldown before  *)
(* x, or either of them that was let through and met a database error.     *)
Answers(m, p, t, x) ==
  /\ m.portfolio = p
  /\ m.tx = x.id \/ (m.token = t.token /\ m.at > x.started - Cooldown)

Answered(p, t, x) ==
  \/ \E i \in DOMAIN notes' : notes'[i].kind = "EVENT" /\ Answers(notes'[i], p, t, x)
  \/ \E r \in refused' : Answers(r, p, t, x)

(* The analysis of the transaction ends, and not because the database did  *)
(* not answer or the process died ...                                      *)
Finishes ==
  tx # NoTx /\ tx' = NoTx /\ failures' = failures /\ restarts' = restarts

(* ... nor because the server refused a daily report.                      *)
RunsThrough == Finishes /\ (part = "reports" => subs = {})

(* Every transfer of the transaction that wants has been answered for      *)
(* every subscribed portfolio.                                             *)
AllAnswered(wants(_, _)) ==
  \A i \in DOMAIN tx.transfers :
    \A p \in Subscriptions(tx.transfers[i]) :
      wants(tx.transfers[i], p) => Answered(p, tx.transfers[i], tx)

(* When the analysis of a transaction runs through, every transfer that    *)
(* qualifies has been answered for every subscribed portfolio: the gate    *)
(* swallows no alert but for an earlier answer, not for a transfer that    *)
(* was passed over, not across a restart.                                  *)
QualifiedIsAnswered ==
  [][RunsThrough => AllAnswered(LAMBDA t, p : Qualifies(t, Rule(p)))]_analysis

(* "Sent once a day on token+portfolio": a report that was due is in the   *)
(* table when its transaction is done, unless the database did not answer. *)
DueReportWritten ==
  [][\A p \in subs :
       part = "reports" /\ Finishes
       => \E i \in DOMAIN notes' :
            /\ notes'[i].kind = "DAILY_REPORT" /\ notes'[i].portfolio = p
            /\ notes'[i].token = Transfer.token
            /\ notes'[i].day = DayOf(tx.blockTime)]_analysis
=============================================================================
