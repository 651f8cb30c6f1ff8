--------------------------- MODULE TransferWriter ---------------------------
(***************************************************************************)
(* scanner/token_activity_full.go and main.go: what happens to the         *)
(* transfers of tracked tokens found in one transaction.                   *)
(*                                                                         *)
(* The block consumer (AnalyzeTokenActivityFromTx) sends the transfers, as *)
(* one slice, on tokenEventChan and then adds them to the row of their     *)
(* hour in token_hourly_activity.  The writer goroutine                    *)
(* (StartTokenEventWriter) gathers slices in pending and inserts them into *)
(* token_transfer_events in batches, retrying a failed insert for ever.    *)
(* An error from the database does not say whether the statement took      *)
(* effect: its reply may be what was lost.                                 *)
(*                                                                         *)
(* The model has one tracked token on one chain: rows of other tokens and  *)
(* chains are other rows.  A transaction without tracked transfers, and    *)
(* one whose tracked tokens cannot be loaded, leaves no trace here.        *)
(***************************************************************************)
EXTENDS Integers, Sequences, FiniteSets, SequencesExt

CONSTANTS
  Hours,         \* hour_ts of the blocks
  ChanCap,       \* capacity of tokenEventChan (1024)
  BatchLimit,    \* rows inserted at a time (120)
  FlushAt,       \* len(pending) that forces a flush (3 * batchLimit)
  MaxTransfers,  \* bound: tracked transfers in one transaction
  MaxEvents,     \* bound: transfers in one behaviour
  MaxDoubtful,   \* bound: inserts that take effect and report an error
  MaxErrors,     \* bound: upserts that report an error
  MaxRestarts    \* bound: restarts of the process

ASSUME WriterAssumption ==
  /\ ChanCap \in Nat \ {0}
  /\ BatchLimit \in Nat \ {0}
  /\ FlushAt \in Nat /\ FlushAt > BatchLimit
  /\ MaxTransfers \in Nat \ {0}
  /\ MaxEvents \in Nat
  /\ MaxDoubtful \in Nat /\ MaxErrors \in Nat /\ MaxRestarts \in Nat

Event == [id : 1..MaxEvents, hour : Hours]

VARIABLES
  stage,      \* the consumer: "idle", "send" or "upsert"
  current,    \* events, the slice it is working on
  chan,       \* tokenEventChan
  pending,    \* the writer's pending
  flushing,   \* rows of the insert under way, 0 when there is none
  table,      \* token_transfer_events, in the order of insertion
  activity,   \* transfer_count of each hour in token_hourly_activity
  made,       \* history: transfers found so far
  sent,       \* history: transfers sent on the channel, in order
  lost,       \* history: sent transfers a crash wiped from memory
  surplus,    \* history: by how much the slices received since pending was last
              \* short of a forced flush exceed a batch each
  doubtful,   \* inserts that took effect and reported an error
  errors,     \* upserts that reported an error
  restarts

consumer == <<stage, current>>
writer   == <<pending, flushing, table, doubtful, surplus>>
totals   == <<activity, errors>>
history  == <<made, sent, lost>>
vars     == <<consumer, chan, writer, totals, history, restarts>>

CountOf(s, h) == Cardinality({i \in DOMAIN s : s[i].hour = h})

Init ==
  /\ stage = "idle" /\ current = <<>>
  /\ chan = <<>>
  /\ pending = <<>> /\ flushing = 0 /\ table = <<>> /\ doubtful = 0
  /\ surplus = 0
  /\ activity = [h \in Hours |-> 0] /\ errors = 0
  /\ made = 0 /\ sent = <<>> /\ lost = {}
  /\ restarts = 0

-----------------------------------------------------------------------------
(* The consumer finds n tracked transfers in a transaction of hour h. *)
Analyze(n, h) ==
  /\ stage = "idle"
  /\ made + n <= MaxEvents
  /\ current' = [i \in 1..n |-> [id |-> made + i, hour |-> h]]
  /\ made' = made + n
  /\ stage' = "send"
  /\ UNCHANGED <<chan, writer, totals, sent, lost, restarts>>

(* Definitions marked "wrong" are slips this code might contain: each is   *)
(* put in the place of the definition after it, to see a property fail.    *)

(* Wrong: one place of the channel stays free. *)
SendEventsSparing ==
  /\ stage = "send"
  /\ Len(chan) + 1 < ChanCap
  /\ chan' = Append(chan, current)
  /\ sent' = sent \o current
  /\ stage' = "upsert"
  /\ UNCHANGED <<current, writer, totals, made, lost, restarts>>

(* tokenEventChan <- events: waits while the channel is full. *)
SendEvents ==
  /\ stage = "send"
  /\ Len(chan) < ChanCap
  /\ chan' = Append(chan, current)
  /\ sent' = sent \o current
  /\ stage' = "upsert"
  /\ UNCHANGED <<current, writer, totals, made, lost, restarts>>

(* What DB_UpsertTokenHourlyActivity adds to the rows of the hours. *)
AddActivity ==
  activity' = [h \in Hours |-> activity[h] + CountOf(current, h)]

UpsertOk ==
  /\ stage = "upsert"
  /\ AddActivity
  /\ stage' = "idle" /\ current' = <<>>
  /\ UNCHANGED <<chan, writer, errors, history, restarts>>

(* Wrong: an upsert that reported an error is tried again. *)
UpsertRetried ==
  /\ stage = "upsert"
  /\ errors < MaxErrors
  /\ errors' = errors + 1
  /\ UNCHANGED activity \/ AddActivity
  /\ UNCHANGED <<consumer, chan, writer, history, restarts>>

(* The upsert reports an error: the consumer returns, and nobody tries it  *)
(* again.                                                                  *)
UpsertFails ==
  /\ stage = "upsert"
  /\ errors < MaxErrors
  /\ errors' = errors + 1
  /\ UNCHANGED activity \/ AddActivity
  /\ stage' = "idle" /\ current' = <<>>
  /\ UNCHANGED <<chan, writer, history, restarts>>

-----------------------------------------------------------------------------
(* Wrong: no forced flush. *)
ReceiveOnly ==
  /\ flushing = 0
  /\ chan # <<>>
  /\ pending' = pending \o Head(chan)
  /\ chan' = Tail(chan)
  /\ UNCHANGED <<consumer, flushing, table, doubtful, surplus, totals, history, restarts>>

(* By how much the next slice is longer than a batch. *)
Oversize == IF Len(Head(chan)) > BatchLimit THEN Len(Head(chan)) - BatchLimit ELSE 0

(* The writer's select receives a slice; enough of them force a flush. *)
Receive ==
  /\ flushing = 0
  /\ chan # <<>>
  /\ pending' = pending \o Head(chan)
  /\ chan' = Tail(chan)
  /\ flushing' = IF Len(pending') >= FlushAt THEN BatchLimit ELSE 0
  /\ surplus' = IF Len(pending') >= FlushAt THEN surplus + Oversize ELSE 0
  /\ UNCHANGED <<consumer, table, doubtful, totals, history, restarts>>

(* Wrong: only full batches are written. *)
FlushTickFull ==
  /\ flushing = 0
  /\ flushing' = IF Len(pending) < BatchLimit THEN 0 ELSE BatchLimit
  /\ UNCHANGED <<consumer, chan, pending, table, doubtful, surplus, totals, history, restarts>>

(* The ticker fires: flushOne(batchLimit), which does nothing while        *)
(* pending is empty.                                                       *)
FlushTick ==
  /\ flushing = 0
  /\ flushing' = IF Len(pending) < BatchLimit THEN Len(pending) ELSE BatchLimit
  /\ UNCHANGED <<consumer, chan, pending, table, doubtful, surplus, totals, history, restarts>>

(* The batch flushOne inserts: the oldest of the pending rows. *)
Batch == SubSeq(pending, 1, flushing)

InsertOk ==
  /\ flushing > 0
  /\ table' = table \o Batch
  /\ pending' = SubSeq(pending, flushing + 1, Len(pending))
  /\ flushing' = 0
  /\ surplus' = IF Len(pending') >= FlushAt THEN surplus ELSE 0
  /\ UNCHANGED <<consumer, chan, doubtful, totals, history, restarts>>

(* Wrong: the rows of a failed insert are given up. *)
InsertFailsDropping ==
  /\ flushing > 0
  /\ pending' = SubSeq(pending, flushing + 1, Len(pending))
  /\ flushing' = 0
  /\ UNCHANGED <<consumer, chan, table, doubtful, surplus, totals, history, restarts>>

(* Wrong: flushOne returns, and the next flush takes the rows again, with  *)
(* what has come in meanwhile.                                             *)
InsertFailsReturning ==
  /\ flushing > 0
  /\ flushing' = 0
  /\ \/ /\ UNCHANGED <<table, doubtful>>
     \/ /\ doubtful < MaxDoubtful
        /\ doubtful' = doubtful + 1
        /\ table' = table \o Batch
  /\ UNCHANGED <<consumer, chan, pending, surplus, totals, history, restarts>>

(* The insert reports an error: flushOne sleeps and tries the same rows    *)
(* again.  When only the reply was lost they are in the table already.     *)
InsertFails ==
  /\ flushing > 0
  /\ \/ /\ UNCHANGED <<table, doubtful>>
     \/ /\ doubtful < MaxDoubtful
        /\ doubtful' = doubtful + 1
        /\ table' = table \o Batch
  /\ UNCHANGED <<consumer, chan, pending, flushing, surplus, totals, history, restarts>>

(* The transfers in the channel. *)
InChan == UNION {ToSet(chan[i]) : i \in DOMAIN chan}

(* The process dies and starts again: the tables are all that is left. *)
Restart ==
  /\ restarts < MaxRestarts
  /\ restarts' = restarts + 1
  /\ lost' = lost \union ToSet(pending) \union InChan
  /\ stage' = "idle" /\ current' = <<>>
  /\ chan' = <<>> /\ pending' = <<>> /\ flushing' = 0 /\ surplus' = 0
  /\ UNCHANGED <<table, doubtful, totals, made, sent>>

Next ==
  \/ \E n \in 1..MaxTransfers, h \in Hours : Analyze(n, h)
  \/ SendEvents \/ UpsertOk \/ UpsertFails
  \/ Receive \/ FlushTick \/ InsertOk \/ InsertFails
  \/ Restart

(* The goroutines are scheduled; select takes a ready case at random, so   *)
(* neither the channel nor the ticker is passed over for ever; a database  *)
(* that is retried for ever answers some day.                              *)
Fairness ==
  /\ WF_vars(SendEvents)
  /\ WF_vars(UpsertOk \/ UpsertFails)
  /\ SF_vars(Receive)
  /\ SF_vars(FlushTick)
  /\ SF_vars(InsertOk)

Spec == Init /\ [][Next]_vars /\ Fairness

-----------------------------------------------------------------------------
TypeOK ==
  /\ stage \in {"idle", "send", "upsert"}
  /\ current \in Seq(Event) /\ Len(current) <= MaxTransfers
  /\ chan \in Seq(Seq(Event)) /\ Len(chan) <= ChanCap
  /\ \A k \in DOMAIN chan : Len(chan[k]) <= MaxTransfers
  /\ pending \in Seq(Event)
  /\ flushing \in 0..BatchLimit /\ flushing <= Len(pending)
  /\ table \in Seq(Event)
  /\ activity \in [Hours -> Nat]
  /\ made \in 0..MaxEvents
  /\ sent \in Seq(Event)
  /\ lost \subseteq Event
  /\ surplus \in Nat
  /\ doubtful \in 0..MaxDoubtful
  /\ errors \in 0..MaxErrors
  /\ restarts \in 0..MaxRestarts

Ascending(s) == \A i, j \in DOMAIN s : i < j => s[i].id < s[j].id
Before(S, T) == \A x \in S, y \in T : x.id < y.id

(* What the writer holds is the oldest of what is on its way, in order,    *)
(* then come the slices of the channel, then what is about to be sent.     *)
TransitOrdered ==
  /\ Ascending(pending) /\ Ascending(current)
  /\ \A k \in DOMAIN chan : Ascending(chan[k])
  /\ \A k, l \in DOMAIN chan : k < l => Before(ToSet(chan[k]), ToSet(chan[l]))
  /\ Before(ToSet(table) \union ToSet(pending), InChan)
  /\ stage = "send" => Before(ToSet(table) \union ToSet(pending) \union InChan, ToSet(current))
  /\ \A x \in ToSet(table) \union ToSet(pending) \union InChan \union ToSet(current) :
       x.id <= made

(* The insert under way has taken effect before, and reported an error. *)
Redone == flushing > 0 /\ ToSet(Batch) \subseteq ToSet(table)

(* The table is older than what the writer holds, but for a batch that is  *)
(* inserted again; then it ends where the batch ends.                      *)
TableOlder ==
  \/ Before(ToSet(table), ToSet(pending))
  \/ Redone /\ \A x \in ToSet(table) : x.id <= pending[flushing].id

(* Before the writer takes the next slice it is back below the forced      *)
(* flush, but for what slices longer than a batch have brought: each of    *)
(* them adds more than its flush removes, and the code sets no limit to    *)
(* them.  A failing database adds nothing, nor do any number of slices     *)
(* within a batch.                                                         *)
PendingBounded ==
  /\ flushing > 0 => flushing = BatchLimit \/ flushing = Len(pending)
  /\ Len(pending) < FlushAt + surplus + flushing

(* Types, what the writer's memory holds, and in which order; an inductive *)
(* invariant.                                                              *)
WriterInv == TypeOK /\ PendingBounded /\ TransitOrdered /\ TableOlder

(* Between the consumer and the table no transfer is dropped, whatever     *)
(* the inserts report and however full channel and pending are: each one   *)
(* sent is stored, on its way, or was in memory when the process died.     *)
NothingDropped ==
  ToSet(sent) = ToSet(table) \union ToSet(pending) \union InChan \union lost

(* Transfers are stored in the order they were found: a row that is new to *)
(* the table is younger than every row before it.                          *)
StoredInOrder ==
  \A j \in DOMAIN table :
    (\A i \in 1..(j-1) : table[i].id # table[j].id)
      => \A i \in 1..(j-1) : table[i].id < table[j].id

(* A transfer is stored twice only because an insert that reported an      *)
(* error had taken effect: each such insert costs a batch at most, once it *)
(* is done again, and a restart, a flush from a full pending or a partial  *)
(* batch costs none.                                                       *)
DuplicatesAccounted ==
  Len(table) - Cardinality(ToSet(table)) + (IF Redone THEN BatchLimit ELSE 0)
    <= doubtful * BatchLimit

(* What is sent is stored, in its order, and again only where the reply of *)
(* an insert was lost.                                                     *)
StoredAsSent == NothingDropped /\ StoredInOrder /\ DuplicatesAccounted

(* The pipeline is a log that is written in order and at least once: its   *)
(* channel, batches and timers cannot be observed in the table, and what   *)
(* is repeated is one batch, all of it and before anything younger.        *)
Log == INSTANCE AtLeastOnceLog WITH
  Limit <- BatchLimit,
  accepted <- ToSet(sent), waiting <- ToSet(pending) \union InChan,
  log <- table, again <- IF Redone THEN ToSet(Batch) ELSE {},
  faults <- doubtful + restarts

ImplementsLog == Log!Spec

(* token_hourly_activity counts no transfer twice, and misses one only     *)
(* when its upsert failed or the process died before it.                   *)
ActivityMatchesSent ==
  \A h \in Hours :
    /\ activity[h] <= CountOf(sent, h)
    /\ errors = 0 /\ restarts = 0 /\ stage # "upsert"
         => activity[h] = CountOf(sent, h)

(* Every transfer sent on the channel is eventually stored (unless the     *)
(* process dies), the last ones of a quiet period too.                     *)
EventuallyStored ==
  \A id \in 1..MaxEvents :
    (\E i \in DOMAIN sent : sent[i].id = id)
      ~> ((\E i \in DOMAIN table : table[i].id = id) \/ restarts > 0)

(* A consumer that waits for a place in the channel gets on eventually: a  *)
(* failing database holds the block consumer, and through it the pollers,  *)
(* up but not for ever.  (BlockIngest's fairness of Process relies on it.) *)
AnalysisResumes == (stage = "send") ~> (stage # "send")
=============================================================================
