---------------------------- MODULE BlockIngest ----------------------------
(***************************************************************************)
(* scanner/main.go: how blocks reach the analytics.  One poller per chain  *)
(* (RunActiveAnalytics -> pollLoop) walks block numbers upwards and sends  *)
(* each block on the chain's own bounded channel; a single consumer        *)
(* goroutine selects over the channels and runs ProcessBlockAnalytics.     *)
(*                                                                         *)
(* The three clients are dialled over https, where SubscribeNewHead always *)
(* fails, so RunActiveAnalytics is pollLoop here.  All of the progress is  *)
(* in memory: a restart forgets it and adopts the head it then sees.       *)
(***************************************************************************)
EXTENDS Integers, Sequences, FiniteSets, SequencesExt

CONSTANTS
  Chains,            \* the chains scanned
  ChanCap,           \* capacity of a chain's channel (64)
  MaxFetchFailures,  \* maxBlockFetchFailures (3)
  Lag,               \* how far behind the head an RPC node may answer
  MaxBlock,          \* bound: height of the last block
  MaxRestarts        \* bound: restarts of the process

ASSUME IngestAssumption ==
  /\ Chains # {} /\ "none" \notin Chains
  /\ ChanCap \in Nat \ {0}
  /\ MaxFetchFailures \in Nat \ {0}
  /\ Lag \in Nat /\ MaxBlock \in Nat \ {0} /\ MaxRestarts \in Nat

Blocks == 1..MaxBlock
Idle == [chain |-> "none", block |-> 0]

VARIABLES
  head,       \* height of each chain
  last,       \* pollLoop's last: the last block sent or skipped, 0 at start
  upto,       \* latest of the pass under way, 0 while waiting for the ticker
  fetched,    \* block last+1 has been fetched and waits to be sent
  failures,   \* pollLoop's blockFetchFailures
  queue,      \* the channels
  busy,       \* the block the consumer is processing
  restarts,
  base,       \* history: the head adopted at start, 0 before
  processed,  \* history: blocks this process has processed, in order
  skipped,    \* history: blocks this process has given up
  tries,      \* history: failed fetches of each block
  earlier     \* history: blocks processed before the latest restart

poller   == <<last, upto, fetched, failures>>
history  == <<base, processed, skipped, tries, earlier>>
vars     == <<head, poller, queue, busy, restarts, history>>

Init ==
  /\ head \in [Chains -> {1}]
  /\ last = [c \in Chains |-> 0]
  /\ upto = [c \in Chains |-> 0]
  /\ fetched = [c \in Chains |-> FALSE]
  /\ failures = [c \in Chains |-> [n \in Blocks |-> 0]]
  /\ queue = [c \in Chains |-> <<>>]
  /\ busy = Idle
  /\ restarts = 0
  /\ base = [c \in Chains |-> 0]
  /\ processed = [c \in Chains |-> <<>>]
  /\ skipped = [c \in Chains |-> {}]
  /\ tries = [c \in Chains |-> [n \in Blocks |-> 0]]
  /\ earlier = [c \in Chains |-> {}]

-----------------------------------------------------------------------------
(* The chain grows. *)
Produce(c) ==
  /\ head[c] < MaxBlock
  /\ head' = [head EXCEPT ![c] = @ + 1]
  /\ UNCHANGED <<poller, queue, busy, restarts, history>>

(* Definitions marked "wrong" are slips this code might contain: each is   *)
(* put in the place of the definition after it, to see a property fail.    *)

(* The block a new poller takes for done: the first answer only sets last, *)
(* and the block itself is not fetched.                                    *)
StartAt(latest) == latest

(* Wrong: a pass begins only when two blocks are new. *)
BehindByTwo(c, latest) == latest > last[c] + 1

Behind(c, latest) == latest > last[c]

(* The ticker fires and HeaderByNumber answers latest.  (A failed query    *)
(* changes nothing.)                                                       *)
PollHead(c, latest) ==
  /\ upto[c] = 0
  /\ latest \in 1..head[c] /\ latest >= head[c] - Lag
  /\ \/ /\ last[c] = 0
        /\ last' = [last EXCEPT ![c] = StartAt(latest)]
        /\ base' = [base EXCEPT ![c] = StartAt(latest)]
        /\ UNCHANGED upto
     \/ /\ last[c] # 0 /\ Behind(c, latest)
        /\ upto' = [upto EXCEPT ![c] = latest]
        /\ UNCHANGED <<last, base>>
     \/ /\ last[c] # 0 /\ ~Behind(c, latest)
        /\ UNCHANGED <<last, upto, base>>
  /\ UNCHANGED <<head, fetched, failures, queue, busy, restarts,
                 processed, skipped, tries, earlier>>

(* The for loop moves past last+1: on to the next block, or the pass ends. *)
StepOver(c) ==
  /\ last' = [last EXCEPT ![c] = @ + 1]
  /\ upto' = [upto EXCEPT ![c] = IF last[c] + 1 = @ THEN 0 ELSE @]

Fetching(c) == upto[c] # 0 /\ ~fetched[c]

FetchOk(c) ==
  /\ Fetching(c)
  /\ fetched' = [fetched EXCEPT ![c] = TRUE]
  /\ failures' = [failures EXCEPT ![c][last[c] + 1] = 0]
  /\ UNCHANGED <<head, last, upto, queue, busy, restarts, history>>

(* Wrong: one failure fewer. *)
GiveUpEarly(failed) == failed >= MaxFetchFailures - 1
GiveUp(failed) == failed >= MaxFetchFailures

(* BlockByNumber fails: leave the pass and come back to the block on the   *)
(* next tick, or give it up when it has failed often enough.               *)
FetchFails(c) ==
  LET n == last[c] + 1
      failed == failures[c][n] + 1
  IN /\ Fetching(c)
     /\ tries' = [tries EXCEPT ![c][n] = @ + 1]
     /\ \/ /\ ~GiveUp(failed)
           /\ failures' = [failures EXCEPT ![c][n] = failed]
           /\ upto' = [upto EXCEPT ![c] = 0]
           /\ UNCHANGED <<last, skipped>>
        \/ /\ GiveUp(failed)
           /\ failures' = [failures EXCEPT ![c][n] = 0]
           /\ skipped' = [skipped EXCEPT ![c] = @ \union {n}]
           /\ StepOver(c)
     /\ UNCHANGED <<head, fetched, queue, busy, restarts, base, processed, earlier>>

(* Wrong: a block for which the channel has no room is dropped. *)
SendOrDrop(c) ==
  /\ fetched[c]
  /\ queue' = IF Len(queue[c]) < ChanCap
              THEN [queue EXCEPT ![c] = Append(@, last[c] + 1)] ELSE queue
  /\ fetched' = [fetched EXCEPT ![c] = FALSE]
  /\ StepOver(c)
  /\ UNCHANGED <<head, failures, busy, restarts, history>>

(* The send blocks while the channel is full; last moves only after it. *)
Send(c) ==
  /\ fetched[c]
  /\ Len(queue[c]) < ChanCap
  /\ queue' = [queue EXCEPT ![c] = Append(@, last[c] + 1)]
  /\ fetched' = [fetched EXCEPT ![c] = FALSE]
  /\ StepOver(c)
  /\ UNCHANGED <<head, failures, busy, restarts, history>>

(* The consumer's select receives from a channel that has a block ... *)
Receive(c) ==
  /\ busy = Idle
  /\ queue[c] # <<>>
  /\ busy' = [chain |-> c, block |-> Head(queue[c])]
  /\ queue' = [queue EXCEPT ![c] = Tail(@)]
  /\ UNCHANGED <<head, poller, restarts, history>>

(* ... and ProcessBlockAnalytics returns. *)
Process ==
  /\ busy # Idle
  /\ processed' = [processed EXCEPT ![busy.chain] = Append(@, busy.block)]
  /\ busy' = Idle
  /\ UNCHANGED <<head, poller, queue, restarts, base, skipped, tries, earlier>>

(* The process dies and is started again; a block half processed counts as *)
(* processed, for its first transactions were.                             *)
Restart ==
  /\ restarts < MaxRestarts
  /\ restarts' = restarts + 1
  /\ last' = [c \in Chains |-> 0]
  /\ upto' = [c \in Chains |-> 0]
  /\ fetched' = [c \in Chains |-> FALSE]
  /\ failures' = [c \in Chains |-> [n \in Blocks |-> 0]]
  /\ queue' = [c \in Chains |-> <<>>]
  /\ busy' = Idle
  /\ base' = [c \in Chains |-> 0]
  /\ processed' = [c \in Chains |-> <<>>]
  /\ skipped' = [c \in Chains |-> {}]
  /\ tries' = [c \in Chains |-> [n \in Blocks |-> 0]]
  /\ earlier' = [c \in Chains |-> earlier[c] \union ToSet(processed[c])
                     \union (IF busy.chain = c THEN {busy.block} ELSE {})]
  /\ UNCHANGED head

Next ==
  \/ \E c \in Chains :
       \/ Produce(c)
       \/ \E latest \in Blocks : PollHead(c, latest)
       \/ FetchOk(c) \/ FetchFails(c) \/ Send(c) \/ Receive(c)
  \/ Process
  \/ Restart

(* The ticker keeps firing and the gateway's answers are not behind the    *)
(* head for ever; every RPC call returns; Go's select picks among the      *)
(* ready channels at random, so it does not pass one over for ever; and    *)
(* ProcessBlockAnalytics returns.                                          *)
Fairness ==
  /\ \A c \in Chains :
       /\ SF_vars(\E latest \in Blocks : latest = head[c] /\ PollHead(c, latest))
       /\ WF_vars(FetchOk(c) \/ FetchFails(c))
       /\ WF_vars(Send(c))
       /\ SF_vars(Receive(c))
  /\ WF_vars(Process)

Spec == Init /\ [][Next]_vars /\ Fairness

-----------------------------------------------------------------------------
PollersType ==
  /\ head \in [Chains -> Blocks]
  /\ last \in [Chains -> 0..MaxBlock] /\ upto \in [Chains -> 0..MaxBlock]
  /\ fetched \in [Chains -> BOOLEAN]
  /\ base \in [Chains -> 0..MaxBlock]

CountsType ==
  /\ failures \in [Chains -> [Blocks -> 0..(MaxFetchFailures - 1)]]
  /\ tries \in [Chains -> [Blocks -> Nat]]

QueuesType ==
  /\ queue \in [Chains -> Seq(Blocks)]
  /\ busy \in [chain : Chains, block : Blocks] \union {Idle}
  /\ processed \in [Chains -> Seq(Blocks)]

PastType ==
  /\ restarts \in 0..MaxRestarts
  /\ skipped \in [Chains -> SUBSET Blocks] /\ earlier \in [Chains -> SUBSET Blocks]

TypeOK == PollersType /\ CountsType /\ QueuesType /\ PastType

(* Every block of chain c that left the poller, oldest first. *)
Flow(c) ==
  processed[c] \o (IF busy.chain = c THEN <<busy.block>> ELSE <<>>) \o queue[c]

(* Between pollLoop, the channel and the consumer no block is lost,        *)
(* repeated or overtaken: what has left the poller is in ascending order   *)
(* and, with the blocks given up, is everything from the adopted head to   *)
(* last.                                                                   *)
NothingLostInside ==
  \A c \in Chains :
    /\ \A i, j \in 1..Len(Flow(c)) : i < j => Flow(c)[i] < Flow(c)[j]
    /\ ToSet(Flow(c)) \intersect skipped[c] = {}
    /\ ToSet(Flow(c)) \union skipped[c] = (base[c] + 1)..last[c]

(* pollLoop gives a block up only after it could not be fetched            *)
(* MaxFetchFailures times: a full channel, a head that is behind or an     *)
(* interrupted pass never costs a block.                                   *)
SkippedOnlyAfterFailures ==
  \A c \in Chains : \A n \in skipped[c] : tries[c][n] >= MaxFetchFailures

(* No failure is counted that did not happen. *)
FailuresHappened ==
  \A c \in Chains : \A n \in Blocks : failures[c][n] <= tries[c][n]

(* A poller stands between the head it adopted and the head it goes to; it *)
(* holds a block only within a pass.                                       *)
PollerOK ==
  \A c \in Chains :
    /\ base[c] <= last[c] /\ last[c] <= head[c]
    /\ last[c] = 0 <=> base[c] = 0
    /\ upto[c] # 0 => base[c] # 0 /\ last[c] < upto[c] /\ upto[c] <= head[c]
    /\ fetched[c] => upto[c] # 0

(* What an earlier process has processed is behind the head, and beyond    *)
(* the head adopted since by no more than the lag of an answer.            *)
EarlierBehind ==
  \A c \in Chains : \A n \in earlier[c] :
    n <= head[c] /\ (base[c] # 0 => n <= base[c] + Lag)

(* A restarted process processes again, and counts twice in                *)
(* token_hourly_activity, at most the blocks by which the head it adopts   *)
(* lags behind; whatever else was sent or processed before is behind it.   *)
RepeatsBounded ==
  \A c \in Chains : Cardinality(earlier[c] \intersect ToSet(Flow(c))) <= Lag

(* Types, and no block lost, repeated or overtaken inside, or repeated     *)
(* beyond the lag after a restart; with the facts about pollers and        *)
(* restarts these rest on, an inductive invariant.                         *)
IngestInv ==
  /\ TypeOK /\ PollerOK /\ NothingLostInside
  /\ FailuresHappened /\ SkippedOnlyAfterFailures
  /\ EarlierBehind /\ RepeatsBounded

(* A block above the adopted head is eventually processed or given up,     *)
(* however busy the other chains keep the one consumer, unless the process *)
(* dies first: base is 0 until the next one has adopted a head.            *)
EveryBlockHandled ==
  \A c \in Chains, n \in Blocks :
    (base[c] # 0 /\ base[c] < n /\ n <= head[c])
      ~> (n \in ToSet(processed[c]) \union skipped[c] \/ base[c] = 0)
=============================================================================
