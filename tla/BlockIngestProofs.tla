-------------------------- MODULE BlockIngestProofs --------------------------
(***************************************************************************)
(* IngestInv of BlockIngest is inductive: for any chains, capacities,      *)
(* lags and numbers of failures and restarts no block is lost, overtaken   *)
(* or repeated between poller and consumer.                                *)
(***************************************************************************)
EXTENDS BlockIngest, TLAPS, SequenceTheorems, FiniteSetTheorems

(* The elements of a sequence, and of one that is one longer. *)
LEMMA ToSetAppend ==
  ASSUME NEW S, NEW s \in Seq(S), NEW e \in S
  PROVE  ToSet(Append(s, e)) = ToSet(s) \union {e}
<1> DEFINE t == Append(s, e)
<1>1. /\ DOMAIN t = DOMAIN s \union {Len(s) + 1}
      /\ \A i \in DOMAIN s : t[i] = s[i]
      /\ t[Len(s) + 1] = e
  OBVIOUS
<1> HIDE DEF t
<1>2. ToSet(t) = ToSet(s) \union {e}
  BY <1>1, ZenonT(40) DEF ToSet
<1> QED
  BY <1>2 DEF t

LEMMA ToSetEmpty == ToSet(<<>>) = {}
BY DEF ToSet

(* A sequence is its head and its tail. *)
LEMMA HeadAndTail ==
  ASSUME NEW S, NEW s \in Seq(S), s # <<>>
  PROVE  s = <<Head(s)>> \o Tail(s)
<1>1. Head(s) \in S /\ Tail(s) \in Seq(S) /\ Len(Tail(s)) = Len(s) - 1
      /\ \A i \in 1..Len(Tail(s)) : Tail(s)[i] = s[i + 1]
  BY HeadTailProperties
<1>2. Len(s) \in Nat \ {0}
  BY EmptySeq
<1>3. <<Head(s)>> \in Seq(S) /\ Len(<<Head(s)>>) = 1 /\ <<Head(s)>>[1] = s[1]
  BY <1>1
<1> DEFINE t == <<Head(s)>> \o Tail(s)
<1>4. t \in Seq(S) /\ Len(t) = Len(s)
      /\ \A i \in 1..Len(s) : t[i] = IF i <= 1 THEN <<Head(s)>>[i] ELSE Tail(s)[i - 1]
  BY <1>1, <1>2, <1>3, ConcatProperties
<1>5. \A i \in 1..Len(s) : t[i] = s[i]
  BY <1>1, <1>2, <1>3, <1>4
<1> QED
  BY <1>4, <1>5, SeqEqual

-----------------------------------------------------------------------------
Batch(c) == IF busy.chain = c THEN <<busy.block>> ELSE <<>>

LEMMA FlowType ==
  ASSUME TypeOK, NEW c \in Chains
  PROVE  /\ processed[c] \in Seq(Blocks) /\ queue[c] \in Seq(Blocks)
         /\ Batch(c) \in Seq(Blocks)
         /\ processed[c] \o Batch(c) \in Seq(Blocks)
         /\ Flow(c) = (processed[c] \o Batch(c)) \o queue[c]
         /\ Flow(c) \in Seq(Blocks)
<1>1. processed[c] \in Seq(Blocks) /\ queue[c] \in Seq(Blocks)
  BY DEF TypeOK, QueuesType
<1>2. busy.chain = c => busy.block \in Blocks
  <2>1. busy \in [chain : Chains, block : Blocks] \/ busy = Idle
    BY DEF TypeOK, QueuesType
  <2>2. Idle.chain = "none"
    BY DEF Idle
  <2> QED
    BY <2>1, <2>2, IngestAssumption
<1>3. Batch(c) \in Seq(Blocks)
  BY <1>2 DEF Batch
<1>4. Flow(c) = (processed[c] \o Batch(c)) \o queue[c]
  BY DEF Flow, Batch
<1> QED
  BY <1>1, <1>3, <1>4, ConcatProperties

LEMMA FlowOfReceive ==
  ASSUME TypeOK, NEW c \in Chains, NEW d \in Chains, Receive(d)
  PROVE  Flow(c)' = Flow(c)
<1>1. processed' = processed
  BY DEF Receive, history
<1>2. CASE c # d
  BY <1>1, <1>2, IngestAssumption DEF Receive, Flow, TypeOK, QueuesType, QueuesType, Idle
<1>3. CASE c = d
  <2> DEFINE p == processed[c]
             q == queue[c]
  <2>1. p \in Seq(Blocks) /\ q \in Seq(Blocks) /\ q # <<>>
    BY <1>3 DEF TypeOK, QueuesType, Receive
  <2>2. Flow(c) = (p \o <<>>) \o q
    BY IngestAssumption DEF Receive, Flow, Idle
  <2>3. Flow(c)' = (p \o <<Head(q)>>) \o Tail(q)
    BY <1>1, <1>3 DEF Receive, Flow, TypeOK, QueuesType
  <2>4. <<Head(q)>> \in Seq(Blocks) /\ Tail(q) \in Seq(Blocks)
    BY <2>1, HeadTailProperties
  <2> HIDE DEF p, q
  <2>5. Flow(c)' = p \o (<<Head(q)>> \o Tail(q))
    BY <2>1, <2>3, <2>4, ConcatAssociative
  <2>6. <<Head(q)>> \o Tail(q) = q
    BY <2>1, HeadAndTail
  <2>7. p \o <<>> = p
    BY <2>1, ConcatEmptySeq
  <2> QED
    BY <2>2, <2>5, <2>6, <2>7
<1> QED
  BY <1>2, <1>3

LEMMA FlowOfProcess ==
  ASSUME TypeOK, NEW c \in Chains, Process
  PROVE  Flow(c)' = Flow(c)
<1>1. busy' = Idle /\ queue' = queue /\ busy \in [chain : Chains, block : Blocks]
  BY DEF Process, poller, TypeOK, QueuesType
<1>2. CASE c # busy.chain
  <2>1. processed'[c] = processed[c]
    BY <1>1, <1>2 DEF Process, TypeOK, QueuesType
  <2> QED
    BY <1>1, <1>2, <2>1, IngestAssumption DEF Flow, Idle
<1>3. CASE c = busy.chain
  <2> DEFINE p == processed[c]
             q == queue[c]
             b == busy.block
  <2>1. p \in Seq(Blocks) /\ q \in Seq(Blocks) /\ b \in Blocks
    BY <1>1 DEF TypeOK, QueuesType
  <2>2. Flow(c) = (p \o <<b>>) \o q
    BY <1>3 DEF Flow
  <2>3. processed'[c] = Append(p, b)
    BY <1>1, <1>3 DEF Process, TypeOK, QueuesType
  <2>4. Flow(c)' = (Append(p, b) \o <<>>) \o q
    BY <1>1, <2>3, IngestAssumption DEF Flow, Idle
  <2>5. Append(p, b) = p \o <<b>> /\ Append(p, b) \in Seq(Blocks)
    BY <2>1
  <2>6. Append(p, b) \o <<>> = Append(p, b)
    BY <2>5, ConcatEmptySeq
  <2> HIDE DEF p, q, b
  <2> QED
    BY <2>2, <2>4, <2>5, <2>6
<1> QED
  BY <1>2, <1>3

LEMMA FlowOfSend ==
  ASSUME TypeOK, NEW c \in Chains, NEW d \in Chains, Send(d), last[d] + 1 \in Blocks
  PROVE  Flow(c)' = IF c = d THEN Append(Flow(c), last[c] + 1) ELSE Flow(c)
<1>1. processed' = processed /\ busy' = busy
  BY DEF Send, history
<1>2. CASE c # d
  BY <1>1, <1>2 DEF Send, Flow, TypeOK, QueuesType
<1>3. CASE c = d
  <2> DEFINE p == processed[c] \o Batch(c)
             q == queue[c]
             n == last[c] + 1
  <2>1. p \in Seq(Blocks) /\ q \in Seq(Blocks) /\ n \in Blocks
        /\ Flow(c) = p \o q
    BY <1>3, FlowType
  <2>2. queue'[c] = Append(q, n)
    BY <1>3 DEF Send, TypeOK, QueuesType
  <2>3. Flow(c)' = p \o Append(q, n)
    BY <1>1, <2>2 DEF Flow, Batch
  <2>4. p \o Append(q, n) = Append(p \o q, n)
    <3> HIDE DEF p, q, n
    <3>1. Append(q, n) = q \o <<n>> /\ <<n>> \in Seq(Blocks) /\ p \o q \in Seq(Blocks)
      BY <2>1, ConcatProperties
    <3>2. Append(p \o q, n) = (p \o q) \o <<n>>
      BY <2>1, <3>1
    <3> QED
      BY <2>1, <3>1, <3>2, ConcatAssociative
  <2> HIDE DEF p, q
  <2> QED
    BY <1>3, <2>1, <2>3, <2>4
<1> QED
  BY <1>2, <1>3
-----------------------------------------------------------------------------
(* Initially nothing was sent, given up or processed. *)
LEMMA InitIngestInv == Init => IngestInv
<1> SUFFICES ASSUME Init PROVE IngestInv
  OBVIOUS
<1>1. TypeOK
  BY IngestAssumption
     DEF Init, TypeOK, PollersType, CountsType, QueuesType, PastType, Blocks
<1>2. \A c \in Chains : Flow(c) = <<>>
  BY IngestAssumption DEF Init, Flow, Idle
<1>3. PollerOK /\ FailuresHappened /\ SkippedOnlyAfterFailures /\ EarlierBehind
  BY DEF Init, PollerOK, FailuresHappened, SkippedOnlyAfterFailures, EarlierBehind
<1>4. NothingLostInside
  BY <1>2, ToSetEmpty DEF Init, NothingLostInside
<1>5. RepeatsBounded
  <2>1. \A c \in Chains : earlier[c] \intersect ToSet(Flow(c)) = {}
    BY <1>2, ToSetEmpty
  <2> QED
    BY <2>1, FS_EmptySet, IngestAssumption DEF RepeatsBounded
<1> QED
  BY <1>1, <1>3, <1>4, <1>5 DEF IngestInv

(* What is known of the poller of a chain, as numbers. *)
LEMMA Numbers ==
  ASSUME TypeOK, PollerOK, NEW c \in Chains
  PROVE  /\ head[c] \in 1..MaxBlock /\ last[c] \in 0..MaxBlock
         /\ upto[c] \in 0..MaxBlock /\ base[c] \in 0..MaxBlock
         /\ MaxBlock \in Nat
         /\ base[c] <= last[c] /\ last[c] <= head[c]
         /\ last[c] = 0 <=> base[c] = 0
         /\ upto[c] # 0 => base[c] # 0 /\ last[c] < upto[c] /\ upto[c] <= head[c]
         /\ fetched[c] => upto[c] # 0
BY IngestAssumption DEF TypeOK, PollersType, PollerOK, Blocks

(* The block a poller is about to fetch or send. *)
LEMMA NextBlock ==
  ASSUME TypeOK, PollerOK, NEW c \in Chains, upto[c] # 0
  PROVE  /\ last[c] + 1 \in Blocks /\ last[c] + 1 <= head[c] /\ base[c] # 0
         /\ last[c] + 1 <= upto[c]
BY Numbers DEF Blocks

(* The pollers keep their types, and each stays between its base and the   *)
(* head.                                                                   *)
PollersSafe == PollersType /\ PollerOK

LEMMA ProduceSafe ==
  ASSUME TypeOK, PollerOK, NEW c \in Chains, Produce(c)
  PROVE  PollersSafe'
<1>1. head' = [head EXCEPT ![c] = head[c] + 1] /\ head[c] < MaxBlock
      /\ UNCHANGED <<last, upto, fetched, base>>
  BY DEF Produce, poller, history
<1>2. PollersType'
  BY <1>1, Numbers DEF TypeOK, PollersType, Blocks
<1>3. PollerOK'
  BY <1>1, Numbers DEF TypeOK, PollersType, PollerOK
<1> QED
  BY <1>2, <1>3 DEF PollersSafe

LEMMA PollHeadSafe ==
  ASSUME TypeOK, PollerOK, NEW c \in Chains, NEW latest \in Blocks, PollHead(c, latest)
  PROVE  PollersSafe'
<1>1. /\ UNCHANGED <<head, fetched>> /\ upto[c] = 0
      /\ latest \in 1..head[c]
      /\ \/ /\ last[c] = 0 /\ UNCHANGED upto
            /\ last' = [last EXCEPT ![c] = latest]
            /\ base' = [base EXCEPT ![c] = latest]
         \/ /\ last[c] # 0 /\ latest > last[c] /\ UNCHANGED <<last, base>>
            /\ upto' = [upto EXCEPT ![c] = latest]
         \/ UNCHANGED <<last, upto, base>>
  BY DEF PollHead, StartAt, Behind
<1>2. latest \in 0..MaxBlock
  BY <1>1, Numbers
<1>3. PollersType'
  BY <1>1, <1>2 DEF TypeOK, PollersType
<1>4. PollerOK'
  BY <1>1, Numbers DEF TypeOK, PollersType, PollerOK
<1> QED
  BY <1>3, <1>4 DEF PollersSafe

(* The loop moves past a block: after a send, or after giving it up. *)
LEMMA StepOverSafe ==
  ASSUME TypeOK, PollerOK, NEW c \in Chains, upto[c] # 0, StepOver(c),
         UNCHANGED <<head, base>>,
         (UNCHANGED fetched /\ ~fetched[c]) \/ fetched' = [fetched EXCEPT ![c] = FALSE]
  PROVE  PollersSafe'
<1>1. /\ last' = [last EXCEPT ![c] = last[c] + 1]
      /\ upto' = [upto EXCEPT ![c] = IF last[c] + 1 = upto[c] THEN 0 ELSE upto[c]]
  BY DEF StepOver
<1>2. last[c] + 1 \in 0..MaxBlock
      /\ (IF last[c] + 1 = upto[c] THEN 0 ELSE upto[c]) \in 0..MaxBlock
  BY Numbers
<1>3. fetched' \in [Chains -> BOOLEAN] /\ ~fetched'[c]
      /\ \A d \in Chains \ {c} : fetched'[d] = fetched[d]
  BY DEF TypeOK, PollersType
<1>4. PollersType'
  BY <1>1, <1>2, <1>3 DEF TypeOK, PollersType
<1>5. /\ last'[c] = last[c] + 1 /\ upto'[c] = IF last[c] + 1 = upto[c] THEN 0 ELSE upto[c]
      /\ \A d \in Chains \ {c} : last'[d] = last[d] /\ upto'[d] = upto[d]
  BY <1>1 DEF TypeOK, PollersType
<1>6. PollerOK'
  <2> SUFFICES ASSUME NEW d \in Chains
               PROVE  /\ base[d] <= last'[d] /\ last'[d] <= head[d]
                      /\ last'[d] = 0 <=> base[d] = 0
                      /\ upto'[d] # 0 => base[d] # 0 /\ last'[d] < upto'[d] /\ upto'[d] <= head[d]
                      /\ fetched'[d] => upto'[d] # 0
    BY DEF PollerOK
  <2>1. CASE d = c
    BY <1>3, <1>5, <2>1, Numbers
  <2>2. CASE d # c
    BY <1>3, <1>5, <2>2, Numbers
  <2> QED
    BY <2>1, <2>2
<1> QED
  BY <1>4, <1>6 DEF PollersSafe

LEMMA PollersStep == TypeOK /\ PollerOK /\ [Next]_vars => PollersSafe'
<1> SUFFICES ASSUME TypeOK, PollerOK, [Next]_vars PROVE PollersSafe'
  OBVIOUS
<1>1. ASSUME NEW c \in Chains, Produce(c) PROVE PollersSafe'
  BY <1>1, ProduceSafe
<1>2. ASSUME NEW c \in Chains, NEW latest \in Blocks, PollHead(c, latest) PROVE PollersSafe'
  BY <1>2, PollHeadSafe
<1>3. ASSUME NEW c \in Chains, FetchOk(c) PROVE PollersSafe'
  <2>1. /\ UNCHANGED <<head, last, upto, base>> /\ upto[c] # 0
        /\ fetched' = [fetched EXCEPT ![c] = TRUE]
    BY <1>3 DEF FetchOk, Fetching, history
  <2> QED
    BY <2>1 DEF TypeOK, PollersType, PollerOK, PollersSafe
<1>4. ASSUME NEW c \in Chains, FetchFails(c) PROVE PollersSafe'
  <2>1. /\ UNCHANGED <<head, fetched, base>> /\ upto[c] # 0 /\ ~fetched[c]
        /\ StepOver(c) \/ (UNCHANGED last /\ upto' = [upto EXCEPT ![c] = 0])
    BY <1>4 DEF FetchFails, Fetching
  <2>2. CASE StepOver(c)
    BY <2>1, <2>2, StepOverSafe
  <2>3. CASE UNCHANGED last /\ upto' = [upto EXCEPT ![c] = 0]
    BY <2>1, <2>3, IngestAssumption DEF TypeOK, PollersType, PollerOK, PollersSafe
  <2> QED
    BY <2>1, <2>2, <2>3
<1>5. ASSUME NEW c \in Chains, Send(c) PROVE PollersSafe'
  <2>1. /\ UNCHANGED <<head, base>> /\ StepOver(c) /\ fetched[c]
        /\ fetched' = [fetched EXCEPT ![c] = FALSE]
    BY <1>5 DEF Send, history
  <2>2. upto[c] # 0
    BY <2>1 DEF PollerOK
  <2> QED
    BY <2>1, <2>2, StepOverSafe
<1>6. CASE Restart
  BY <1>6, IngestAssumption DEF TypeOK, PollersType, PollerOK, PollersSafe, Restart, Blocks
<1>7. CASE UNCHANGED <<head, poller, base>>
  BY <1>7 DEF PollersType, PollerOK, PollersSafe, poller, TypeOK
<1>8. Process \/ UNCHANGED vars \/ (\E c \in Chains : Receive(c)) => UNCHANGED <<head, poller, base>>
  BY DEF Process, Receive, vars, history
<1> QED
  BY <1>1, <1>2, <1>3, <1>4, <1>5, <1>6, <1>7, <1>8 DEF Next
-----------------------------------------------------------------------------
(* Failures are counted as they happen, and no block is given up before    *)
(* enough of them.                                                         *)
Counted == CountsType /\ FailuresHappened /\ SkippedOnlyAfterFailures

LEMMA CountedStep ==
  TypeOK /\ PollerOK /\ FailuresHappened /\ SkippedOnlyAfterFailures /\ [Next]_vars => Counted'
<1> SUFFICES ASSUME TypeOK, PollerOK, FailuresHappened, SkippedOnlyAfterFailures, [Next]_vars
             PROVE  Counted'
  OBVIOUS
<1> USE IngestAssumption
<1>1. ASSUME NEW c \in Chains, FetchOk(c) PROVE Counted'
  <2>1. /\ last[c] + 1 \in Blocks /\ UNCHANGED <<tries, skipped>>
        /\ failures' = [failures EXCEPT ![c][last[c] + 1] = 0]
    BY <1>1, NextBlock DEF FetchOk, Fetching, history
  <2>2. CountsType'
    BY <2>1 DEF TypeOK, CountsType
  <2>3. FailuresHappened'
    BY <2>1 DEF TypeOK, CountsType, FailuresHappened
  <2> QED
    BY <2>1, <2>2, <2>3 DEF Counted, SkippedOnlyAfterFailures
<1>2. ASSUME NEW c \in Chains, FetchFails(c) PROVE Counted'
  <2> DEFINE n == last[c] + 1
             failed == failures[c][n] + 1
  <2>1. /\ n \in Blocks
        /\ tries' = [tries EXCEPT ![c][n] = tries[c][n] + 1]
        /\ \/ /\ failed < MaxFetchFailures /\ UNCHANGED skipped
              /\ failures' = [failures EXCEPT ![c][n] = failed]
           \/ /\ failed >= MaxFetchFailures
              /\ failures' = [failures EXCEPT ![c][n] = 0]
              /\ skipped' = [skipped EXCEPT ![c] = skipped[c] \union {n}]
    BY <1>2, NextBlock DEF FetchFails, Fetching, GiveUp, TypeOK, CountsType
  <2>2. /\ failed \in Nat \ {0} /\ tries[c][n] + 1 >= failed /\ tries[c][n] + 1 \in Nat
    BY <2>1 DEF TypeOK, CountsType, FailuresHappened
  <2> HIDE DEF n, failed
  <2>3. CountsType'
    <3>1. tries' \in [Chains -> [Blocks -> Nat]]
      BY <2>1, <2>2 DEF TypeOK, CountsType
    <3>2. ASSUME NEW v \in 0..(MaxFetchFailures - 1), failures' = [failures EXCEPT ![c][n] = v]
          PROVE  failures' \in [Chains -> [Blocks -> 0..(MaxFetchFailures - 1)]]
      BY <2>1, <3>2 DEF TypeOK, CountsType
    <3>3. 0 \in 0..(MaxFetchFailures - 1)
          /\ (failed < MaxFetchFailures => failed \in 0..(MaxFetchFailures - 1))
      BY <2>2
    <3> QED
      BY <2>1, <3>1, <3>2, <3>3 DEF CountsType
  <2>4. FailuresHappened'
    BY <2>1, <2>2 DEF TypeOK, CountsType, FailuresHappened
  <2>5. SkippedOnlyAfterFailures'
    <3> SUFFICES ASSUME NEW d \in Chains, NEW k \in skipped'[d]
                 PROVE  tries'[d][k] >= MaxFetchFailures
      BY DEF SkippedOnlyAfterFailures
    <3>1. CASE k \in skipped[d]
      <4>1. tries[d][k] >= MaxFetchFailures /\ k \in Blocks /\ tries[d][k] \in Nat
        BY <3>1 DEF SkippedOnlyAfterFailures, TypeOK, CountsType, PastType
      <4> QED
        BY <2>1, <4>1 DEF TypeOK, CountsType
    <3>2. CASE k \notin skipped[d]
      <4>1. d = c /\ k = n /\ failed >= MaxFetchFailures
        BY <2>1, <3>2 DEF TypeOK, PastType
      <4> QED
        BY <2>1, <2>2, <4>1 DEF TypeOK, CountsType
    <3> QED
      BY <3>1, <3>2
  <2> QED
    BY <2>3, <2>4, <2>5 DEF Counted
<1>3. CASE Restart
  BY <1>3 DEF Restart, Counted, CountsType, FailuresHappened, SkippedOnlyAfterFailures
<1>4. CASE UNCHANGED <<failures, tries, skipped>>
  BY <1>4 DEF Counted, CountsType, FailuresHappened, SkippedOnlyAfterFailures, TypeOK
<1>5. ASSUME NEW c \in Chains,
             Produce(c) \/ (\E latest \in Blocks : PollHead(c, latest)) \/ Send(c) \/ Receive(c)
      PROVE  UNCHANGED <<failures, tries, skipped>>
  BY <1>5 DEF Produce, PollHead, Send, Receive, poller, history
<1>6. Process \/ UNCHANGED vars => UNCHANGED <<failures, tries, skipped>>
  BY DEF Process, vars, poller, history
<1> QED
  BY <1>1, <1>2, <1>3, <1>4, <1>5, <1>6 DEF Next

-----------------------------------------------------------------------------
(* The way from the poller to the analysis keeps its types. *)
LEMMA QueuesStep == TypeOK /\ PollerOK /\ [Next]_vars => QueuesType'
<1> SUFFICES ASSUME TypeOK, PollerOK, [Next]_vars PROVE QueuesType'
  OBVIOUS
<1>1. ASSUME NEW c \in Chains, Send(c) PROVE QueuesType'
  <2>1. last[c] + 1 \in Blocks
    BY <1>1, NextBlock DEF Send, PollerOK
  <2>2. queue' = [queue EXCEPT ![c] = Append(queue[c], last[c] + 1)] /\ UNCHANGED <<busy, processed>>
    BY <1>1 DEF Send, history
  <2> QED
    BY <2>1, <2>2 DEF TypeOK, QueuesType
<1>2. ASSUME NEW c \in Chains, Receive(c) PROVE QueuesType'
  <2>1. Head(queue[c]) \in Blocks /\ Tail(queue[c]) \in Seq(Blocks)
    BY <1>2, HeadTailProperties DEF TypeOK, QueuesType, Receive
  <2>2. /\ queue' = [queue EXCEPT ![c] = Tail(queue[c])] /\ UNCHANGED processed
        /\ busy' = [chain |-> c, block |-> Head(queue[c])]
    BY <1>2 DEF Receive, history
  <2> QED
    BY <2>1, <2>2 DEF TypeOK, QueuesType
<1>3. CASE Process
  <2>1. busy \in [chain : Chains, block : Blocks]
    BY <1>3 DEF TypeOK, QueuesType, Process
  <2>2. /\ UNCHANGED queue /\ busy' = Idle
        /\ processed' = [processed EXCEPT ![busy.chain] = Append(processed[busy.chain], busy.block)]
    BY <1>3 DEF Process
  <2> QED
    BY <2>1, <2>2 DEF TypeOK, QueuesType
<1>4. CASE Restart
  BY <1>4 DEF Restart, QueuesType
<1>5. CASE UNCHANGED <<queue, busy, processed>>
  BY <1>5 DEF TypeOK, QueuesType
<1>6. ASSUME NEW c \in Chains,
             \/ Produce(c) \/ (\E latest \in Blocks : PollHead(c, latest))
             \/ FetchOk(c) \/ FetchFails(c)
      PROVE  UNCHANGED <<queue, busy, processed>>
  BY <1>6 DEF Produce, PollHead, FetchOk, FetchFails, history
<1>7. UNCHANGED vars => UNCHANGED <<queue, busy, processed>>
  BY DEF vars, history
<1> QED
  BY <1>1, <1>2, <1>3, <1>4, <1>5, <1>6, <1>7 DEF Next

(* NothingLostInside of one chain. *)
NothingLost(flow, given, from, to) ==
  /\ \A i, j \in 1..Len(flow) : i < j => flow[i] < flow[j]
  /\ ToSet(flow) \intersect given = {}
  /\ ToSet(flow) \union given = (from + 1)..to

LEMMA NothingLostByChain ==
  NothingLostInside <=> \A c \in Chains : NothingLost(Flow(c), skipped[c], base[c], last[c])
BY DEF NothingLostInside, NothingLost

(* A block above all the others is sent. *)
LEMMA Extended ==
  ASSUME NEW flow \in Seq(Nat), NEW given, NEW from \in Nat, NEW to \in Nat, from <= to,
         NothingLost(flow, given, from, to)
  PROVE  NothingLost(Append(flow, to + 1), given, from, to + 1)
<1> DEFINE longer == Append(flow, to + 1)
<1>1. Len(flow) \in Nat /\ Len(longer) = Len(flow) + 1 /\ longer[Len(flow) + 1] = to + 1
      /\ \A i \in 1..Len(flow) : longer[i] = flow[i]
  OBVIOUS
<1>2. ToSet(longer) = ToSet(flow) \union {to + 1}
  BY ToSetAppend
<1>3. \A i \in 1..Len(flow) : flow[i] \in ToSet(flow)
  BY DEF ToSet
<1>4. \A n \in ToSet(flow) : n \in Nat /\ n <= to
  BY DEF NothingLost
<1> HIDE DEF longer
<1>5. \A i, j \in 1..Len(longer) : i < j => longer[i] < longer[j]
  <2> SUFFICES ASSUME NEW i \in 1..Len(longer), NEW j \in 1..Len(longer), i < j
               PROVE  longer[i] < longer[j]
    OBVIOUS
  <2>1. i \in 1..Len(flow) /\ longer[i] = flow[i] /\ flow[i] \in Nat /\ flow[i] <= to
    BY <1>1, <1>3, <1>4
  <2>2. CASE j = Len(flow) + 1
    BY <1>1, <2>1, <2>2
  <2>3. CASE j # Len(flow) + 1
    <3>1. j \in 1..Len(flow) /\ longer[j] = flow[j]
      BY <1>1, <2>3, SMTT(30)
    <3> QED
      BY <2>1, <3>1 DEF NothingLost
  <2> QED
    BY <2>2, <2>3
<1>6. to + 1 \notin given
  BY DEF NothingLost
<1>7. ToSet(longer) \intersect given = {}
  BY <1>2, <1>6 DEF NothingLost
<1>8. ToSet(longer) \union given = (from + 1)..(to + 1)
  BY <1>2 DEF NothingLost
<1> QED
  BY <1>5, <1>7, <1>8 DEF NothingLost, longer
(* A block above all the others is given up. *)
LEMMA Given ==
  ASSUME NEW flow \in Seq(Nat), NEW given, NEW from \in Nat, NEW to \in Nat, from <= to,
         NothingLost(flow, given, from, to)
  PROVE  NothingLost(flow, given \union {to + 1}, from, to + 1)
<1>1. to + 1 \notin ToSet(flow)
  BY DEF NothingLost
<1>2. ToSet(flow) \union (given \union {to + 1}) = (from + 1)..(to + 1)
  BY DEF NothingLost
<1> QED
  BY <1>1, <1>2 DEF NothingLost

LEMMA FlowStep == TypeOK /\ PollerOK /\ NothingLostInside /\ [Next]_vars => NothingLostInside'
<1> SUFFICES ASSUME TypeOK, PollerOK, NothingLostInside, [Next]_vars PROVE NothingLostInside'
  OBVIOUS
<1> SUFFICES ASSUME NEW c \in Chains
             PROVE  NothingLost(Flow(c)', skipped'[c], base'[c], last'[c])
  BY DEF NothingLostInside, NothingLost
<1>1. NothingLost(Flow(c), skipped[c], base[c], last[c])
  BY NothingLostByChain
<1>2. Flow(c) \in Seq(Nat) /\ base[c] \in Nat /\ last[c] \in Nat /\ base[c] <= last[c]
  <2>1. Flow(c) \in Seq(Blocks)
    BY FlowType
  <2>2. Blocks \subseteq Nat
    BY DEF Blocks
  <2>3. Flow(c) \in Seq(Nat)
    BY <2>1, <2>2, SeqMonotonic
  <2> QED
    BY <2>3, Numbers
<1>3. CASE UNCHANGED <<skipped[c], base[c], last[c]>> /\ Flow(c)' = Flow(c)
  BY <1>1, <1>3
<1>4. ASSUME NEW d \in Chains, Produce(d) \/ FetchOk(d)
      PROVE  UNCHANGED <<skipped[c], base[c], last[c]>> /\ Flow(c)' = Flow(c)
  BY <1>4 DEF Produce, FetchOk, poller, history, Flow
<1>5. ASSUME NEW d \in Chains, NEW latest \in Blocks, PollHead(d, latest)
      PROVE  NothingLost(Flow(c)', skipped'[c], base'[c], last'[c])
  <2>1. skipped' = skipped /\ Flow(c)' = Flow(c)
    BY <1>5 DEF PollHead, Flow
  <2>2. CASE c = d /\ last[c] = 0
    <3>1. base'[c] = latest /\ last'[c] = latest /\ base[c] = 0
      BY <1>5, <2>2, Numbers DEF PollHead, StartAt, TypeOK, PollersType
    <3>2. ToSet(Flow(c)) \union skipped[c] = {}
      BY <1>1, <2>2, <3>1 DEF NothingLost
    <3>3. (latest + 1)..latest = {}
      BY DEF Blocks
    <3> QED
      BY <1>1, <2>1, <3>1, <3>2, <3>3 DEF NothingLost
  <2>3. CASE ~(c = d /\ last[c] = 0)
    <3>1. base'[c] = base[c] /\ last'[c] = last[c]
      BY <1>5, <2>3 DEF PollHead, TypeOK, PollersType
    <3> QED
      BY <1>1, <2>1, <3>1
  <2> QED
    BY <2>2, <2>3
<1>6. ASSUME NEW d \in Chains, FetchFails(d)
      PROVE  NothingLost(Flow(c)', skipped'[c], base'[c], last'[c])
  <2>1. base' = base /\ Flow(c)' = Flow(c)
    BY <1>6 DEF FetchFails, Flow
  <2>2. \/ UNCHANGED <<skipped[c], last[c]>>
        \/ skipped'[c] = skipped[c] \union {last[c] + 1} /\ last'[c] = last[c] + 1
    BY <1>6 DEF FetchFails, StepOver, TypeOK, PollersType, PastType
  <2> QED
    BY <1>1, <1>2, <2>1, <2>2, Given, SMTT(30)
<1>7. ASSUME NEW d \in Chains, Send(d)
      PROVE  NothingLost(Flow(c)', skipped'[c], base'[c], last'[c])
  <2>1. last[d] + 1 \in Blocks
    BY <1>7, NextBlock DEF Send, PollerOK
  <2>2. base' = base /\ skipped' = skipped
        /\ last'[c] = IF c = d THEN last[c] + 1 ELSE last[c]
    BY <1>7 DEF Send, StepOver, history, TypeOK, PollersType
  <2>3. Flow(c)' = IF c = d THEN Append(Flow(c), last[c] + 1) ELSE Flow(c)
    BY <1>7, <2>1, FlowOfSend
  <2> QED
    BY <1>1, <1>2, <2>2, <2>3, Extended
<1>8. ASSUME NEW d \in Chains, Receive(d)
      PROVE  UNCHANGED <<skipped[c], base[c], last[c]>> /\ Flow(c)' = Flow(c)
  BY <1>8, FlowOfReceive DEF Receive, poller, history
<1>9. CASE Process
  BY <1>1, <1>9, FlowOfProcess DEF Process, poller
<1>10. CASE Restart
  <2>1. Flow(c)' = <<>> /\ skipped'[c] = {} /\ base'[c] = 0 /\ last'[c] = 0
    BY <1>10, IngestAssumption DEF Restart, Flow, Idle
  <2> QED
    BY <2>1, ToSetEmpty DEF NothingLost
<1>11. CASE UNCHANGED vars
  BY <1>3, <1>11 DEF vars, poller, history, Flow
<1> QED
  BY <1>3, <1>4, <1>5, <1>6, <1>7, <1>8, <1>9, <1>10, <1>11 DEF Next

-----------------------------------------------------------------------------
(* What was processed before the restart stays behind the head, and not    *)
(* far beyond the head adopted since.                                      *)
LEMMA PastStep ==
  TypeOK /\ PollerOK /\ NothingLostInside /\ EarlierBehind /\ [Next]_vars
    => PastType' /\ EarlierBehind'
<1> SUFFICES ASSUME TypeOK, PollerOK, NothingLostInside, EarlierBehind, [Next]_vars
             PROVE  PastType' /\ EarlierBehind'
  OBVIOUS
<1>1. ASSUME NEW c \in Chains, Produce(c) PROVE PastType' /\ EarlierBehind'
  <2>1. /\ head' = [head EXCEPT ![c] = head[c] + 1]
        /\ UNCHANGED <<restarts, skipped, earlier, base>>
    BY <1>1 DEF Produce, history
  <2>2. \A d \in Chains : head'[d] \in Nat /\ head[d] <= head'[d] /\ head[d] \in Nat
    BY <2>1 DEF TypeOK, PollersType, Blocks
  <2>3. \A d \in Chains : \A n \in earlier[d] : n \in Nat
    BY DEF TypeOK, PastType, Blocks
  <2> QED
    BY <2>1, <2>2, <2>3 DEF TypeOK, PastType, EarlierBehind
<1>2. ASSUME NEW c \in Chains, NEW latest \in Blocks, PollHead(c, latest)
      PROVE  PastType' /\ EarlierBehind'
  <2>1. /\ UNCHANGED <<head, restarts, skipped, earlier>> /\ latest >= head[c] - Lag
        /\ base' = base \/ base' = [base EXCEPT ![c] = latest]
    BY <1>2 DEF PollHead, StartAt
  <2>2. \A d \in Chains : \A n \in earlier[d] : n \in Nat /\ head[d] \in Nat
    BY DEF TypeOK, PastType, PollersType, Blocks
  <2>3. \A n \in earlier[c] : n <= latest + Lag
    BY <2>1, <2>2, IngestAssumption DEF EarlierBehind, Blocks
  <2> QED
    BY <2>1, <2>3 DEF TypeOK, PastType, PollersType, EarlierBehind
<1>3. ASSUME NEW c \in Chains, FetchFails(c) PROVE PastType' /\ EarlierBehind'
  <2>1. last[c] + 1 \in Blocks
    BY <1>3, NextBlock DEF FetchFails, Fetching
  <2>2. UNCHANGED <<head, base, restarts, earlier>>
        /\ (skipped' = skipped \/ skipped' = [skipped EXCEPT ![c] = skipped[c] \union {last[c] + 1}])
    BY <1>3 DEF FetchFails
  <2> QED
    BY <2>1, <2>2 DEF TypeOK, PastType, EarlierBehind
<1>4. CASE Restart
  <2>1. \A c \in Chains : ToSet(processed[c]) \subseteq ToSet(Flow(c))
    <3> SUFFICES ASSUME NEW c \in Chains, NEW i \in DOMAIN processed[c]
                 PROVE  \E k \in DOMAIN Flow(c) : Flow(c)[k] = processed[c][i]
      BY DEF ToSet
    <3> DEFINE p == processed[c]
               pb == p \o Batch(c)
    <3>1. p \in Seq(Blocks) /\ Batch(c) \in Seq(Blocks) /\ queue[c] \in Seq(Blocks)
          /\ Flow(c) = pb \o queue[c] /\ pb \in Seq(Blocks)
      BY FlowType
    <3>2. i \in DOMAIN pb /\ pb[i] = p[i]
      BY <3>1, ConcatProperties
    <3> HIDE DEF pb
    <3>3. i \in DOMAIN Flow(c) /\ Flow(c)[i] = pb[i]
      BY <3>1, <3>2, ConcatProperties
    <3> QED
      BY <3>2, <3>3
  <2>2. \A c \in Chains : busy.chain = c => busy.block \in ToSet(Flow(c))
    <3> SUFFICES ASSUME NEW c \in Chains, busy.chain = c
                 PROVE  \E k \in DOMAIN Flow(c) : Flow(c)[k] = busy.block
      BY DEF ToSet
    <3> DEFINE p == processed[c]
               pb == p \o Batch(c)
               k == Len(p) + 1
    <3>1. p \in Seq(Blocks) /\ Batch(c) \in Seq(Blocks) /\ queue[c] \in Seq(Blocks)
          /\ Flow(c) = pb \o queue[c] /\ pb \in Seq(Blocks)
      BY FlowType
    <3>2. Batch(c) = <<busy.block>> /\ Len(Batch(c)) = 1 /\ Batch(c)[1] = busy.block
      BY DEF Batch
    <3>3. k \in DOMAIN pb /\ pb[k] = busy.block
      BY <3>1, <3>2, ConcatProperties
    <3> HIDE DEF pb, k
    <3>4. k \in DOMAIN Flow(c) /\ Flow(c)[k] = pb[k]
      BY <3>1, <3>3, ConcatProperties
    <3> QED
      BY <3>3, <3>4
  <2>3. \A c \in Chains : \A n \in ToSet(Flow(c)) : n \in Blocks /\ n <= head[c]
    BY Numbers DEF NothingLostInside, Blocks
  <2>4. \A c \in Chains :
          earlier'[c] = earlier[c] \union ToSet(processed[c])
                          \union (IF busy.chain = c THEN {busy.block} ELSE {})
    BY <1>4 DEF Restart
  <2>5. \A c \in Chains : \A n \in earlier'[c] : n \in Blocks /\ n <= head[c]
    BY <2>1, <2>2, <2>3, <2>4 DEF TypeOK, PastType, EarlierBehind
  <2>6. PastType'
    BY <1>4, <2>5, IngestAssumption DEF Restart, TypeOK, PastType
  <2> QED
    BY <1>4, <2>5, <2>6 DEF Restart, EarlierBehind
<1>5. CASE UNCHANGED <<head, base, restarts, skipped, earlier>>
  BY <1>5 DEF TypeOK, PastType, EarlierBehind
<1>6. ASSUME NEW c \in Chains, FetchOk(c) \/ Send(c) \/ Receive(c)
      PROVE  UNCHANGED <<head, base, restarts, skipped, earlier>>
  BY <1>6 DEF FetchOk, Send, Receive, history
<1>7. Process \/ UNCHANGED vars => UNCHANGED <<head, base, restarts, skipped, earlier>>
  BY DEF Process, vars, history
<1> QED
  BY <1>1, <1>2, <1>3, <1>4, <1>5, <1>6, <1>7 DEF Next

(* The blocks processed twice are among the Lag blocks after the base. *)
LEMMA FewRepeats ==
  ASSUME TypeOK, PollerOK, NothingLostInside, EarlierBehind
  PROVE  RepeatsBounded
<1> SUFFICES ASSUME NEW c \in Chains
             PROVE  Cardinality(earlier[c] \intersect ToSet(Flow(c))) <= Lag
  BY DEF RepeatsBounded
<1> DEFINE window == (base[c] + 1)..(base[c] + Lag)
           twice == earlier[c] \intersect ToSet(Flow(c))
<1>1. base[c] \in Nat /\ Lag \in Nat /\ last[c] \in Nat /\ (base[c] = 0 => last[c] = 0)
  BY Numbers, IngestAssumption
<1>2. twice \subseteq window
  <2> SUFFICES ASSUME NEW n \in twice PROVE n \in window
    OBVIOUS
  <2>1. n \in (base[c] + 1)..last[c]
    BY DEF NothingLostInside
  <2>2. n <= base[c] + Lag
    BY <1>1, <2>1 DEF EarlierBehind
  <2> QED
    BY <1>1, <2>1, <2>2
<1>3. IsFiniteSet(window) /\ Cardinality(window) = Lag
  <2> DEFINE a == base[c] + 1
             b == base[c] + Lag
  <2>1. a \in Int /\ b \in Int /\ (IF a > b THEN 0 ELSE b - a + 1) = Lag
    BY <1>1
  <2> HIDE DEF a, b
  <2>2. IsFiniteSet(a..b) /\ Cardinality(a..b) = IF a > b THEN 0 ELSE b - a + 1
    BY <2>1, FS_Interval
  <2> QED
    BY <2>1, <2>2 DEF a, b
<1>4. Cardinality(twice) <= Cardinality(window)
  BY <1>2, <1>3, FS_Subset
<1> QED
  BY <1>3, <1>4

-----------------------------------------------------------------------------
(* Between pollers and analysis no block is lost, repeated or overtaken;   *)
(* none is given up before its failures; and a restart repeats no more     *)
(* blocks than the head of an RPC node lags behind.                        *)
THEOREM Invariance == Spec => []IngestInv
<1> DEFINE Core == /\ TypeOK /\ PollerOK /\ NothingLostInside
                   /\ FailuresHappened /\ SkippedOnlyAfterFailures /\ EarlierBehind
<1>1. Init => Core
  BY InitIngestInv DEF IngestInv
<1>2. Core /\ [Next]_vars => Core'
  <2> SUFFICES ASSUME Core, [Next]_vars PROVE Core'
    OBVIOUS
  <2>1. TypeOK' /\ PollerOK'
    BY PollersStep, CountedStep, QueuesStep, PastStep DEF PollersSafe, Counted, TypeOK
  <2>2. NothingLostInside' /\ EarlierBehind'
    BY FlowStep, PastStep
  <2>3. FailuresHappened' /\ SkippedOnlyAfterFailures'
    BY CountedStep DEF Counted
  <2> QED
    BY <2>1, <2>2, <2>3
<1>3. Core => IngestInv
  BY FewRepeats DEF IngestInv
<1> QED
  BY <1>1, <1>2, <1>3, PTL DEF Spec

(* pollLoop gives a block up only after MaxFetchFailures failures.         *)
THEOREM SkippedOnlyAfterFailuresHolds == Spec => []SkippedOnlyAfterFailures
<1>1. IngestInv => SkippedOnlyAfterFailures
  BY DEF IngestInv
<1> QED
  BY Invariance, <1>1, PTL
==============================================================================
