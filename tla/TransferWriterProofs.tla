------------------------ MODULE TransferWriterProofs ------------------------
(***************************************************************************)
(* WriterInv of TransferWriter is inductive, and StoredAsSent follows with *)
(* it: for any capacity, batch and slice no transfer is dropped, stored    *)
(* out of order or stored twice without a doubtful insert.  With the same  *)
(* invariant the pipeline implements AtLeastOnceLog.                       *)
(***************************************************************************)
EXTENDS TransferWriter, TLAPS, SequenceTheorems, FiniteSetTheorems

(* Sequences and their elements. *)
LEMMA InToSet ==
  ASSUME NEW s, NEW x
  PROVE  x \in ToSet(s) <=> \E i \in DOMAIN s : x = s[i]
BY DEF ToSet

LEMMA Joined ==
  ASSUME NEW S, NEW s \in Seq(S), NEW t \in Seq(S)
  PROVE  /\ s \o t \in Seq(S)
         /\ Len(s \o t) = Len(s) + Len(t)
         /\ DOMAIN s = 1..Len(s) /\ Len(s) \in Nat /\ Len(t) \in Nat
         /\ DOMAIN (s \o t) = 1..(Len(s) + Len(t))
         /\ \A i \in 1..Len(s) : (s \o t)[i] = s[i]
         /\ \A i \in 1..Len(t) : (s \o t)[Len(s) + i] = t[i]
         /\ \A i \in 1..(Len(s) + Len(t)) :
              i \in 1..Len(s) \/ \E j \in 1..Len(t) : i = Len(s) + j
<1>1. \A i \in 1..(Len(s) + Len(t)) :
        i \in 1..Len(s) \/ \E j \in 1..Len(t) : i = Len(s) + j
  <2> SUFFICES ASSUME NEW i \in 1..(Len(s) + Len(t)), i \notin 1..Len(s)
               PROVE  \E j \in 1..Len(t) : i = Len(s) + j
    OBVIOUS
  <2>1. i - Len(s) \in 1..Len(t) /\ i = Len(s) + (i - Len(s))
    OBVIOUS
  <2> QED
    BY <2>1, Zenon
<1>2. /\ s \o t \in Seq(S) /\ Len(s \o t) = Len(s) + Len(t)
      /\ \A i \in 1..Len(s) + Len(t) : (s \o t)[i] = IF i <= Len(s) THEN s[i] ELSE t[i - Len(s)]
  BY ConcatProperties
<1> QED
  BY <1>1, <1>2

LEMMA ElementsJoined ==
  ASSUME NEW S, NEW s \in Seq(S), NEW t \in Seq(S)
  PROVE  ToSet(s \o t) = ToSet(s) \union ToSet(t)
<1> DEFINE u == s \o t
<1>1. /\ DOMAIN s = 1..Len(s) /\ DOMAIN t = 1..Len(t) /\ Len(s) \in Nat /\ Len(t) \in Nat
      /\ DOMAIN u = 1..(Len(s) + Len(t))
      /\ \A i \in 1..Len(s) : u[i] = s[i]
      /\ \A i \in 1..Len(t) : u[Len(s) + i] = t[i]
      /\ \A i \in 1..(Len(s) + Len(t)) :
           i \in 1..Len(s) \/ \E j \in 1..Len(t) : i = Len(s) + j
  BY Joined
<1> HIDE DEF u
<1>2. \A i \in 1..Len(s) : i \in 1..(Len(s) + Len(t))
  BY <1>1
<1>3. \A i \in 1..Len(t) : Len(s) + i \in 1..(Len(s) + Len(t))
  BY <1>1
<1>4. ASSUME NEW x
      PROVE  x \in ToSet(u) <=> x \in ToSet(s) \/ x \in ToSet(t)
  <2>1. ASSUME NEW i \in DOMAIN u, x = u[i]
        PROVE  x \in ToSet(s) \/ x \in ToSet(t)
    <3>1. CASE i \in 1..Len(s)
      BY <1>1, <2>1, <3>1, InToSet
    <3>2. ASSUME NEW j \in 1..Len(t), i = Len(s) + j
          PROVE  x \in ToSet(t)
      BY <1>1, <2>1, <3>2, InToSet
    <3> QED
      BY <1>1, <3>1, <3>2
  <2>2. ASSUME NEW i \in DOMAIN s, x = s[i]
        PROVE  x \in ToSet(u)
    BY <1>1, <1>2, <2>2, InToSet
  <2>3. ASSUME NEW j \in DOMAIN t, x = t[j]
        PROVE  x \in ToSet(u)
    BY <1>1, <1>3, <2>3, InToSet
  <2> QED
    BY <2>1, <2>2, <2>3, InToSet
<1>5. ToSet(u) = ToSet(s) \union ToSet(t)
  BY <1>4
<1> QED
  BY <1>5 DEF u

LEMMA AscendingJoined ==
  ASSUME NEW S, NEW s \in Seq(S), NEW t \in Seq(S),
         Ascending(s), Ascending(t), Before(ToSet(s), ToSet(t))
  PROVE  Ascending(s \o t)
<1> DEFINE u == s \o t
<1>1. /\ DOMAIN s = 1..Len(s) /\ DOMAIN t = 1..Len(t) /\ Len(s) \in Nat /\ Len(t) \in Nat
      /\ DOMAIN u = 1..(Len(s) + Len(t))
      /\ \A i \in 1..Len(s) : u[i] = s[i]
      /\ \A i \in 1..Len(t) : u[Len(s) + i] = t[i]
      /\ \A i \in 1..(Len(s) + Len(t)) :
           i \in 1..Len(s) \/ \E j \in 1..Len(t) : i = Len(s) + j
  BY Joined
<1> HIDE DEF u
<1> SUFFICES ASSUME NEW i \in DOMAIN u, NEW j \in DOMAIN u, i < j
             PROVE  u[i].id < u[j].id
  BY DEF Ascending, u
<1>2. CASE i \in 1..Len(s) /\ j \in 1..Len(s)
  BY <1>1, <1>2 DEF Ascending
<1>3. ASSUME i \in 1..Len(s), NEW l \in 1..Len(t), j = Len(s) + l
      PROVE  u[i].id < u[j].id
  <2>1. s[i] \in ToSet(s) /\ t[l] \in ToSet(t)
    BY <1>1, <1>3 DEF ToSet
  <2> QED
    BY <1>1, <1>3, <2>1 DEF Before
<1>4. ASSUME NEW k \in 1..Len(t), i = Len(s) + k, NEW l \in 1..Len(t), j = Len(s) + l
      PROVE  u[i].id < u[j].id
  <2>1. k < l /\ u[i] = t[k] /\ u[j] = t[l]
    BY <1>1, <1>4
  <2> QED
    BY <1>1, <2>1 DEF Ascending
<1>6. CASE i \in 1..Len(s)
  BY <1>1, <1>2, <1>3, <1>6
<1>7. CASE i \notin 1..Len(s)
  <2>1. j \notin 1..Len(s)
    BY <1>1, <1>7
  <2> QED
    BY <1>1, <1>4, <1>7, <2>1
<1> QED
  BY <1>6, <1>7

(* A sequence cut after its n-th element. *)
Halves(S, s, n, a, b) ==
  /\ a \in Seq(S) /\ Len(a) = n
  /\ \A i \in 1..n : a[i] = s[i]
  /\ b \in Seq(S) /\ Len(b) = Len(s) - n
  /\ \A i \in 1..(Len(s) - n) : b[i] = s[n + i]

LEMMA Cut ==
  ASSUME NEW S, NEW s \in Seq(S), NEW n \in 0..Len(s)
  PROVE  Halves(S, s, n, SubSeq(s, 1, n), SubSeq(s, n + 1, Len(s)))
<1> DEFINE a == SubSeq(s, 1, n)
           b == SubSeq(s, n + 1, Len(s))
<1>1. /\ a \in Seq(S) /\ Len(a) = n
      /\ \A i \in 1..n : a[i] = s[i]
      /\ b \in Seq(S) /\ Len(b) = Len(s) - n
      /\ \A i \in 1..(Len(s) - n) : b[i] = s[n + i]
  OBVIOUS
<1> QED
  BY <1>1 DEF Halves

LEMMA OfHalves ==
  ASSUME NEW S, NEW s \in Seq(S), NEW n \in 1..Len(s), NEW a, NEW b,
         Halves(S, s, n, a, b), Ascending(s)
  PROVE  /\ ToSet(s) = ToSet(a) \union ToSet(b)
         /\ Ascending(a) /\ Ascending(b) /\ Before(ToSet(a), ToSet(b))
         /\ \A x \in ToSet(a) : x.id = s[n].id \/ x.id < s[n].id
         /\ \A x \in ToSet(b) : s[n].id < x.id
<1>1. /\ a \in Seq(S) /\ Len(a) = n
      /\ \A i \in 1..n : a[i] = s[i]
      /\ b \in Seq(S) /\ Len(b) = Len(s) - n
      /\ \A i \in 1..(Len(s) - n) : b[i] = s[n + i]
  BY DEF Halves
<1>2. Len(s) \in Nat /\ DOMAIN s = 1..Len(s) /\ DOMAIN a = 1..n /\ DOMAIN b = 1..(Len(s) - n)
  BY <1>1
<1>3. ToSet(s) = ToSet(a) \union ToSet(b)
  <2>1. ASSUME NEW i \in DOMAIN s
        PROVE  s[i] \in ToSet(a) \/ s[i] \in ToSet(b)
    <3>1. CASE i <= n
      <4>1. i \in DOMAIN a /\ s[i] = a[i]
        BY <1>1, <1>2, <3>1
      <4> QED
        BY <4>1, InToSet
    <3>2. CASE i > n
      <4>1. i - n \in 1..(Len(s) - n) /\ n + (i - n) = i
        BY <1>2, <3>2
      <4>2. i - n \in DOMAIN b /\ s[i] = b[i - n]
        BY <1>1, <1>2, <4>1
      <4> QED
        BY <4>2, InToSet
    <3> QED
      BY <1>2, <3>1, <3>2
  <2>2. ASSUME NEW i \in DOMAIN a
        PROVE  a[i] \in ToSet(s)
    <3>1. i \in DOMAIN s /\ a[i] = s[i]
      BY <1>1, <1>2
    <3> QED
      BY <3>1, InToSet
  <2>3. ASSUME NEW i \in DOMAIN b
        PROVE  b[i] \in ToSet(s)
    <3>1. n + i \in DOMAIN s /\ b[i] = s[n + i]
      BY <1>1, <1>2
    <3> QED
      BY <3>1, InToSet
  <2> QED
    BY <2>1, <2>2, <2>3, InToSet
<1>4. \A i, j \in 1..Len(s) : i < j => s[i].id < s[j].id
  BY <1>2 DEF Ascending
<1>5. Ascending(a)
  <2> SUFFICES ASSUME NEW i \in 1..n, NEW j \in 1..n, i < j PROVE a[i].id < a[j].id
    BY <1>2 DEF Ascending
  <2> QED
    BY <1>1, <1>2, <1>4
<1>6. Ascending(b)
  <2> SUFFICES ASSUME NEW i \in 1..(Len(s) - n), NEW j \in 1..(Len(s) - n), i < j
               PROVE  b[i].id < b[j].id
    BY <1>2 DEF Ascending
  <2>1. n + i \in 1..Len(s) /\ n + j \in 1..Len(s) /\ n + i < n + j
    BY <1>2
  <2> QED
    BY <1>1, <1>4, <2>1
<1>7. Before(ToSet(a), ToSet(b))
  <2> SUFFICES ASSUME NEW i \in 1..n, NEW j \in 1..(Len(s) - n) PROVE a[i].id < b[j].id
    BY <1>2, InToSet DEF Before
  <2>1. i \in 1..Len(s) /\ n + j \in 1..Len(s) /\ i < n + j
    BY <1>2
  <2> QED
    BY <1>1, <1>4, <2>1
<1>8. \A x \in ToSet(a) : x.id = s[n].id \/ x.id < s[n].id
  <2> SUFFICES ASSUME NEW i \in 1..n PROVE a[i].id = s[n].id \/ a[i].id < s[n].id
    BY <1>2, InToSet
  <2>1. CASE i = n
    BY <1>1, <2>1
  <2>2. CASE i < n
    <3>1. i \in 1..Len(s) /\ n \in 1..Len(s)
      BY <1>2
    <3> QED
      BY <1>1, <1>4, <2>2, <3>1
  <2> QED
    BY <2>1, <2>2
<1>9. \A x \in ToSet(b) : s[n].id < x.id
  <2> SUFFICES ASSUME NEW j \in 1..(Len(s) - n) PROVE s[n].id < b[j].id
    BY <1>2, InToSet
  <2>1. n \in 1..Len(s) /\ n + j \in 1..Len(s) /\ n < n + j
    BY <1>2
  <2> QED
    BY <1>1, <1>4, <2>1
<1> QED
  BY <1>3, <1>5, <1>6, <1>7, <1>8, <1>9

-----------------------------------------------------------------------------
(* The channel: a slice is appended, the first is taken. *)
Inside(c) == UNION {ToSet(c[i]) : i \in DOMAIN c}

LEMMA InsideForm == InChan = Inside(chan) /\ InChan' = Inside(chan')
BY DEF InChan, Inside

LEMMA InInside ==
  ASSUME NEW c, NEW x
  PROVE  x \in Inside(c) <=> \E k \in DOMAIN c : x \in ToSet(c[k])
BY DEF Inside

LEMMA InsideAppend ==
  ASSUME NEW S, NEW c \in Seq(S), NEW s \in S
  PROVE  /\ DOMAIN Append(c, s) = DOMAIN c \union {Len(c) + 1}
         /\ \A k \in DOMAIN c : Append(c, s)[k] = c[k] /\ k < Len(c) + 1
         /\ Append(c, s)[Len(c) + 1] = s
         /\ Inside(Append(c, s)) = Inside(c) \union ToSet(s)
<1> DEFINE d == Append(c, s)
<1>1. /\ DOMAIN d = DOMAIN c \union {Len(c) + 1}
      /\ \A k \in DOMAIN c : d[k] = c[k] /\ k < Len(c) + 1
      /\ d[Len(c) + 1] = s
  OBVIOUS
<1> HIDE DEF d
<1>2. \A x : x \in Inside(d) <=> x \in Inside(c) \/ x \in ToSet(s)
  BY <1>1, InInside, Zenon
<1>3. Inside(d) = Inside(c) \union ToSet(s)
  BY <1>2
<1> QED
  BY <1>1, <1>3 DEF d

LEMMA InsideTail ==
  ASSUME NEW S, NEW c \in Seq(S), c # <<>>
  PROVE  /\ Head(c) \in S /\ Head(c) = c[1] /\ 1 \in DOMAIN c
         /\ Tail(c) \in Seq(S) /\ Len(Tail(c)) = Len(c) - 1
         /\ \A k \in DOMAIN Tail(c) :
              k + 1 \in DOMAIN c /\ 1 < k + 1 /\ Tail(c)[k] = c[k + 1]
         /\ Inside(c) = ToSet(Head(c)) \union Inside(Tail(c))
<1> DEFINE d == Tail(c)
<1>1. /\ Head(c) \in S /\ Head(c) = c[1] /\ d \in Seq(S) /\ Len(d) = Len(c) - 1
      /\ \A k \in 1..Len(d) : d[k] = c[k + 1]
  BY HeadTailProperties
<1>2. Len(c) \in Nat \ {0} /\ DOMAIN c = 1..Len(c) /\ DOMAIN d = 1..(Len(c) - 1)
  BY <1>1, EmptySeq
<1> HIDE DEF d
<1>3. \A k \in DOMAIN d : k + 1 \in DOMAIN c /\ 1 < k + 1 /\ d[k] = c[k + 1]
  BY <1>1, <1>2
<1>4. \A k \in DOMAIN c : k = 1 \/ \E l \in DOMAIN d : k = l + 1
  <2> SUFFICES ASSUME NEW k \in DOMAIN c, k # 1 PROVE k - 1 \in DOMAIN d /\ k = (k - 1) + 1
    BY Zenon
  <2> QED
    BY <1>2
<1>5. 1 \in DOMAIN c
  BY <1>2
<1>6. ASSUME NEW x PROVE x \in Inside(c) <=> x \in ToSet(Head(c)) \/ x \in Inside(d)
  <2>1. ASSUME NEW k \in DOMAIN c, x \in ToSet(c[k])
        PROVE  x \in ToSet(Head(c)) \/ x \in Inside(d)
    BY <1>1, <1>3, <1>4, <2>1, InInside
  <2>2. ASSUME NEW l \in DOMAIN d, x \in ToSet(d[l])
        PROVE  x \in Inside(c)
    BY <1>3, <2>2, InInside
  <2>3. x \in ToSet(Head(c)) => x \in Inside(c)
    BY <1>1, <1>5, InInside
  <2> QED
    BY <2>1, <2>2, <2>3, InInside
<1>7. Inside(c) = ToSet(Head(c)) \union Inside(d)
  BY <1>6
<1> QED
  BY <1>1, <1>3, <1>5, <1>7 DEF d

-----------------------------------------------------------------------------
LEMMA CurrentTyped ==
  ASSUME NEW n \in 1..MaxTransfers, NEW h \in Hours, TypeOK, Analyze(n, h)
  PROVE  /\ current' \in Seq(Event) /\ Len(current') = n /\ DOMAIN current' = 1..n
         /\ \A i \in 1..n : current'[i].id = made + i
<1> USE WriterAssumption
<1>1. /\ current' = [i \in 1..n |-> [id |-> made + i, hour |-> h]]
      /\ made \in Nat /\ made + n <= MaxEvents /\ MaxEvents \in Nat /\ n \in Nat
  BY DEF TypeOK, Analyze
<1>2. \A i \in 1..n : [id |-> made + i, hour |-> h] \in Event
  BY <1>1 DEF Event
<1>3. current' \in [1..n -> Event] /\ n \in Nat
  BY <1>1, <1>2
<1>4. \A i \in 1..n : current'[i].id = made + i
  BY <1>1
<1> QED
  BY <1>3, <1>4

LEMMA BatchCut ==
  ASSUME TypeOK, PendingBounded, flushing > 0
  PROVE  /\ flushing \in 1..Len(pending) /\ flushing <= BatchLimit
         /\ pending \in Seq(Event)
         /\ Batch \in Seq(Event) /\ Len(Batch) = flushing
         /\ Halves(Event, pending, flushing, Batch, SubSeq(pending, flushing + 1, Len(pending)))
<1>1. flushing \in 0..Len(pending) /\ flushing \in 1..Len(pending) /\ flushing <= BatchLimit
      /\ pending \in Seq(Event)
  BY WriterAssumption DEF TypeOK
<1>2. Halves(Event, pending, flushing, Batch, SubSeq(pending, flushing + 1, Len(pending)))
  BY <1>1, Cut DEF Batch
<1> QED
  BY <1>1, <1>2 DEF Halves

LEMMA TypeStep ==
  ASSUME TypeOK, PendingBounded, [Next]_vars
  PROVE  TypeOK' /\ PendingBounded'
<1> USE WriterAssumption
<1>1. CASE UNCHANGED vars
  BY <1>1 DEF vars, consumer, writer, totals, history, TypeOK, PendingBounded
<1>2. ASSUME NEW n \in 1..MaxTransfers, NEW h \in Hours, Analyze(n, h)
      PROVE  TypeOK' /\ PendingBounded'
  <2>1. /\ current' \in Seq(Event) /\ Len(current') <= MaxTransfers
        /\ made' \in 0..MaxEvents /\ stage' = "send"
        /\ UNCHANGED <<chan, writer, totals, sent, lost, restarts>>
    <3>1. current' \in Seq(Event) /\ Len(current') = n
      BY <1>2, CurrentTyped
    <3>2. made' = made + n /\ made + n <= MaxEvents /\ made \in Nat /\ stage' = "send"
          /\ UNCHANGED <<chan, writer, totals, sent, lost, restarts>>
      BY <1>2 DEF Analyze, TypeOK
    <3> QED
      BY <3>1, <3>2
  <2> QED
    BY <2>1 DEF writer, totals, TypeOK, PendingBounded
<1>3. CASE SendEvents
  <2>1. /\ stage' = "upsert" /\ UNCHANGED <<current, writer, totals, made, lost, restarts>>
        /\ chan' = Append(chan, current) /\ sent' = sent \o current
        /\ chan \in Seq(Seq(Event)) /\ current \in Seq(Event) /\ Len(chan) < ChanCap
    BY <1>3 DEF SendEvents, TypeOK
  <2>2. chan' \in Seq(Seq(Event)) /\ Len(chan') <= ChanCap /\ sent' \in Seq(Event)
    BY <2>1, Joined DEF TypeOK
  <2>3. \A k \in DOMAIN chan' : Len(chan'[k]) <= MaxTransfers
    BY <2>1, InsideAppend DEF TypeOK
  <2> QED
    BY <2>1, <2>2, <2>3 DEF writer, totals, TypeOK, PendingBounded
<1>4. CASE UpsertOk \/ UpsertFails
  <2>1. /\ stage' = "idle" /\ current' = <<>>
        /\ UNCHANGED <<chan, writer, history, restarts>>
        /\ UNCHANGED activity \/ AddActivity
        /\ errors' \in 0..MaxErrors
    BY <1>4 DEF UpsertOk, UpsertFails, TypeOK
  <2>2. AddActivity => activity' \in [Hours -> Nat]
    <3>1. \A h \in Hours : CountOf(current, h) \in Nat
      <4> TAKE h \in Hours
      <4>1. IsFiniteSet(DOMAIN current) /\ {i \in DOMAIN current : current[i].hour = h} \subseteq DOMAIN current
        BY FS_Interval DEF TypeOK
      <4> QED
        BY <4>1, FS_Subset, FS_CardinalityType DEF CountOf
    <3> QED
      BY <3>1 DEF AddActivity, TypeOK
  <2> QED
    BY <2>1, <2>2 DEF writer, totals, history, TypeOK, PendingBounded
<1>5. CASE Receive
  <2>1. /\ chan \in Seq(Seq(Event)) /\ chan # <<>> /\ flushing = 0
        /\ pending' = pending \o Head(chan) /\ chan' = Tail(chan)
        /\ flushing' = IF Len(pending') >= FlushAt THEN BatchLimit ELSE 0
        /\ surplus' = IF Len(pending') >= FlushAt THEN surplus + Oversize ELSE 0
        /\ UNCHANGED <<consumer, table, doubtful, totals, history, restarts>>
    BY <1>5 DEF Receive, TypeOK
  <2>2. /\ Head(chan) \in Seq(Event) /\ Len(Head(chan)) <= MaxTransfers
        /\ chan' \in Seq(Seq(Event)) /\ Len(chan') = Len(chan) - 1
        /\ \A k \in DOMAIN chan' : Len(chan'[k]) <= MaxTransfers
    BY <2>1, InsideTail DEF TypeOK
  <2>3. pending' \in Seq(Event) /\ Len(pending') = Len(pending) + Len(Head(chan))
    BY <2>1, <2>2, Joined DEF TypeOK
  <2>4. Len(pending') \in Nat /\ Len(pending) \in Nat /\ Len(pending) < FlushAt + surplus
        /\ Len(Head(chan)) \in Nat /\ Len(chan) \in Nat /\ surplus \in Nat
    BY <2>1, <2>2, <2>3 DEF TypeOK, PendingBounded
  <2>5. Oversize \in Nat /\ Len(Head(chan)) <= BatchLimit + Oversize
    BY <2>4 DEF Oversize
  <2>6. flushing' \in 0..BatchLimit /\ flushing' <= Len(pending') /\ surplus' \in Nat
    BY <2>1, <2>4, <2>5
  <2>7. TypeOK'
    BY <2>1, <2>2, <2>3, <2>4, <2>6 DEF consumer, totals, history, TypeOK
  <2>8. Len(pending') < FlushAt + surplus' + flushing'
    BY <2>1, <2>3, <2>4, <2>5
  <2>9. PendingBounded'
    BY <2>1, <2>8 DEF PendingBounded
  <2> QED
    BY <2>7, <2>9
<1>6. CASE FlushTick
  <2>1. /\ flushing = 0 /\ Len(pending) \in Nat
        /\ flushing' = IF Len(pending) < BatchLimit THEN Len(pending) ELSE BatchLimit
        /\ UNCHANGED <<consumer, chan, pending, table, doubtful, surplus, totals, history, restarts>>
        /\ surplus \in Nat
    BY <1>6 DEF FlushTick, TypeOK
  <2>2. /\ flushing' \in 0..BatchLimit /\ flushing' <= Len(pending)
        /\ flushing' > 0 => flushing' = BatchLimit \/ flushing' = Len(pending)
    BY <2>1
  <2>3. TypeOK'
    <3>1. UNCHANGED <<stage, current, chan, pending, table, doubtful, surplus, activity, errors,
                      made, sent, lost, restarts>>
      BY <2>1 DEF consumer, totals, history
    <3> QED
      BY <2>2, <3>1 DEF TypeOK
  <2>4. Len(pending) < FlushAt + surplus + flushing'
    <3>1. Len(pending) < FlushAt + surplus
      BY <2>1 DEF PendingBounded
    <3>2. Len(pending) \in Nat /\ surplus \in Nat /\ flushing' \in Nat
      BY <2>1, <2>2
    <3> QED
      BY ONLY <3>1, <3>2, WriterAssumption DEF WriterAssumption
  <2> QED
    BY <2>1, <2>2, <2>3, <2>4 DEF PendingBounded
<1>7. CASE InsertOk
  <2>1. /\ flushing \in 1..Len(pending) /\ pending \in Seq(Event) /\ Batch \in Seq(Event)
        /\ flushing' = 0 /\ table' = table \o Batch
        /\ pending' = SubSeq(pending, flushing + 1, Len(pending))
        /\ surplus' = IF Len(pending') >= FlushAt THEN surplus ELSE 0
        /\ UNCHANGED <<consumer, chan, doubtful, totals, history, restarts>>
    BY <1>7, BatchCut DEF InsertOk
  <2>2. pending' \in Seq(Event) /\ Len(pending') = Len(pending) - flushing
    BY <1>7, BatchCut DEF InsertOk, Halves
  <2>3. table' \in Seq(Event)
    BY <2>1, Joined DEF TypeOK
  <2>4. /\ Len(pending') < FlushAt + surplus' /\ Len(pending') \in Nat
        /\ surplus' \in Nat
    <3>1. Len(pending) < FlushAt + surplus + flushing /\ Len(pending) \in Nat /\ surplus \in Nat
      BY <2>1 DEF PendingBounded, TypeOK
    <3> QED
      BY <2>1, <2>2, <3>1
  <2>5. TypeOK'
    BY <2>1, <2>2, <2>3, <2>4 DEF consumer, totals, history, TypeOK
  <2>6. PendingBounded'
    <3>1. Len(pending') < FlushAt + surplus' + flushing'
      BY <2>1, <2>4
    <3> QED
      BY <2>1, <3>1 DEF PendingBounded
  <2> QED
    BY <2>5, <2>6
<1>8. CASE InsertFails
  <2>1. /\ UNCHANGED <<consumer, chan, pending, flushing, surplus, totals, history, restarts>>
        /\ doubtful' \in 0..MaxDoubtful
        /\ table' = table \/ table' = table \o Batch
        /\ Batch \in Seq(Event)
    BY <1>8, BatchCut, SMTT(30) DEF InsertFails, TypeOK
  <2>2. table' \in Seq(Event)
    <3>1. table \in Seq(Event) /\ table \o Batch \in Seq(Event)
      BY <2>1, Joined DEF TypeOK
    <3> QED
      BY <2>1, <3>1
  <2> QED
    BY <2>1, <2>2 DEF consumer, totals, history, TypeOK, PendingBounded
<1>9. CASE Restart
  <2>1. /\ lost' = lost \union ToSet(pending) \union InChan
        /\ restarts' \in 0..MaxRestarts
        /\ stage' = "idle" /\ current' = <<>>
        /\ chan' = <<>> /\ pending' = <<>> /\ flushing' = 0 /\ surplus' = 0
        /\ UNCHANGED <<table, doubtful, totals, made, sent>>
    BY <1>9 DEF Restart, TypeOK
  <2>2. lost' \subseteq Event
    <3>1. ToSet(pending) \subseteq Event
      BY InToSet DEF TypeOK
    <3>2. InChan \subseteq Event
      BY InInside, InsideForm, InToSet DEF TypeOK
    <3> QED
      BY <2>1, <3>1, <3>2 DEF TypeOK
  <2> QED
    BY <2>1, <2>2 DEF totals, TypeOK, PendingBounded
<1> QED
  BY <1>1, <1>2, <1>3, <1>4, <1>5, <1>6, <1>7, <1>8, <1>9 DEF Next

-----------------------------------------------------------------------------
(* The order of what is on its way. *)
LEMMA EmptySequence == ToSet(<<>>) = {} /\ Ascending(<<>>) /\ Inside(<<>>) = {}
BY DEF ToSet, Ascending, Inside

LEMMA Elements ==
  ASSUME TypeOK
  PROVE  \A x \in ToSet(table) \union ToSet(pending) \union InChan \union ToSet(current) :
           x \in Event /\ x.id \in Nat
<1>1. Event = [id : 1..MaxEvents, hour : Hours] /\ MaxEvents \in Nat
  BY WriterAssumption DEF Event
<1>2. \A x \in Event : x.id \in Nat
  BY <1>1
<1>3. ToSet(table) \subseteq Event /\ ToSet(pending) \subseteq Event /\ ToSet(current) \subseteq Event
  BY InToSet DEF TypeOK
<1>4. InChan \subseteq Event
  BY InInside, InsideForm, InToSet DEF TypeOK
<1> QED
  BY <1>2, <1>3, <1>4

LEMMA BatchElements ==
  ASSUME TypeOK, PendingBounded, Ascending(pending), flushing > 0,
         NEW rest, rest = SubSeq(pending, flushing + 1, Len(pending))
  PROVE  /\ ToSet(pending) = ToSet(Batch) \union ToSet(rest)
         /\ ToSet(table \o Batch) = ToSet(table) \union ToSet(Batch)
         /\ Ascending(Batch) /\ Ascending(rest) /\ Before(ToSet(Batch), ToSet(rest))
         /\ \A x \in ToSet(Batch) : x.id <= pending[flushing].id
         /\ \A x \in ToSet(rest) : pending[flushing].id < x.id
         /\ pending[flushing] \in ToSet(pending) /\ pending[flushing].id \in Nat
<1> DEFINE Fits(a) ==
      /\ ToSet(pending) = ToSet(a) \union ToSet(rest)
      /\ Ascending(a) /\ Ascending(rest) /\ Before(ToSet(a), ToSet(rest))
      /\ \A x \in ToSet(a) : x.id = pending[flushing].id \/ x.id < pending[flushing].id
      /\ \A x \in ToSet(rest) : pending[flushing].id < x.id
<1>1. /\ flushing \in 1..Len(pending) /\ pending \in Seq(Event) /\ Batch \in Seq(Event)
  BY BatchCut
<1>2. Fits(Batch)
  <2>1. Halves(Event, pending, flushing, Batch, rest)
    BY BatchCut
  <2>2. ToSet(pending) = ToSet(Batch) \union ToSet(rest)
    BY <1>1, <2>1, OfHalves
  <2>3. Ascending(Batch) /\ Ascending(rest) /\ Before(ToSet(Batch), ToSet(rest))
    BY <1>1, <2>1, OfHalves
  <2>4. /\ \A x \in ToSet(Batch) : x.id = pending[flushing].id \/ x.id < pending[flushing].id
        /\ \A x \in ToSet(rest) : pending[flushing].id < x.id
    BY <1>1, <2>1, OfHalves
  <2> QED
    BY <2>2, <2>3, <2>4
<1>3. ToSet(table \o Batch) = ToSet(table) \union ToSet(Batch)
  <2>1. table \in Seq(Event)
    BY DEF TypeOK
  <2> QED
    BY <1>1, <2>1, ElementsJoined, ZenonT(40)
<1>4. pending[flushing] \in ToSet(pending)
  BY <1>1, InToSet
<1>5. pending[flushing].id \in Nat /\ \A x \in ToSet(Batch) : x.id \in Nat
  BY <1>2, <1>4, Elements
<1> QED
  BY <1>2, <1>3, <1>4, <1>5

LEMMA OrderStep ==
  ASSUME TypeOK, PendingBounded, TransitOrdered, [Next]_vars
  PROVE  TransitOrdered'
<1> USE WriterAssumption
<1>1. CASE UNCHANGED vars
  BY <1>1 DEF vars, consumer, writer, history, TransitOrdered, InChan
<1>2. ASSUME NEW n \in 1..MaxTransfers, NEW h \in Hours, Analyze(n, h)
      PROVE  TransitOrdered'
  <2>1. /\ DOMAIN current' = 1..n /\ \A i \in 1..n : current'[i].id = made + i
        /\ made \in Nat /\ made' = made + n /\ n \in Nat
        /\ UNCHANGED <<chan, pending, table>> /\ InChan' = InChan
    BY <1>2, CurrentTyped DEF Analyze, TypeOK, writer, InChan
  <2>2. Ascending(current')
    BY <2>1 DEF Ascending
  <2>3. \A y \in ToSet(current') : y.id > made /\ y.id <= made' /\ y.id \in Nat
    BY <2>1, InToSet
  <2>4. \A x \in ToSet(table) \union ToSet(pending) \union InChan : x.id <= made /\ x.id \in Nat
    BY Elements DEF TransitOrdered
  <2>5. Before(ToSet(table') \union ToSet(pending') \union InChan', ToSet(current'))
    BY <2>1, <2>3, <2>4 DEF Before
  <2>6. \A x \in ToSet(table') \union ToSet(pending') \union InChan' \union ToSet(current') :
          x.id <= made'
    BY <2>1, <2>3, <2>4
  <2> QED
    BY <2>1, <2>2, <2>5, <2>6 DEF TransitOrdered
<1>3. CASE SendEvents
  <2>1. /\ stage = "send" /\ stage' = "upsert" /\ chan' = Append(chan, current)
        /\ UNCHANGED <<current, pending, table, made>>
        /\ chan \in Seq(Seq(Event)) /\ current \in Seq(Event)
    BY <1>3 DEF SendEvents, TypeOK, writer
  <2>2. /\ DOMAIN chan' = DOMAIN chan \union {Len(chan) + 1}
        /\ \A k \in DOMAIN chan : chan'[k] = chan[k] /\ k < Len(chan) + 1 /\ k \in Nat
        /\ chan'[Len(chan) + 1] = current /\ Len(chan) \in Nat
        /\ InChan' = InChan \union ToSet(current)
    BY <2>1, InsideAppend, InsideForm
  <2>3. \A k \in DOMAIN chan' : Ascending(chan'[k])
    BY <2>2 DEF TransitOrdered
  <2>4. Before(ToSet(table) \union ToSet(pending) \union InChan, ToSet(current))
    BY <2>1 DEF TransitOrdered
  <2>5. ASSUME NEW k \in DOMAIN chan', NEW l \in DOMAIN chan', k < l
        PROVE  Before(ToSet(chan'[k]), ToSet(chan'[l]))
    <3>1. k \in DOMAIN chan
      BY <2>2, <2>5
    <3>2. CASE l \in DOMAIN chan
      BY <2>2, <2>5, <3>1, <3>2 DEF TransitOrdered
    <3>3. CASE l = Len(chan) + 1
      <4>1. ToSet(chan[k]) \subseteq InChan
        BY <3>1 DEF InChan
      <4> QED
        BY <2>2, <2>4, <3>1, <3>3, <4>1 DEF Before
    <3> QED
      BY <2>2, <3>2, <3>3
  <2>6. Before(ToSet(table') \union ToSet(pending'), InChan')
    BY <2>1, <2>2, <2>4 DEF Before, TransitOrdered
  <2> QED
    BY <2>1, <2>2, <2>3, <2>5, <2>6 DEF TransitOrdered
<1>4. CASE UpsertOk \/ UpsertFails
  <2>1. stage' = "idle" /\ current' = <<>> /\ UNCHANGED <<chan, pending, table, made>>
        /\ InChan' = InChan
    BY <1>4 DEF UpsertOk, UpsertFails, writer, history, InChan
  <2> QED
    BY <2>1, EmptySequence DEF TransitOrdered
<1>5. CASE Receive
  <2>1. /\ chan \in Seq(Seq(Event)) /\ chan # <<>> /\ pending \in Seq(Event)
        /\ pending' = pending \o Head(chan) /\ chan' = Tail(chan)
        /\ UNCHANGED <<stage, current, table, made>>
    BY <1>5 DEF Receive, TypeOK, consumer, history
  <2>2. /\ Head(chan) \in Seq(Event) /\ Head(chan) = chan[1] /\ 1 \in DOMAIN chan
        /\ \A k \in DOMAIN chan' : k + 1 \in DOMAIN chan /\ 1 < k + 1 /\ chan'[k] = chan[k + 1]
        /\ InChan = ToSet(Head(chan)) \union InChan'
        /\ chan' \in Seq(Seq(Event))
    BY <2>1, InsideTail, InsideForm
  <2>3. ToSet(pending') = ToSet(pending) \union ToSet(Head(chan))
    BY <2>1, <2>2, ElementsJoined
  <2>4. Ascending(pending')
    <3>1. Ascending(pending) /\ Ascending(Head(chan)) /\ Before(ToSet(pending), ToSet(Head(chan)))
      BY <2>2 DEF TransitOrdered, Before
    <3> QED
      BY <2>1, <2>2, <3>1, AscendingJoined
  <2>5. \A k \in DOMAIN chan' : Ascending(chan'[k])
    BY <2>2 DEF TransitOrdered
  <2>6. \A k, l \in DOMAIN chan' : k < l => Before(ToSet(chan'[k]), ToSet(chan'[l]))
    <3> SUFFICES ASSUME NEW k \in DOMAIN chan', NEW l \in DOMAIN chan', k < l
                 PROVE  Before(ToSet(chan[k + 1]), ToSet(chan[l + 1]))
      BY <2>2
    <3>1. k + 1 < l + 1
      BY <2>2
    <3> QED
      BY <2>2, <3>1 DEF TransitOrdered
  <2>7. Before(ToSet(Head(chan)), InChan')
    <3> SUFFICES ASSUME NEW k \in DOMAIN chan' PROVE Before(ToSet(Head(chan)), ToSet(chan'[k]))
      BY InInside, InsideForm DEF Before
    <3> QED
      BY <2>2 DEF TransitOrdered
  <2>8. Before(ToSet(table') \union ToSet(pending'), InChan')
    BY <2>1, <2>2, <2>3, <2>7 DEF Before, TransitOrdered
  <2>9. ToSet(table') \union ToSet(pending') \union InChan'
          \subseteq ToSet(table) \union ToSet(pending) \union InChan
    BY <2>1, <2>2, <2>3
  <2>10. stage' = "send"
           => Before(ToSet(table') \union ToSet(pending') \union InChan', ToSet(current'))
    BY <2>1, <2>9 DEF Before, TransitOrdered
  <2>11. \A x \in ToSet(table') \union ToSet(pending') \union InChan' \union ToSet(current') :
          x.id <= made'
    BY <2>1, <2>9 DEF TransitOrdered
  <2> QED
    BY <2>1, <2>4, <2>5, <2>6, <2>8, <2>10, <2>11 DEF TransitOrdered
<1>6. CASE FlushTick
  BY <1>6 DEF FlushTick, consumer, history, TransitOrdered, InChan
<1>7. ASSUME UNCHANGED <<stage, current, chan, made>>,
             ToSet(table') \union ToSet(pending') \subseteq ToSet(table) \union ToSet(pending),
             Ascending(pending')
      PROVE  TransitOrdered'
  <2>1. InChan' = InChan
    BY <1>7 DEF InChan
  <2> QED
    BY <1>7, <2>1 DEF TransitOrdered, Before
<1>8. CASE InsertOk
  <2>1. /\ flushing > 0 /\ pending' = SubSeq(pending, flushing + 1, Len(pending))
        /\ table' = table \o Batch /\ UNCHANGED <<stage, current, chan, made>>
    BY <1>8 DEF InsertOk, consumer, history
  <2>2. /\ ToSet(pending) = ToSet(Batch) \union ToSet(pending') /\ Ascending(pending')
        /\ ToSet(table') = ToSet(table) \union ToSet(Batch)
    BY <2>1, BatchElements DEF TransitOrdered
  <2> QED
    BY <1>7, <2>1, <2>2
<1>9. CASE InsertFails
  <2>1. /\ flushing > 0 /\ UNCHANGED <<stage, current, chan, pending, made>>
        /\ table' = table \/ table' = table \o Batch
    BY <1>9 DEF InsertFails, consumer, history
  <2>2. ToSet(Batch) \subseteq ToSet(pending) /\ ToSet(table \o Batch) = ToSet(table) \union ToSet(Batch)
    BY <2>1, BatchElements DEF TransitOrdered
  <2> QED
    BY <1>7, <2>1, <2>2 DEF TransitOrdered
<1>10. CASE Restart
  <2>1. /\ stage' = "idle" /\ current' = <<>> /\ chan' = <<>> /\ pending' = <<>>
        /\ UNCHANGED <<table, made>> /\ InChan' = {}
    BY <1>10, InsideForm, EmptySequence DEF Restart
  <2> QED
    BY <2>1, EmptySequence DEF TransitOrdered, Before
<1> QED
  BY <1>1, <1>2, <1>3, <1>4, <1>5, <1>6, <1>8, <1>9, <1>10 DEF Next

(* A slice received is younger than the table, and no batch is redone. *)
LEMMA ReceivedIsYounger ==
  ASSUME WriterInv, Receive
  PROVE  Before(ToSet(table'), ToSet(pending'))
<1>1. /\ chan \in Seq(Seq(Event)) /\ chan # <<>> /\ flushing = 0 /\ pending \in Seq(Event)
      /\ pending' = pending \o Head(chan) /\ UNCHANGED table
  BY DEF Receive, TypeOK, WriterInv
<1>2. ToSet(Head(chan)) \subseteq InChan /\ Head(chan) \in Seq(Event)
  BY <1>1, InsideTail, InsideForm
<1>3. ToSet(pending') = ToSet(pending) \union ToSet(Head(chan))
  BY <1>1, <1>2, ElementsJoined
<1>4. Before(ToSet(table), ToSet(pending)) /\ Before(ToSet(table), InChan)
  BY <1>1 DEF WriterInv, TableOlder, Redone, TransitOrdered, Before
<1> QED
  BY <1>1, <1>2, <1>3, <1>4 DEF Before

LEMMA OlderStep ==
  ASSUME WriterInv, [Next]_vars
  PROVE  TableOlder'
<1> USE WriterAssumption
<1>0. TypeOK /\ PendingBounded /\ TransitOrdered /\ TableOlder /\ Ascending(pending)
  BY DEF WriterInv, TransitOrdered
<1>1. ASSUME UNCHANGED writer
      PROVE  TableOlder'
  BY <1>0, <1>1 DEF writer, TableOlder, Redone, Batch
<1>2. ASSUME NEW n \in 1..MaxTransfers, NEW h \in Hours, Analyze(n, h)
      PROVE  TableOlder'
  BY <1>1, <1>2 DEF Analyze
<1>3. CASE SendEvents \/ UpsertOk \/ UpsertFails \/ UNCHANGED vars
  BY <1>1, <1>3 DEF SendEvents, UpsertOk, UpsertFails, vars
<1>4. CASE Receive
  BY <1>4, ReceivedIsYounger DEF TableOlder
<1>5. CASE FlushTick
  BY <1>0, <1>5 DEF FlushTick, TableOlder, Redone
<1>6. CASE InsertOk
  <2>1. /\ flushing > 0 /\ pending' = SubSeq(pending, flushing + 1, Len(pending))
        /\ table' = table \o Batch
    BY <1>6 DEF InsertOk
  <2>2. /\ ToSet(pending) = ToSet(Batch) \union ToSet(pending')
        /\ ToSet(table') = ToSet(table) \union ToSet(Batch)
        /\ Before(ToSet(Batch), ToSet(pending'))
        /\ \A x \in ToSet(pending') : pending[flushing].id < x.id
        /\ pending[flushing].id \in Nat
    BY <1>0, <2>1, BatchElements
  <2>3. Before(ToSet(table), ToSet(pending'))
    <3>1. CASE Before(ToSet(table), ToSet(pending))
      BY <2>2, <3>1 DEF Before
    <3>2. CASE \A x \in ToSet(table) : x.id <= pending[flushing].id
      <4> SUFFICES ASSUME NEW x \in ToSet(table), NEW y \in ToSet(pending') PROVE x.id < y.id
        BY DEF Before
      <4>1. x.id \in Nat /\ y.id \in Nat
        BY <1>0, <2>2, Elements
      <4> QED
        BY <2>2, <3>2, <4>1
    <3> QED
      BY <1>0, <3>1, <3>2 DEF TableOlder
  <2>4. Before(ToSet(table'), ToSet(pending'))
    BY <2>2, <2>3 DEF Before
  <2> QED
    BY <2>4 DEF TableOlder
<1>7. CASE InsertFails
  <2>1. /\ flushing > 0 /\ UNCHANGED <<pending, flushing>>
        /\ UNCHANGED table \/ table' = table \o Batch
    BY <1>7 DEF InsertFails
  <2>2. CASE UNCHANGED table
    BY <1>0, <2>1, <2>2 DEF TableOlder, Redone, Batch
  <2>3. CASE table' = table \o Batch
    <3>1. /\ ToSet(table') = ToSet(table) \union ToSet(Batch)
          /\ \A x \in ToSet(Batch) : x.id <= pending[flushing].id
          /\ pending[flushing] \in ToSet(pending) /\ pending[flushing].id \in Nat
      BY <1>0, <2>1, <2>3, BatchElements
    <3>2. \A x \in ToSet(table) : x.id <= pending[flushing].id
      BY <1>0, <3>1, Elements DEF TableOlder, Before
    <3>3. Batch' = Batch
      BY <2>1 DEF Batch
    <3> QED
      BY <2>1, <3>1, <3>2, <3>3 DEF TableOlder, Redone
  <2> QED
    BY <2>1, <2>2, <2>3
<1>8. CASE Restart
  <2>1. pending' = <<>>
    BY <1>8 DEF Restart
  <2> QED
    BY <2>1, EmptySequence DEF TableOlder, Before
<1> QED
  BY <1>2, <1>3, <1>4, <1>5, <1>6, <1>7, <1>8 DEF Next

LEMMA WriterStep == WriterInv /\ [Next]_vars => WriterInv'
<1> SUFFICES ASSUME WriterInv, [Next]_vars PROVE WriterInv'
  OBVIOUS
<1> QED
  BY TypeStep, OrderStep, OlderStep DEF WriterInv

LEMMA InitWriter == Init => WriterInv
<1> SUFFICES ASSUME Init PROVE WriterInv
  OBVIOUS
<1> USE WriterAssumption
<1>1. TypeOK /\ PendingBounded
  BY DEF Init, TypeOK, PendingBounded
<1>2. InChan = {} /\ table = <<>> /\ pending = <<>> /\ current = <<>> /\ chan = <<>> /\ stage = "idle"
  BY InsideForm, EmptySequence DEF Init
<1>3. TransitOrdered
  BY <1>2, EmptySequence DEF TransitOrdered, Before
<1>4. TableOlder
  BY <1>2, EmptySequence DEF TableOlder, Before
<1> QED
  BY <1>1, <1>3, <1>4 DEF WriterInv

(* Types, the bound on the writer's memory and the order of everything on  *)
(* its way to the table, in every reachable state.                         *)
THEOREM Invariance == Spec => []WriterInv
BY InitWriter, WriterStep, PTL DEF Spec

-----------------------------------------------------------------------------
(* What StoredAsSent says, part by part. *)
LEMMA NothingDroppedStep ==
  ASSUME WriterInv, NothingDropped, [Next]_vars
  PROVE  NothingDropped'
<1>0. TypeOK /\ PendingBounded /\ Ascending(pending)
  BY DEF WriterInv, TransitOrdered
<1>1. ASSUME UNCHANGED <<sent, table, pending, chan, lost>>
      PROVE  NothingDropped'
  BY <1>1 DEF NothingDropped, InChan
<1>2. ASSUME NEW n \in 1..MaxTransfers, NEW h \in Hours, Analyze(n, h)
      PROVE  NothingDropped'
  BY <1>1, <1>2 DEF Analyze, writer
<1>3. CASE UpsertOk \/ UpsertFails \/ FlushTick \/ UNCHANGED vars
  BY <1>1, <1>3 DEF UpsertOk, UpsertFails, FlushTick, vars, history, writer
<1>4. CASE SendEvents
  <2>1. /\ chan' = Append(chan, current) /\ sent' = sent \o current
        /\ UNCHANGED <<table, pending, lost>>
        /\ chan \in Seq(Seq(Event)) /\ current \in Seq(Event) /\ sent \in Seq(Event)
    BY <1>0, <1>4 DEF SendEvents, TypeOK, writer
  <2>2. InChan' = InChan \union ToSet(current)
    BY <2>1, InsideAppend, InsideForm
  <2>3. ToSet(sent') = ToSet(sent) \union ToSet(current)
    BY <2>1, ElementsJoined
  <2> QED
    BY <2>1, <2>2, <2>3 DEF NothingDropped
<1>5. CASE Receive
  <2>1. /\ chan \in Seq(Seq(Event)) /\ chan # <<>> /\ pending \in Seq(Event)
        /\ pending' = pending \o Head(chan) /\ chan' = Tail(chan)
        /\ UNCHANGED <<table, sent, lost>>
    BY <1>0, <1>5 DEF Receive, TypeOK, history
  <2>2. InChan = ToSet(Head(chan)) \union InChan' /\ Head(chan) \in Seq(Event)
    BY <2>1, InsideTail, InsideForm
  <2>3. ToSet(pending') = ToSet(pending) \union ToSet(Head(chan))
    BY <2>1, <2>2, ElementsJoined
  <2> QED
    BY <2>1, <2>2, <2>3 DEF NothingDropped
<1>6. CASE InsertOk
  <2>1. /\ flushing > 0 /\ pending' = SubSeq(pending, flushing + 1, Len(pending))
        /\ table' = table \o Batch /\ UNCHANGED <<sent, chan, lost>> /\ InChan' = InChan
    BY <1>6 DEF InsertOk, history, InChan
  <2>2. /\ ToSet(pending) = ToSet(Batch) \union ToSet(pending')
        /\ ToSet(table') = ToSet(table) \union ToSet(Batch)
    BY <1>0, <2>1, BatchElements
  <2> QED
    BY <2>1, <2>2 DEF NothingDropped
<1>7. CASE InsertFails
  <2>1. /\ flushing > 0 /\ UNCHANGED <<pending, sent, chan, lost>> /\ InChan' = InChan
        /\ table' = table \/ table' = table \o Batch
    BY <1>7 DEF InsertFails, history, InChan
  <2>2. ToSet(Batch) \subseteq ToSet(pending) /\ ToSet(table \o Batch) = ToSet(table) \union ToSet(Batch)
    BY <1>0, <2>1, BatchElements
  <2> QED
    BY <2>1, <2>2 DEF NothingDropped
<1>8. CASE Restart
  <2>1. /\ lost' = lost \union ToSet(pending) \union InChan
        /\ pending' = <<>> /\ InChan' = {} /\ UNCHANGED <<table, sent>>
    BY <1>8, InsideForm, EmptySequence DEF Restart
  <2> QED
    BY <2>1, EmptySequence DEF NothingDropped
<1> QED
  BY <1>2, <1>3, <1>4, <1>5, <1>6, <1>7, <1>8 DEF Next

(* A batch not yet inserted is new to the table. *)
LEMMA NeverAgain ==
  ASSUME NEW s \in Seq(Event), NEW n \in 1..Len(s), NEW T, Before(T, ToSet(s))
  PROVE  /\ ToSet(SubSeq(s, 1, n)) \intersect T = {}
         /\ ~(ToSet(SubSeq(s, 1, n)) \subseteq T)
<1> DEFINE a == SubSeq(s, 1, n)
<1>1. a \in Seq(Event) /\ Len(a) = n /\ n \in Nat \ {0}
      /\ \A i \in 1..n : a[i] = s[i] /\ i \in DOMAIN s
  OBVIOUS
<1> HIDE DEF a
<1>2. ToSet(a) \subseteq ToSet(s)
  BY <1>1, InToSet
<1>3. a[1] \in ToSet(a)
  BY <1>1, InToSet
<1>4. \A x \in ToSet(s) : x.id \in Nat
  <2>1. Event = [id : 1..MaxEvents, hour : Hours] /\ MaxEvents \in Nat
    BY WriterAssumption DEF Event
  <2>2. \A x \in Event : x.id \in Nat
    BY <2>1
  <2> QED
    BY <2>2, InToSet
<1>5. ToSet(s) \intersect T = {}
  <2> SUFFICES ASSUME NEW x \in ToSet(s), x \in T PROVE FALSE
    OBVIOUS
  <2>1. x.id < x.id /\ x.id \in Nat
    BY <1>4 DEF Before
  <2> QED
    BY <2>1
<1>6. ToSet(a) \intersect T = {} /\ ~(ToSet(a) \subseteq T)
  BY <1>2, <1>3, <1>5
<1> QED
  BY <1>6 DEF a

(* What is younger than the table is not written for the second time. *)
LEMMA NothingRedoneNext ==
  ASSUME TypeOK', Before(ToSet(table'), ToSet(pending'))
  PROVE  ~Redone'
<1> SUFFICES ASSUME flushing' > 0, ToSet(SubSeq(pending', 1, flushing')) \subseteq ToSet(table')
             PROVE  FALSE
  BY DEF Redone, Batch
<1>1. pending' \in Seq(Event) /\ flushing' \in 1..Len(pending')
  BY DEF TypeOK
<1> QED
  BY <1>1, NeverAgain

(* A batch that is not redone is new. *)
LEMMA NewOrRedone ==
  ASSUME WriterInv, flushing > 0
  PROVE  \/ /\ ~Redone /\ Before(ToSet(table), ToSet(pending))
            /\ ToSet(Batch) \intersect ToSet(table) = {}
         \/ Redone /\ ToSet(Batch) \subseteq ToSet(table)
<1>1. flushing \in 1..Len(pending) /\ pending \in Seq(Event)
  BY BatchCut DEF WriterInv
<1>2. Before(ToSet(table), ToSet(pending))
        => /\ ToSet(Batch) \intersect ToSet(table) = {}
           /\ ~(ToSet(Batch) \subseteq ToSet(table))
  BY <1>1, NeverAgain DEF Batch
<1> QED
  BY <1>2 DEF WriterInv, TableOlder, Redone

LEMMA InOrderJoined ==
  ASSUME WriterInv, StoredInOrder, flushing > 0, table' = table \o Batch
  PROVE  StoredInOrder'
<1>1. table \in Seq(Event) /\ Batch \in Seq(Event)
  BY BatchCut DEF WriterInv, TypeOK
<1>2. /\ DOMAIN table = 1..Len(table) /\ Len(table) \in Nat /\ Len(Batch) \in Nat
      /\ DOMAIN table' = 1..(Len(table) + Len(Batch))
      /\ \A i \in 1..Len(table) : table'[i] = table[i]
      /\ \A i \in 1..Len(Batch) : table'[Len(table) + i] = Batch[i]
      /\ \A i \in 1..(Len(table) + Len(Batch)) :
           i \in 1..Len(table) \/ \E j \in 1..Len(Batch) : i = Len(table) + j
  BY <1>1, Joined, SMTT(30)
<1>3. Ascending(Batch) /\ DOMAIN Batch = 1..Len(Batch) /\ ToSet(Batch) \subseteq ToSet(pending)
  <2>1. TypeOK /\ PendingBounded /\ Ascending(pending)
    BY DEF WriterInv, TransitOrdered
  <2>2. ASSUME NEW rest, rest = SubSeq(pending, flushing + 1, Len(pending))
        PROVE  Ascending(Batch) /\ ToSet(Batch) \subseteq ToSet(pending)
    BY <2>1, <2>2, BatchElements
  <2>3. DOMAIN Batch = 1..Len(Batch)
    BY <1>1
  <2> QED
    BY <2>2, <2>3
<1> SUFFICES ASSUME NEW j \in DOMAIN table',
                    \A i \in 1..(j - 1) : table'[i].id # table'[j].id
             PROVE  \A i \in 1..(j - 1) : table'[i].id < table'[j].id
  BY DEF StoredInOrder
<1>4. CASE j \in 1..Len(table)
  <2>1. \A i \in 1..(j - 1) : i \in 1..Len(table) /\ table'[i] = table[i]
    BY <1>2, <1>4
  <2>2. table'[j] = table[j] /\ j \in DOMAIN table
    BY <1>2, <1>4
  <2> QED
    BY <2>1, <2>2 DEF StoredInOrder
<1>5. ASSUME NEW l \in 1..Len(Batch), j = Len(table) + l
      PROVE  \A i \in 1..(j - 1) : table'[i].id < table'[j].id
  <2>1. table'[j] = Batch[l] /\ Batch[l] \in ToSet(Batch)
    BY <1>2, <1>3, <1>5, InToSet
  <2>2. CASE ToSet(Batch) \subseteq ToSet(table)
    <3>1. PICK i \in DOMAIN table : Batch[l] = table[i]
      BY <2>1, <2>2, InToSet
    <3>2. i \in 1..(j - 1) /\ table'[i] = table'[j]
      BY <1>2, <1>5, <2>1, <3>1
    <3> QED
      BY <3>2
  <2>3. CASE Before(ToSet(table), ToSet(pending))
    <3> SUFFICES ASSUME NEW i \in 1..(j - 1) PROVE table'[i].id < table'[j].id
      OBVIOUS
    <3>1. CASE i \in 1..Len(table)
      <4>1. table'[i] \in ToSet(table)
        BY <1>2, <3>1, InToSet
      <4> QED
        BY <1>3, <2>1, <2>3, <4>1 DEF Before
    <3>2. ASSUME NEW k \in 1..Len(Batch), i = Len(table) + k
          PROVE  table'[i].id < table'[j].id
      <4>1. k < l /\ table'[i] = Batch[k]
        BY <1>2, <1>5, <3>2
      <4> QED
        BY <1>3, <2>1, <4>1 DEF Ascending
    <3>3. i \in 1..(Len(table) + Len(Batch))
      BY <1>2, <1>5
    <3> QED
      BY <1>2, <3>1, <3>2, <3>3
  <2> QED
    BY <2>2, <2>3, NewOrRedone
<1> QED
  BY <1>2, <1>4, <1>5

LEMMA InOrderStep ==
  ASSUME WriterInv, StoredInOrder, [Next]_vars
  PROVE  StoredInOrder'
<1>1. CASE UNCHANGED table
  BY <1>1 DEF StoredInOrder
<1>2. CASE InsertOk \/ InsertFails
  BY <1>1, <1>2, InOrderJoined DEF InsertOk, InsertFails
<1>3. ASSUME NEW n \in 1..MaxTransfers, NEW h \in Hours, Analyze(n, h)
      PROVE  UNCHANGED table
  BY <1>3 DEF Analyze, writer
<1>4. CASE SendEvents \/ UpsertOk \/ UpsertFails \/ Receive \/ FlushTick \/ Restart \/ UNCHANGED vars
  BY <1>1, <1>4 DEF SendEvents, UpsertOk, UpsertFails, Receive, FlushTick, Restart, vars, writer
<1> QED
  BY <1>1, <1>2, <1>3, <1>4 DEF Next

(* Distinct elements are counted by the length. *)
LEMMA CountElements ==
  ASSUME NEW s \in Seq(Event)
  PROVE  /\ IsFiniteSet(ToSet(s)) /\ Cardinality(ToSet(s)) \in Nat
         /\ Ascending(s) => Cardinality(ToSet(s)) = Len(s)
<1> DEFINE T == ToSet(s)
<1>1. Len(s) \in Nat /\ DOMAIN s = 1..Len(s) /\ s \in [1..Len(s) -> T]
  <2>1. Len(s) \in Nat /\ DOMAIN s = 1..Len(s) /\ s = [i \in 1..Len(s) |-> s[i]]
    OBVIOUS
  <2>2. \A i \in 1..Len(s) : s[i] \in T
    BY <2>1, InToSet
  <2> QED
    BY <2>1, <2>2
<1>2. \A x \in T : \E i \in 1..Len(s) : s[i] = x
  BY <1>1, InToSet
<1> HIDE DEF T
<1>3. s \in Surjection(1..Len(s), T)
  BY <1>1, <1>2 DEF Surjection
<1>4. IsFiniteSet(1..Len(s)) /\ Cardinality(1..Len(s)) = Len(s)
  BY <1>1, FS_Interval
<1>5. IsFiniteSet(T) /\ (Cardinality(T) = Cardinality(1..Len(s)) <=> s \in Injection(1..Len(s), T))
  BY <1>3, <1>4, FS_Surjection
<1>6. ASSUME Ascending(s)
      PROVE  s \in Injection(1..Len(s), T)
  <2>1. ASSUME NEW i \in 1..Len(s), NEW j \in 1..Len(s), s[i] = s[j]
        PROVE  i = j
    <3>1. s[i].id \in Nat /\ s[j].id \in Nat
      <4>1. s[i] \in Event /\ s[j] \in Event
        BY <1>1
      <4> QED
        BY <4>1, WriterAssumption DEF Event
    <3>2. ~(i < j) /\ ~(j < i)
      BY <1>1, <1>6, <2>1, <3>1 DEF Ascending
    <3> QED
      BY <1>1, <3>2
  <2>2. \A i, j \in 1..Len(s) : s[i] = s[j] => i = j
    BY <2>1
  <2> QED
    BY <1>1, <2>2 DEF Injection, IsInjective
<1>7. Cardinality(T) \in Nat
  BY <1>5, FS_CardinalityType
<1> QED
  BY <1>4, <1>5, <1>6, <1>7 DEF T

LEMMA NextMultiple ==
  ASSUME NEW d \in Nat
  PROVE  (d + 1) * BatchLimit = d * BatchLimit + BatchLimit /\ d * BatchLimit \in Nat
BY WriterAssumption

Doubles(s) == Len(s) - Cardinality(ToSet(s))

LEMMA DoublesJoined ==
  ASSUME WriterInv, flushing > 0
  PROVE  /\ Doubles(table) \in Int
         /\ ~Redone => Doubles(table \o Batch) = Doubles(table)
         /\ Redone => /\ Doubles(table \o Batch) = Doubles(table) + flushing
                      /\ flushing <= BatchLimit /\ flushing \in Nat
<1>1. /\ table \in Seq(Event) /\ Batch \in Seq(Event) /\ Len(Batch) = flushing
      /\ flushing <= BatchLimit /\ flushing \in Nat
  BY BatchCut DEF WriterInv, TypeOK
<1>2. Ascending(Batch)
  <2>1. TypeOK /\ PendingBounded /\ Ascending(pending)
    BY DEF WriterInv, TransitOrdered
  <2>2. ASSUME NEW rest, rest = SubSeq(pending, flushing + 1, Len(pending))
        PROVE  Ascending(Batch)
    BY <2>1, <2>2, BatchElements
  <2> QED
    BY <2>2
<1>3. /\ Len(table \o Batch) = Len(table) + flushing /\ Len(table) \in Nat
      /\ ToSet(table \o Batch) = ToSet(table) \union ToSet(Batch)
  <2>1. table \in Seq(Event) /\ Batch \in Seq(Event) /\ Len(Batch) = flushing
    BY <1>1
  <2>2. Len(table \o Batch) = Len(table) + Len(Batch) /\ Len(table) \in Nat
    BY <2>1, Joined
  <2>3. ToSet(table \o Batch) = ToSet(table) \union ToSet(Batch)
    BY <2>1, ElementsJoined
  <2> QED
    BY <2>1, <2>2, <2>3
<1>4. /\ IsFiniteSet(ToSet(table)) /\ Cardinality(ToSet(table)) \in Nat
      /\ IsFiniteSet(ToSet(Batch)) /\ Cardinality(ToSet(Batch)) = flushing
  BY <1>1, <1>2, CountElements
<1>5. ASSUME ~Redone
      PROVE  Doubles(table \o Batch) = Doubles(table)
  <2>1. ToSet(table) \intersect ToSet(Batch) = {}
    BY <1>5, NewOrRedone
  <2>2. Cardinality(ToSet(table) \union ToSet(Batch))
          = Cardinality(ToSet(table)) + Cardinality(ToSet(Batch)) - Cardinality({})
    BY <1>4, <2>1, FS_Union
  <2> QED
    BY <1>1, <1>3, <1>4, <2>2, FS_EmptySet DEF Doubles
<1>6. ASSUME Redone
      PROVE  Doubles(table \o Batch) = Doubles(table) + flushing
  <2>1. ToSet(table) \union ToSet(Batch) = ToSet(table)
    BY <1>6 DEF Redone
  <2>2. ToSet(table \o Batch) = ToSet(table) /\ Len(table \o Batch) = Len(table) + flushing
    BY <1>3, <2>1
  <2> DEFINE t == table \o Batch
             n == Cardinality(ToSet(table))
  <2>3. Doubles(t) = Len(t) - n /\ Doubles(table) = Len(table) - n /\ n \in Nat
    BY <1>4, <2>2 DEF Doubles
  <2>4. Len(t) = Len(table) + flushing
    BY <2>2
  <2> HIDE DEF t, n
  <2>5. Doubles(t) = Doubles(table) + flushing
    BY <1>1, <1>3, <2>3, <2>4
  <2> QED
    BY <2>5 DEF t
<1> QED
  BY <1>1, <1>3, <1>4, <1>5, <1>6 DEF Doubles

LEMMA DuplicatesStep ==
  ASSUME WriterInv, DuplicatesAccounted, [Next]_vars
  PROVE  DuplicatesAccounted'
<1> USE WriterAssumption
<1>0. /\ TypeOK /\ PendingBounded /\ BatchLimit \in Nat \ {0} /\ doubtful \in Nat
      /\ doubtful * BatchLimit \in Nat
      /\ (doubtful + 1) * BatchLimit = doubtful * BatchLimit + BatchLimit
      /\ Doubles(table) + (IF Redone THEN BatchLimit ELSE 0) <= doubtful * BatchLimit
  BY NextMultiple DEF WriterInv, TypeOK, DuplicatesAccounted, Doubles
<1>00. Doubles(table) \in Int
  BY <1>0, CountElements DEF Doubles, TypeOK
<1>1. ASSUME UNCHANGED <<table, doubtful>>, Redone' => Redone
      PROVE  DuplicatesAccounted'
  <2>1. Doubles(table) + (IF Redone' THEN BatchLimit ELSE 0) <= doubtful * BatchLimit
    BY <1>0, <1>00, <1>1
  <2> QED
    BY <1>1, <2>1 DEF DuplicatesAccounted, Doubles
<1>2. UNCHANGED writer => Redone' = Redone
  BY DEF writer, Redone, Batch
<1>3. ASSUME NEW n \in 1..MaxTransfers, NEW h \in Hours, Analyze(n, h)
      PROVE  DuplicatesAccounted'
  BY <1>1, <1>2, <1>3 DEF Analyze, writer
<1>4. CASE SendEvents \/ UpsertOk \/ UpsertFails \/ UNCHANGED vars
  BY <1>1, <1>2, <1>4 DEF SendEvents, UpsertOk, UpsertFails, vars, writer
<1>5. ASSUME UNCHANGED <<table, doubtful>>, Before(ToSet(table'), ToSet(pending'))
      PROVE  DuplicatesAccounted'
  <2>1. TypeOK'
    BY <1>0, TypeStep
  <2>2. ~Redone'
    BY <1>5, <2>1, NothingRedoneNext
  <2> QED
    BY <1>1, <1>5, <2>2
<1>6. CASE Receive
  BY <1>5, <1>6, ReceivedIsYounger DEF Receive
<1>7. CASE FlushTick
  <2>1. flushing = 0 /\ UNCHANGED <<table, pending, doubtful>>
    BY <1>7 DEF FlushTick
  <2> QED
    BY <1>5, <2>1 DEF WriterInv, TableOlder, Redone
<1>8. CASE Restart
  <2>1. flushing' = 0 /\ UNCHANGED <<table, doubtful>>
    BY <1>8 DEF Restart
  <2> QED
    BY <1>1, <2>1 DEF Redone
<1>9. CASE InsertOk
  <2>1. flushing > 0 /\ flushing' = 0 /\ table' = table \o Batch /\ doubtful' = doubtful
    BY <1>9 DEF InsertOk
  <2>2. Doubles(table \o Batch) <= doubtful * BatchLimit
    BY <1>0, <1>00, <2>1, DoublesJoined
  <2>3. ~Redone'
    BY <2>1 DEF Redone
  <2>4. Doubles(table') + 0 <= doubtful' * BatchLimit
    BY <1>0, <2>1, <2>2, DoublesJoined
  <2> QED
    BY <2>3, <2>4 DEF DuplicatesAccounted, Doubles
<1>10. CASE InsertFails
  <2>1. flushing > 0 /\ UNCHANGED <<pending, flushing>> /\ Batch' = Batch
    BY <1>10 DEF InsertFails, Batch
  <2>2. CASE UNCHANGED <<table, doubtful>>
    BY <1>1, <2>1, <2>2 DEF Redone
  <2>3. CASE table' = table \o Batch /\ doubtful' = doubtful + 1
    <3>1. Doubles(table \o Batch) \in Int /\ Doubles(table \o Batch) <= doubtful * BatchLimit
      BY <1>0, <1>00, <2>1, DoublesJoined
    <3>2. Doubles(table') + BatchLimit <= doubtful' * BatchLimit
      BY <1>0, <2>3, <3>1
    <3>3. Doubles(table') + 0 <= doubtful' * BatchLimit
      BY <1>0, <2>3, <3>1
    <3> QED
      BY <3>2, <3>3 DEF DuplicatesAccounted, Doubles
  <2> QED
    BY <1>10, <2>2, <2>3 DEF InsertFails
<1> QED
  BY <1>3, <1>4, <1>6, <1>7, <1>8, <1>9, <1>10 DEF Next

(* What is sent is stored, in its order, and again only where the reply of *)
(* an insert was lost.                                                     *)
THEOREM StoredAsSentHolds == Spec => []StoredAsSent
<1>1. Init => StoredAsSent
  <2> SUFFICES ASSUME Init PROVE StoredAsSent
    OBVIOUS
  <2>1. /\ table = <<>> /\ pending = <<>> /\ sent = <<>> /\ lost = {} /\ flushing = 0
        /\ doubtful = 0 /\ InChan = {}
    BY InsideForm, EmptySequence DEF Init
  <2>2. Cardinality(ToSet(table)) = 0 /\ Len(table) = 0 /\ ~Redone
    BY <2>1, EmptySequence, FS_EmptySet DEF Redone
  <2> QED
    BY <2>1, <2>2, EmptySequence, WriterAssumption
       DEF StoredAsSent, NothingDropped, StoredInOrder, DuplicatesAccounted
<1>2. WriterInv /\ StoredAsSent /\ [Next]_vars => StoredAsSent'
  BY NothingDroppedStep, InOrderStep, DuplicatesStep DEF StoredAsSent
<1> QED
  BY <1>1, <1>2, Invariance, PTL DEF Spec

-----------------------------------------------------------------------------
(* Counting the transfers of an hour. *)
Indices(s, h) == {i \in DOMAIN s : s[i].hour = h}

LEMMA FiniteIndices ==
  ASSUME NEW s \in Seq(Event), NEW h
  PROVE  /\ IsFiniteSet(Indices(s, h)) /\ CountOf(s, h) \in Nat
         /\ CountOf(s, h) = Cardinality(Indices(s, h))
<1>1. IsFiniteSet(DOMAIN s) /\ Indices(s, h) \in SUBSET DOMAIN s
  BY FS_Interval DEF Indices
<1>2. IsFiniteSet(Indices(s, h)) /\ Cardinality(Indices(s, h)) \in Nat
  BY <1>1, FS_Subset, FS_CardinalityType
<1> QED
  BY <1>2 DEF CountOf, Indices

LEMMA CountJoined ==
  ASSUME NEW s \in Seq(Event), NEW t \in Seq(Event), NEW h
  PROVE  CountOf(s \o t, h) = CountOf(s, h) + CountOf(t, h)
<1> DEFINE u == s \o t
           A == Indices(s, h)
           B == Indices(t, h)
           C == {Len(s) + j : j \in B}
           f == [j \in B |-> Len(s) + j]
<1>1. /\ DOMAIN s = 1..Len(s) /\ DOMAIN t = 1..Len(t) /\ Len(s) \in Nat /\ Len(t) \in Nat
      /\ DOMAIN u = 1..(Len(s) + Len(t)) /\ u \in Seq(Event)
      /\ \A i \in 1..Len(s) : u[i] = s[i]
      /\ \A i \in 1..Len(t) : u[Len(s) + i] = t[i]
      /\ \A i \in 1..(Len(s) + Len(t)) :
           i \in 1..Len(s) \/ \E j \in 1..Len(t) : i = Len(s) + j
  <2>1. s \in Seq(Event) /\ t \in Seq(Event)
    OBVIOUS
  <2> QED
    BY ONLY <2>1, Joined, SMTT(30)
<1>2. IsFiniteSet(A) /\ IsFiniteSet(B) /\ Cardinality(A) = CountOf(s, h)
      /\ Cardinality(B) = CountOf(t, h) /\ CountOf(s, h) \in Nat /\ CountOf(t, h) \in Nat
  BY FiniteIndices
<1>3. CountOf(u, h) = Cardinality(Indices(u, h))
  BY <1>1, FiniteIndices
<1> HIDE DEF u
<1>4. Indices(u, h) = A \union C
  <2>1. ASSUME NEW i \in Indices(u, h)
        PROVE  i \in A \/ i \in C
    <3>1. i \in 1..(Len(s) + Len(t)) /\ u[i].hour = h
      BY <1>1, <2>1 DEF Indices
    <3>2. CASE i \in 1..Len(s)
      BY <1>1, <3>1, <3>2 DEF Indices
    <3>3. ASSUME NEW j \in 1..Len(t), i = Len(s) + j
          PROVE  i \in C
      <4>1. t[j].hour = h /\ j \in B
        BY <1>1, <3>1, <3>3 DEF Indices
      <4> QED
        BY <3>3, <4>1
    <3> QED
      BY <1>1, <3>1, <3>2, <3>3
  <2>2. ASSUME NEW i \in A
        PROVE  i \in Indices(u, h)
    BY <1>1, <2>2 DEF Indices
  <2>3. ASSUME NEW j \in B
        PROVE  Len(s) + j \in Indices(u, h)
    BY <1>1, <2>3 DEF Indices
  <2> QED
    BY <2>1, <2>2, <2>3
<1>5. A \intersect C = {}
  BY <1>1 DEF Indices
<1>6. B \subseteq Nat
  BY <1>1 DEF Indices
<1> HIDE DEF A, B
<1>7. f \in [B -> C] /\ (\A x \in C : \E j \in B : f[j] = x) /\ (\A i, j \in B : f[i] = f[j] => i = j)
  <2>1. f \in [B -> C] /\ \A x \in C : \E j \in B : f[j] = x
    OBVIOUS
  <2>2. \A i, j \in B : Len(s) + i = Len(s) + j => i = j
    BY <1>1, <1>6
  <2>3. \A i, j \in B : f[i] = f[j] => i = j
    BY <2>2
  <2> QED
    BY <2>1, <2>3
<1> HIDE DEF C, f
<1>8. f \in Surjection(B, C) /\ f \in Injection(B, C)
  BY <1>7, Zenon DEF Surjection, Injection, IsInjective
<1>9. IsFiniteSet(C) /\ Cardinality(C) = Cardinality(B)
  BY <1>2, <1>8, FS_Surjection
<1>10. Cardinality(A \union C) = Cardinality(A) + Cardinality(C) - Cardinality({})
  BY <1>2, <1>5, <1>9, FS_Union
<1>11. CountOf(u, h) = CountOf(s, h) + CountOf(t, h)
  BY <1>2, <1>3, <1>4, <1>9, <1>10, FS_EmptySet
<1> QED
  BY <1>11 DEF u

(* What the hourly row will count when the consumer is done with it. *)
Accounted ==
  \A h \in Hours :
    LET due == IF stage = "upsert" THEN CountOf(current, h) ELSE 0
    IN  /\ activity[h] + due <= CountOf(sent, h)
        /\ errors = 0 /\ restarts = 0 => activity[h] + due = CountOf(sent, h)

LEMMA CountsTyped ==
  ASSUME TypeOK, NEW h \in Hours
  PROVE  activity[h] \in Nat /\ CountOf(current, h) \in Nat /\ CountOf(sent, h) \in Nat
         /\ errors \in Nat /\ restarts \in Nat
BY FiniteIndices, WriterAssumption DEF TypeOK

LEMMA AccountedStep ==
  ASSUME WriterInv, Accounted, [Next]_vars
  PROVE  Accounted'
<1>0. TypeOK
  BY DEF WriterInv
<1>1. ASSUME UNCHANGED <<stage, current, activity, errors, sent, restarts>>
      PROVE  Accounted'
  BY <1>1 DEF Accounted, CountOf
<1>2. CASE Receive \/ FlushTick \/ InsertOk \/ InsertFails \/ UNCHANGED vars
  BY <1>1, <1>2
     DEF Receive, FlushTick, InsertOk, InsertFails, vars, consumer, totals, history
<1>3. ASSUME NEW n \in 1..MaxTransfers, NEW g \in Hours, Analyze(n, g)
      PROVE  Accounted'
  <2>1. /\ stage = "idle" /\ stage' = "send"
        /\ UNCHANGED <<activity, errors, sent, restarts>>
    BY <1>3 DEF Analyze, totals
  <2> QED
    BY <2>1 DEF Accounted, CountOf
<1>4. CASE SendEvents
  <2>1. /\ stage = "send" /\ stage' = "upsert" /\ sent' = sent \o current
        /\ UNCHANGED <<current, activity, errors, restarts>>
        /\ sent \in Seq(Event) /\ current \in Seq(Event)
    BY <1>0, <1>4 DEF SendEvents, totals, TypeOK
  <2>2. ASSUME NEW h \in Hours
        PROVE  /\ activity'[h] + CountOf(current', h) <= CountOf(sent', h)
               /\ errors' = 0 /\ restarts' = 0
                    => activity'[h] + CountOf(current', h) = CountOf(sent', h)
    <3>1. CountOf(sent', h) = CountOf(sent, h) + CountOf(current, h)
      BY <2>1, CountJoined
    <3>2. CountOf(current', h) = CountOf(current, h)
      BY <2>1
    <3>3. /\ activity[h] + 0 <= CountOf(sent, h)
          /\ errors = 0 /\ restarts = 0 => activity[h] + 0 = CountOf(sent, h)
      BY <2>1 DEF Accounted
    <3> QED
      BY <1>0, <2>1, <3>1, <3>2, <3>3, CountsTyped
  <2> QED
    BY <2>1, <2>2 DEF Accounted, CountOf
<1>5. CASE UpsertOk \/ UpsertFails
  <2>1. /\ stage = "upsert" /\ stage' = "idle" /\ UNCHANGED <<sent, restarts>>
        /\ \/ AddActivity /\ errors' = errors
           \/ (UNCHANGED activity \/ AddActivity) /\ errors' = errors + 1
    BY <1>5 DEF UpsertOk, UpsertFails, history
  <2>2. ASSUME NEW h \in Hours
        PROVE  /\ activity'[h] + 0 <= CountOf(sent', h)
               /\ errors' = 0 /\ restarts' = 0 => activity'[h] + 0 = CountOf(sent', h)
    <3>1. CountOf(sent', h) = CountOf(sent, h)
      BY <2>1
    <3>2. /\ activity[h] + CountOf(current, h) <= CountOf(sent, h)
          /\ errors = 0 /\ restarts = 0 => activity[h] + CountOf(current, h) = CountOf(sent, h)
      BY <2>1 DEF Accounted
    <3>3. AddActivity => activity'[h] = activity[h] + CountOf(current, h)
      BY DEF AddActivity
    <3> QED
      BY <1>0, <2>1, <3>1, <3>2, <3>3, CountsTyped
  <2> QED
    BY <2>1, <2>2 DEF Accounted, CountOf
<1>6. CASE Restart
  <2>1. /\ stage' = "idle" /\ restarts' = restarts + 1 /\ UNCHANGED <<activity, errors, sent>>
    BY <1>6 DEF Restart, totals
  <2>2. ASSUME NEW h \in Hours
        PROVE  activity'[h] + 0 <= CountOf(sent', h) /\ restarts' # 0
    <3>1. activity[h] <= CountOf(sent, h)
      BY <1>0, CountsTyped DEF Accounted
    <3>2. CountOf(sent', h) = CountOf(sent, h)
      BY <2>1
    <3> QED
      BY <1>0, <2>1, <3>1, <3>2, CountsTyped
  <2> QED
    BY <2>1, <2>2 DEF Accounted, CountOf
<1> QED
  BY <1>2, <1>3, <1>4, <1>5, <1>6 DEF Next

(* The hourly row counts no transfer twice, and misses one only after an   *)
(* error or a restart.                                                     *)
THEOREM ActivityMatchesSentHolds == Spec => []ActivityMatchesSent
<1>1. Init => Accounted
  <2> SUFFICES ASSUME Init PROVE Accounted
    OBVIOUS
  <2>1. stage = "idle" /\ sent = <<>> /\ sent \in Seq(Event)
    BY DEF Init
  <2>2. ASSUME NEW h \in Hours
        PROVE  activity[h] = 0 /\ CountOf(sent, h) = 0
    <3>1. Indices(sent, h) = {}
      BY <2>1 DEF Indices
    <3> QED
      BY <2>1, <2>2, <3>1, FiniteIndices, FS_EmptySet DEF Init
  <2> QED
    BY <2>1, <2>2 DEF Accounted
<1>2. WriterInv /\ Accounted /\ [Next]_vars => Accounted'
  BY AccountedStep
<1>3. WriterInv /\ Accounted => ActivityMatchesSent
  <2> SUFFICES ASSUME WriterInv, Accounted, NEW h \in Hours
               PROVE  /\ activity[h] <= CountOf(sent, h)
                      /\ errors = 0 /\ restarts = 0 /\ stage # "upsert"
                           => activity[h] = CountOf(sent, h)
    BY DEF ActivityMatchesSent
  <2>1. activity[h] \in Nat /\ CountOf(current, h) \in Nat /\ CountOf(sent, h) \in Nat
    BY CountsTyped DEF WriterInv
  <2> QED
    BY <2>1 DEF Accounted
<1> QED
  BY <1>1, <1>2, <1>3, Invariance, PTL DEF Spec

-----------------------------------------------------------------------------
(* TransferWriter implements AtLeastOnceLog: what the log sees of a state. *)
Waiting == ToSet(pending) \union InChan
Again   == IF Redone THEN ToSet(Batch) ELSE {}

(* Transfers are found in the order of their numbers. *)
SentOlder ==
  /\ \A x \in ToSet(sent) : x.id <= made
  /\ stage = "send" => Before(ToSet(sent), ToSet(current))

LEMMA SentNumbered ==
  ASSUME TypeOK
  PROVE  made \in Nat /\ \A x \in ToSet(sent) \union ToSet(current) : x.id \in Nat
<1>1. made \in Nat /\ sent \in Seq(Event) /\ current \in Seq(Event)
  BY WriterAssumption DEF TypeOK
<1>2. \A x \in Event : x.id \in Nat
  BY WriterAssumption DEF Event
<1>3. ToSet(sent) \subseteq Event /\ ToSet(current) \subseteq Event
  BY <1>1 DEF ToSet
<1> QED
  BY <1>1, <1>2, <1>3

LEMMA SentOlderStep ==
  ASSUME WriterInv, SentOlder, [Next]_vars
  PROVE  SentOlder'
<1>0. TypeOK /\ TransitOrdered
  BY DEF WriterInv
<1>1. ASSUME NEW n \in 1..MaxTransfers, NEW h \in Hours, Analyze(n, h)
      PROVE  SentOlder'
  <2>1. /\ DOMAIN current' = 1..n /\ \A i \in 1..n : current'[i].id = made + i
        /\ sent' = sent /\ made' = made + n
    BY <1>0, <1>1, CurrentTyped DEF Analyze
  <2>2. \A x \in ToSet(sent) : x.id \in Nat /\ x.id <= made
    BY <1>0, SentNumbered DEF SentOlder
  <2>3. \A y \in ToSet(current') : made < y.id
    <3>1. \A i \in 1..n : made < current'[i].id
      BY <1>0, <2>1, SentNumbered
    <3> QED
      BY <2>1, <3>1 DEF ToSet
  <2>4. \A y \in ToSet(current') : y.id \in Nat
    BY <1>0, <2>1, SentNumbered DEF ToSet
  <2>5. made \in Nat /\ made <= made'
    BY <1>0, <2>1, SentNumbered
  <2>6. Before(ToSet(sent'), ToSet(current'))
    <3> SUFFICES ASSUME NEW x \in ToSet(sent), NEW y \in ToSet(current') PROVE x.id < y.id
      BY <2>1 DEF Before
    <3> QED
      BY <2>2, <2>3, <2>4, <2>5
  <2>7. \A x \in ToSet(sent') : x.id <= made'
    <3> SUFFICES ASSUME NEW x \in ToSet(sent) PROVE x.id <= made'
      BY <2>1
    <3>1. made' \in Nat
      BY <2>1, <2>5
    <3> QED
      BY <2>2, <2>5, <3>1
  <2> QED
    BY <2>6, <2>7 DEF SentOlder
<1>2. CASE SendEvents
  <2>1. /\ stage' = "upsert" /\ made' = made /\ ToSet(sent') = ToSet(sent) \union ToSet(current)
    BY <1>0, <1>2, ElementsJoined DEF SendEvents, TypeOK
  <2>2. \A x \in ToSet(current) : x.id <= made
    BY <1>0 DEF TransitOrdered
  <2> QED
    BY <2>1, <2>2 DEF SentOlder
<1>3. CASE UpsertOk \/ UpsertFails \/ Restart
  BY <1>3 DEF UpsertOk, UpsertFails, Restart, history, SentOlder
<1>4. CASE Receive \/ FlushTick \/ InsertOk \/ InsertFails \/ UNCHANGED vars
  BY <1>4 DEF Receive, FlushTick, InsertOk, InsertFails, vars, consumer, history, SentOlder
<1> QED
  BY <1>1, <1>2, <1>3, <1>4 DEF Next

(* The log counts as the pipeline does. *)
LEMMA SameCount == \A S : Log!Cardinality(S) = Cardinality(S)
BY DEF Log!Cardinality, Cardinality

(* The insert under way is a write of the log: it takes the oldest of what *)
(* waits, in order, and what was in doubt before anything else.            *)
LEMMA InsertWrites ==
  ASSUME WriterInv, flushing > 0, table' = table \o Batch
  PROVE  /\ ToSet(Batch) \in SUBSET Waiting /\ Log!Writes(ToSet(Batch))
         /\ ToSet(SubSeq(pending, flushing + 1, Len(pending))) \union InChan
              = Waiting \ ToSet(Batch)
<1> DEFINE B == ToSet(Batch)
<1>1. /\ TypeOK /\ PendingBounded /\ Ascending(pending)
      /\ Before(ToSet(pending), InChan)
  BY DEF WriterInv, TransitOrdered, Before
<1>2. /\ flushing \in 1..Len(pending) /\ flushing <= BatchLimit
      /\ Batch \in Seq(Event) /\ Len(Batch) = flushing
  BY <1>1, BatchCut
<1>3. PICK rest : rest = SubSeq(pending, flushing + 1, Len(pending))
  OBVIOUS
<1>4. /\ ToSet(pending) = B \union ToSet(rest)
      /\ Ascending(Batch) /\ Before(B, ToSet(rest))
  BY <1>1, <1>3, BatchElements
<1>5. Before(B, ToSet(rest) \union InChan)
  BY <1>1, <1>4 DEF Before
<1>6. B \intersect (ToSet(rest) \union InChan) = {}
  <2> SUFFICES ASSUME NEW x \in B, x \in ToSet(rest) \union InChan PROVE FALSE
    OBVIOUS
  <2>1. x.id < x.id
    BY <1>5 DEF Before
  <2>2. x.id \in Nat
    BY <1>1, <1>4, Elements
  <2> QED
    BY <2>1, <2>2
<1>7. Waiting \ B = ToSet(rest) \union InChan /\ B \subseteq Waiting
  BY <1>4, <1>6 DEF Waiting
<1>8. /\ B # {} /\ Cardinality(B) = flushing
      /\ Batch \in Log!Listings(B)
  <2>1. DOMAIN Batch = 1..flushing /\ flushing \in Nat /\ 1 \in 1..flushing
    BY <1>2
  <2>2. Cardinality(B) = flushing
    BY <1>2, <1>4, CountElements
  <2>3. Batch \in [1..flushing -> B]
    <3>1. \A i \in 1..flushing : Batch[i] \in B
      BY <2>1, InToSet
    <3>2. Batch = [i \in 1..flushing |-> Batch[i]]
      BY <1>2, <2>1
    <3> QED
      BY <3>1, <3>2
  <2>4. \A i, j \in 1..flushing : i < j => Batch[i].id < Batch[j].id
    BY <1>4, <2>1 DEF Ascending
  <2>5. B # {}
    BY <2>1, InToSet
  <2> QED
    BY <2>2, <2>3, <2>4, <2>5, SameCount DEF Log!Listings
<1>9. Log!Writes(B)
  <2>1. Log!Earlier(B, Waiting \ B)
    BY <1>5, <1>7 DEF Log!Earlier, Before
  <2>2. Again \in {{}, B}
    BY DEF Again
  <2>3. Cardinality(B) <= BatchLimit
    BY <1>2, <1>8
  <2>4. \E b \in Log!Listings(B) : table' = table \o b
    BY <1>8
  <2> QED
    BY <1>8, <2>1, <2>2, <2>3, <2>4, SameCount DEF Log!Writes, Again, Waiting
<1> QED
  BY <1>3, <1>7, <1>9

(* Every step of the pipeline is a step of the log, or the log does not    *)
(* see it.                                                                 *)
LEMMA LogStep ==
  ASSUME WriterInv, WriterInv', SentOlder, [Next]_vars
  PROVE  [Log!Next]_(Log!logVars)
<1> DEFINE seen == <<ToSet(sent), Waiting, table, Again, doubtful + restarts>>
<1>0. TypeOK /\ PendingBounded /\ TransitOrdered
  BY DEF WriterInv
<1>1. ASSUME UNCHANGED seen
      PROVE  UNCHANGED Log!logVars
  BY <1>1 DEF Log!logVars, Waiting, Again
<1>2. UNCHANGED writer => Redone' = Redone /\ Batch' = Batch
  BY DEF writer, Redone, Batch
<1>3. ASSUME UNCHANGED <<sent, chan, writer, restarts>>
      PROVE  UNCHANGED seen
  BY <1>2, <1>3 DEF writer, Waiting, Again, InChan
<1>4. CASE (\E n \in 1..MaxTransfers, h \in Hours : Analyze(n, h))
           \/ UpsertOk \/ UpsertFails \/ UNCHANGED vars
  <2>1. UNCHANGED <<sent, chan, writer, restarts>>
    BY <1>4 DEF Analyze, UpsertOk, UpsertFails, vars, history
  <2> QED
    BY <1>1, <1>3, <2>1
<1>5. CASE SendEvents
  <2> DEFINE new == ToSet(current)
  <2>1. /\ stage = "send" /\ chan' = Append(chan, current) /\ sent' = sent \o current
        /\ UNCHANGED <<writer, restarts>> /\ current \in Seq(Event)
        /\ chan \in Seq(Seq(Event)) /\ sent \in Seq(Event)
    BY <1>0, <1>5 DEF SendEvents, TypeOK
  <2>2. ToSet(sent') = ToSet(sent) \union new
    BY <2>1, ElementsJoined
  <2>3. Waiting' = Waiting \union new
    <3>1. InChan' = InChan \union new
      BY <2>1, InsideAppend, InsideForm
    <3> QED
      BY <2>1, <3>1 DEF Waiting, writer
  <2>4. Before(ToSet(sent), new)
    BY <2>1 DEF SentOlder
  <2>5. ToSet(sent') \ ToSet(sent) = new
    <3> SUFFICES ASSUME NEW x \in ToSet(sent), x \in new PROVE FALSE
      BY <2>2
    <3> QED
      BY <1>0, <2>4, SentNumbered DEF Before
  <2>6. UNCHANGED <<table, Again, doubtful + restarts>>
    BY <1>2, <2>1 DEF Again, writer
  <2>7. Log!Accept
    BY <2>2, <2>3, <2>4, <2>5, <2>6 DEF Log!Accept, Log!Earlier, Before, Waiting, Again
  <2> QED
    BY <2>7 DEF Log!Next
<1>6. CASE Receive
  <2>1. /\ chan \in Seq(Seq(Event)) /\ chan # <<>> /\ flushing = 0 /\ pending \in Seq(Event)
        /\ pending' = pending \o Head(chan) /\ chan' = Tail(chan)
        /\ UNCHANGED <<table, sent, doubtful, restarts>>
    BY <1>0, <1>6 DEF Receive, TypeOK, history
  <2>2. Waiting' = Waiting
    <3>1. /\ Head(chan) \in Seq(Event)
          /\ Inside(chan) = ToSet(Head(chan)) \union Inside(chan')
      BY <2>1, InsideTail
    <3>2. ToSet(pending') = ToSet(pending) \union ToSet(Head(chan))
      BY <2>1, <3>1, ElementsJoined
    <3> QED
      BY <3>1, <3>2, InsideForm DEF Waiting
  <2>3. ~Redone
    BY <2>1 DEF Redone
  <2>4. ~Redone'
    BY <1>6, ReceivedIsYounger, NothingRedoneNext DEF WriterInv
  <2> QED
    BY <1>1, <2>1, <2>2, <2>3, <2>4 DEF Again
<1>7. CASE FlushTick
  <2>1. flushing = 0 /\ UNCHANGED <<table, pending, chan, sent, doubtful, restarts>>
    BY <1>7 DEF FlushTick, history
  <2>2. ~Redone /\ Before(ToSet(table), ToSet(pending))
    BY <2>1 DEF Redone, WriterInv, TableOlder
  <2>3. ~Redone'
    BY <2>1, <2>2, NothingRedoneNext DEF WriterInv
  <2> QED
    BY <1>1, <2>1, <2>2, <2>3 DEF Again, Waiting, InChan
<1>8. CASE InsertOk
  <2>1. /\ flushing > 0 /\ flushing' = 0 /\ table' = table \o Batch
        /\ pending' = SubSeq(pending, flushing + 1, Len(pending))
        /\ UNCHANGED <<chan, sent, doubtful, restarts>>
    BY <1>8 DEF InsertOk, history
  <2>2. /\ ToSet(Batch) \in SUBSET Waiting /\ Log!Writes(ToSet(Batch))
        /\ Waiting' = Waiting \ ToSet(Batch)
    BY <2>1, InsertWrites DEF Waiting, InChan
  <2>3. Again' = {}
    BY <2>1 DEF Again, Redone
  <2>4. Log!Store
    BY <2>1, <2>2, <2>3 DEF Log!Store, Waiting, Again
  <2> QED
    BY <2>4 DEF Log!Next
<1>9. CASE InsertFails
  <2>1. flushing > 0 /\ UNCHANGED <<chan, sent, pending, flushing, restarts>> /\ Batch' = Batch
    BY <1>9 DEF InsertFails, history, Batch
  <2>2. CASE UNCHANGED <<table, doubtful>>
    BY <1>1, <2>1, <2>2 DEF Again, Redone, Waiting, InChan
  <2>3. CASE doubtful' = doubtful + 1 /\ table' = table \o Batch
    <3>1. ToSet(Batch) \in SUBSET Waiting /\ Log!Writes(ToSet(Batch))
      BY <2>1, <2>3, InsertWrites
    <3>2. Redone'
      <4>1. ToSet(table') = ToSet(table) \union ToSet(Batch)
        BY <1>0, <2>1, <2>3, BatchCut, ElementsJoined DEF TypeOK
      <4> QED
        BY <2>1, <4>1 DEF Redone
    <3>3. Again' = ToSet(Batch) /\ Waiting' = Waiting
      BY <2>1, <3>2 DEF Again, Waiting, InChan
    <3>4. doubtful' + restarts' = (doubtful + restarts) + 1
      BY <1>0, <2>1, <2>3, WriterAssumption DEF TypeOK
    <3>5. Log!StoreUnsure
      BY <2>1, <3>1, <3>3, <3>4 DEF Log!StoreUnsure, Waiting, Again
    <3> QED
      BY <3>5 DEF Log!Next
  <2> QED
    BY <1>9, <2>2, <2>3 DEF InsertFails
<1>10. CASE Restart
  <2>1. /\ restarts' = restarts + 1 /\ chan' = <<>> /\ pending' = <<>> /\ flushing' = 0
        /\ UNCHANGED <<table, sent, doubtful>>
    BY <1>10 DEF Restart
  <2>2. Waiting' = {} /\ Again' = {}
    BY <2>1, EmptySequence, InsideForm DEF Waiting, Again, Redone
  <2>3. doubtful' + restarts' = (doubtful + restarts) + 1
    BY <1>0, <2>1, WriterAssumption DEF TypeOK
  <2>4. Log!Crash
    BY <2>1, <2>2, <2>3 DEF Log!Crash, Waiting, Again
  <2> QED
    BY <2>4 DEF Log!Next
<1> QED
  BY <1>1, <1>4, <1>5, <1>6, <1>7, <1>8, <1>9, <1>10 DEF Next

(* The pipeline is a log written in order and at least once: whatever the  *)
(* sizes of channel and batch, the table cannot tell that there are any.   *)
THEOREM Refinement == Spec => ImplementsLog
<1>1. Init => Log!Init
  <2> SUFFICES ASSUME Init PROVE Log!Init
    OBVIOUS
  <2>1. /\ table = <<>> /\ pending = <<>> /\ sent = <<>> /\ flushing = 0
        /\ doubtful = 0 /\ restarts = 0 /\ InChan = {}
    BY InsideForm, EmptySequence DEF Init
  <2>2. ~Redone
    BY <2>1 DEF Redone
  <2> QED
    BY <2>1, <2>2, EmptySequence DEF Log!Init
<1>2. Init => SentOlder
  BY EmptySequence DEF Init, SentOlder
<1>3. WriterInv /\ SentOlder /\ [Next]_vars => SentOlder'
  BY SentOlderStep
<1>4. WriterInv /\ WriterInv' /\ SentOlder /\ [Next]_vars => [Log!Next]_(Log!logVars)
  BY LogStep
<1> QED
  BY <1>1, <1>2, <1>3, <1>4, Invariance, PTL DEF Spec, ImplementsLog, Log!Spec
=============================================================================
