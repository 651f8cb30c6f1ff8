---------------------------- MODULE AnalyticsProofs ----------------------------
(***************************************************************************)
(* Of the two stages of HourlyRollup: RollupInv is inductive, for any      *)
(* clock, any reach and any transfers; metrics and daily totals never run  *)
(* ahead of what they are made from, and no daily total ever shrinks.      *)
(*                                                                         *)
(* Of VwapOptimizer: what computeVWAP and backtest compute, for a series   *)
(* of any length.  A run of the backtest is a function from the hours to   *)
(* states, and what holds of its states is shown hour by hour              *)
(* (NumbersOneByOne of DataTheorems).                                      *)
(***************************************************************************)
EXTENDS HourlyRollup, VwapOptimizer, DataTheorems, SequenceTheorems

-----------------------------------------------------------------------------
(* HourlyRollup.  The calendar. *)
LEMMA HoursFacts ==
  /\ Hours \subseteq Nat /\ IsFiniteSet(Hours)
  /\ \A S \in SUBSET Hours : IsFiniteSet(S)
<1>1. IsFiniteSet(Hours) /\ Hours \subseteq Nat
  BY FS_Interval, RollupAssumption DEF Hours
<1> QED
  BY <1>1, FS_Subset

(* The hours BETWEEN the first and the last of a day are those whose day   *)
(* it is.                                                                  *)
LEMMA HoursOfDayAre ==
  ASSUME NEW d \in Days
  PROVE  HoursOfDay(d) = {h \in Hours : DayOf(h) = d}
<1>1. d \in Nat /\ HoursPerDay \in Nat /\ HoursPerDay > 0
  BY RollupAssumption DEF Days, DayOf
<1>2. ASSUME NEW h \in Nat
      PROVE  (d * HoursPerDay <= h /\ h <= d * HoursPerDay + (HoursPerDay - 1)) <=> h \div HoursPerDay = d
  BY <1>1
<1> QED
  BY <1>2, HoursFacts DEF HoursOfDay, DayOf

-----------------------------------------------------------------------------
(* Sums of metrics. *)
LEMMA MeteredType ==
  ASSUME TypeOK, NEW d
  PROVE  Metered(d) \in Nat
<1>1. \A h \in Hours : hourly[h] \in Nat
  BY RollupAssumption DEF TypeOK, Counts
<1> QED
  BY <1>1, HoursFacts, SumType DEF Metered

LEMMA MeteredGrows ==
  ASSUME TypeOK, TypeOK', \A h \in Hours : hourly[h] <= hourly'[h], NEW d
  PROVE  Metered(d) <= Metered(d)' /\ Metered(d)' \in Nat
<1>1. \A h \in Hours : hourly[h] \in Nat /\ hourly'[h] \in Nat
  BY RollupAssumption DEF TypeOK, Counts
<1>2. SumFunctionOnSet(hourly, {h \in Hours : DayOf(h) = d})
        <= SumFunctionOnSet(hourly', {h \in Hours : DayOf(h) = d})
  BY <1>1, HoursFacts, SumMonotone
<1>3. SumFunctionOnSet(hourly', {h \in Hours : DayOf(h) = d}) \in Nat
  BY <1>1, HoursFacts, SumType
<1> QED
  BY <1>2, <1>3 DEF Metered

(* The hours without activity, which the daily query leaves out, have no   *)
(* metrics.                                                                *)
LEMMA DayTotalIs ==
  ASSUME TypeOK, DraftsGrounded, NEW d \in Days
  PROVE  DayTotal(d) = Metered(d)
<1> DEFINE S == {h \in Hours : DayOf(h) = d}
           P == {h \in S : activity[h] > 0}
<1>1. DayTotal(d) = SumFunctionOnSet(hourly, P)
  BY HoursOfDayAre DEF DayTotal
<1>2. \A h \in S : hourly[h] \in Nat
  BY RollupAssumption DEF TypeOK, Counts
<1>3. \A h \in S \ P : hourly[h] = 0
  BY <1>2 DEF DraftsGrounded, TypeOK, Counts
<1>4. IsFiniteSet(S) /\ P \subseteq S
  BY HoursFacts
<1> HIDE DEF S, P
<1>5. SumFunctionOnSet(hourly, P) = SumFunctionOnSet(hourly, S)
  BY <1>2, <1>3, <1>4, SumWhere
<1> QED
  BY <1>1, <1>5 DEF Metered, S

-----------------------------------------------------------------------------
LEMMA RollupInitially == Init => RollupInv
<1> SUFFICES ASSUME Init PROVE RollupInv
  OBVIOUS
<1>1. TypeOK
  <2>1. 0 \in Hours /\ 0 \in Counts
    BY RollupAssumption DEF Hours, Counts
  <2> QED
    BY <2>1 DEF Init, TypeOK
<1>2. \A d \in Days : daily[d] <= Metered(d)
  BY <1>1, MeteredType DEF Init
<1> QED
  BY <1>1, <1>2 DEF Init, RollupInv, RollupsGrounded, DraftsGrounded

(* The types are kept by every action. *)
LEMMA TypesKept ==
  ASSUME RollupInv, [Next]_vars
  PROVE  TypeOK'
<1> USE DEF TypeOK, RollupInv, tables, hourlyStage, dailyStage
<1>1. CASE Tick
  BY <1>1, RollupAssumption DEF Tick, Hours
<1>2. ASSUME NEW h \in Hours, Count(h) \/ Store(h)
      PROVE  TypeOK'
  BY <1>2, RollupAssumption DEF Count, Store, Counts
<1>3. CASE ReadHours
  BY <1>3, RollupAssumption DEF ReadHours, Counts
<1>4. CASE AbortHours
  <2>1. 0 \in Counts
    BY RollupAssumption DEF Counts
  <2> QED
    BY <1>4, <2>1 DEF AbortHours
<1>5. ASSUME NEW failed \in SUBSET Hours, CommitHours(failed)
      PROVE  TypeOK'
  <2>1. 0 \in Counts
    BY RollupAssumption DEF Counts
  <2>2. hourly' \in [Hours -> Counts] /\ draft' = [h \in Hours |-> 0]
    BY <1>5 DEF CommitHours
  <2> QED
    BY <1>5, <2>1, <2>2 DEF CommitHours
<1>6. CASE ReadDays
  <2>1. \A d \in Days : DayTotal(d) \in Nat
    BY DayTotalIs, MeteredType
  <2> QED
    BY <1>6, <2>1 DEF ReadDays
<1>7. CASE AbortDays
  BY <1>7 DEF AbortDays
<1>8. ASSUME NEW failed \in SUBSET Days, CommitDays(failed)
      PROVE  TypeOK'
  <2>1. daily' \in [Days -> Nat] /\ dayDraft' = [d \in Days |-> 0]
    BY <1>8 DEF CommitDays
  <2>2. UNCHANGED <<now, activity, stored, hourly, draft, hourlyOn>> /\ dailyOn' = FALSE
    BY <1>8 DEF CommitDays
  <2> QED
    BY <2>1, <2>2
<1>9. CASE UNCHANGED vars
  BY <1>9 DEF vars
<1> QED
  BY <1>1, <1>2, <1>3, <1>4, <1>5, <1>6, <1>7, <1>8, <1>9 DEF Next

(* A step that leaves the daily stage alone and takes nothing away. *)
LEMMA DailyKept ==
  ASSUME RollupInv, TypeOK', \A h \in Hours : hourly[h] <= hourly'[h], UNCHANGED <<daily, dayDraft>>
  PROVE  /\ \A d \in Days : daily'[d] <= Metered(d)'
         /\ \A d \in Days : dayDraft'[d] > 0 =>
              daily'[d] <= dayDraft'[d] /\ dayDraft'[d] <= Metered(d)'
<1>1. ASSUME NEW d \in Days
      PROVE  Metered(d) <= Metered(d)' /\ Metered(d) \in Nat /\ Metered(d)' \in Nat
  <2>1. TypeOK
    BY DEF RollupInv
  <2> QED
    BY <2>1, MeteredGrows, MeteredType
<1>2. \A d \in Days : daily[d] \in Nat /\ dayDraft[d] \in Nat
  BY DEF RollupInv, TypeOK
<1> QED
  BY <1>1, <1>2 DEF RollupInv, RollupsGrounded, DraftsGrounded

(* What concerns each hour. *)
HourlyGrounded ==
  \A h \in Hours :
    /\ hourly[h] > 0 => h < now /\ hourly[h] <= stored[h] /\ activity[h] > 0
    /\ draft[h] > 0 => /\ h < now /\ activity[h] > 0
                       /\ draft[h] <= stored[h] /\ hourly[h] = 0

LEMMA HourlyKept ==
  ASSUME RollupInv, [Next]_vars
  PROVE  HourlyGrounded' /\ \A h \in Hours : hourly[h] <= hourly'[h]
<1>0. HourlyGrounded
  BY DEF RollupInv, RollupsGrounded, DraftsGrounded, HourlyGrounded
<1>t. /\ now \in Nat
      /\ \A h \in Hours : /\ h \in Nat /\ hourly[h] \in Nat /\ draft[h] \in Nat
                          /\ stored[h] \in Nat /\ activity[h] \in Nat
  BY HoursFacts, RollupAssumption DEF RollupInv, TypeOK, Counts
<1> USE DEF tables, hourlyStage, dailyStage
<1>1. CASE Tick
  BY <1>0, <1>1, <1>t DEF Tick, HourlyGrounded
<1>2. ASSUME NEW k \in Hours, Count(k) \/ Store(k)
      PROVE  HourlyGrounded' /\ \A h \in Hours : hourly[h] <= hourly'[h]
  <2>1. \A h \in Hours : stored'[h] >= stored[h] /\ activity'[h] >= activity[h]
    BY <1>2, <1>t DEF Count, Store, RollupInv, TypeOK
  <2>2. \A h \in Hours : stored'[h] \in Nat /\ activity'[h] \in Nat
    BY <1>2, <1>t DEF Count, Store, RollupInv, TypeOK
  <2>3. UNCHANGED <<now, hourly, draft>>
    BY <1>2 DEF Count, Store
  <2> QED
    BY <1>0, <1>t, <2>1, <2>2, <2>3 DEF HourlyGrounded
<1>3. CASE ReadHours
  BY <1>0, <1>3, <1>t DEF ReadHours, HourlyGrounded, Todo
<1>4. ASSUME NEW failed \in SUBSET Hours, CommitHours(failed)
      PROVE  HourlyGrounded' /\ \A h \in Hours : hourly[h] <= hourly'[h]
  BY <1>0, <1>4, <1>t DEF CommitHours, HourlyGrounded
<1>5. CASE AbortHours
  BY <1>0, <1>5, <1>t DEF AbortHours, HourlyGrounded
<1>6. CASE ReadDays \/ AbortDays \/ \E failed \in SUBSET Days : CommitDays(failed)
  BY <1>0, <1>6, <1>t DEF ReadDays, AbortDays, CommitDays, HourlyGrounded
<1>7. CASE UNCHANGED vars
  BY <1>0, <1>7, <1>t DEF vars, HourlyGrounded
<1> QED
  BY <1>1, <1>2, <1>3, <1>4, <1>5, <1>6, <1>7 DEF Next

LEMMA RollupStep == RollupInv /\ [Next]_vars => RollupInv'
<1> SUFFICES ASSUME RollupInv, [Next]_vars PROVE RollupInv'
  OBVIOUS
<1>1. TypeOK'
  BY TypesKept
<1>2. HourlyGrounded' /\ \A h \in Hours : hourly[h] <= hourly'[h]
  BY HourlyKept
<1> DEFINE Grounded == /\ \A d \in Days : daily'[d] <= Metered(d)'
                       /\ \A d \in Days : dayDraft'[d] > 0 =>
                            daily'[d] <= dayDraft'[d] /\ dayDraft'[d] <= Metered(d)'
<1>3. UNCHANGED <<daily, dayDraft>> => Grounded
  BY <1>1, <1>2, DailyKept
<1>t. /\ \A d \in Days : daily[d] \in Nat /\ dayDraft[d] \in Nat
      /\ \A d \in Days : Metered(d) \in Nat
  BY MeteredType DEF RollupInv, TypeOK
<1>4. ASSUME ReadDays PROVE Grounded
  <2>1. hourly' = hourly /\ daily' = daily
    BY <1>4 DEF ReadDays
  <2>2. \A d \in Days : Metered(d)' = Metered(d)
    BY <2>1 DEF Metered
  <2>3. \A d \in Days : dayDraft'[d] > 0 => dayDraft'[d] = Metered(d)
    BY <1>4, DayTotalIs DEF ReadDays, RollupInv
  <2> QED
    BY <1>t, <2>1, <2>2, <2>3 DEF RollupInv, RollupsGrounded
<1>5. ASSUME AbortDays \/ \E failed \in SUBSET Days : CommitDays(failed)
      PROVE  Grounded
  <2>1. hourly' = hourly
    BY <1>5 DEF AbortDays, CommitDays
  <2>2. \A d \in Days : Metered(d)' = Metered(d)
    BY <2>1 DEF Metered
  <2>3. \A d \in Days : dayDraft'[d] = 0
    BY <1>5 DEF AbortDays, CommitDays
  <2>4. \A d \in Days : \/ daily'[d] = daily[d]
                        \/ dayDraft[d] > 0 /\ daily'[d] = dayDraft[d]
    BY <1>5, <1>t DEF AbortDays, CommitDays
  <2>5. \A d \in Days : daily'[d] <= Metered(d)
    BY <1>t, <2>4 DEF RollupInv, RollupsGrounded, DraftsGrounded
  <2> QED
    BY <2>2, <2>3, <2>5
<1>6. \/ UNCHANGED <<daily, dayDraft>>
      \/ ReadDays \/ AbortDays \/ \E failed \in SUBSET Days : CommitDays(failed)
  BY DEF Next, vars, dailyStage, Tick, Count, Store, ReadHours, AbortHours, CommitHours
<1>7. Grounded
  BY <1>3, <1>4, <1>5, <1>6
<1> QED
  BY <1>1, <1>2, <1>7 DEF RollupInv, RollupsGrounded, DraftsGrounded, HourlyGrounded

(* Metrics and daily totals never run ahead of what they are made from,    *)
(* however the two stages interleave, fail and are overtaken by transfers  *)
(* (MaterializeRecentHourlyMetrics, MaterializeRecentDailyMetrics).        *)
THEOREM RollupInvHolds == Spec => []RollupInv
  BY RollupInitially, RollupStep, PTL DEF Spec

(* A daily total never shrinks: what a pass writes was not below the       *)
(* stored total when it was read, and nobody else writes it.               *)
THEOREM DailyNeverShrinksHolds == Spec => DailyNeverShrinks
<1>1. RollupInv /\ [Next]_vars => [\A d \in Days : daily'[d] >= daily[d]]_vars
  <2> SUFFICES ASSUME RollupInv, Next, NEW d \in Days PROVE daily'[d] >= daily[d]
    OBVIOUS
  <2>1. daily[d] \in Nat /\ dayDraft[d] \in Nat
    BY DEF RollupInv, TypeOK
  <2>2. CASE daily' = daily
    BY <2>1, <2>2
  <2>3. CASE \E failed \in SUBSET Days : CommitDays(failed)
    BY <2>1, <2>3 DEF CommitDays, RollupInv, DraftsGrounded
  <2> QED
    BY <2>2, <2>3 DEF Next, dailyStage, Tick, Count, Store, ReadHours, AbortHours,
                      CommitHours, ReadDays, AbortDays
<1> QED
  BY <1>1, RollupInvHolds, PTL DEF Spec, DailyNeverShrinks

-----------------------------------------------------------------------------
(* VwapOptimizer.  Series of points, and what holds of each combination of the grid. *)
Points == Seq([volume : Nat, price : Nat])

LEMMA GridFacts ==
  ASSUME NEW g \in Grid
  PROVE  /\ g.vwap \in Nat \ {0} /\ g.buy \in Nat \ {0} /\ g.sell \in Nat \ {0}
         /\ g.cooldown \in Nat
BY OptimizerAssumption

LEMMA TimesMonotone ==
  ASSUME NEW a \in Nat, NEW b \in Nat, NEW c \in Nat, a <= b
  PROVE  a * c <= b * c
<1>1. PICK d \in Nat : b = a + d
  <2>1. b - a \in Nat /\ b = a + (b - a)
    OBVIOUS
  <2> QED
    BY <2>1
<1>2. (a + d) * c = a * c + d * c
  OBVIOUS
<1>3. a * c \in Int /\ d * c \in Nat
  OBVIOUS
<1>4. b * c = a * c + d * c
  BY <1>1, <1>2
<1> QED
  BY <1>3, <1>4

LEMMA TimesNat ==
  ASSUME NEW a \in Nat, NEW b \in Nat
  PROVE  a * b \in Nat /\ a * b = b * a
OBVIOUS

LEMMA WindowFacts ==
  ASSUME NEW pts \in Points, NEW i, NEW period
  PROVE  /\ Window(pts, i, period) \subseteq DOMAIN pts
         /\ IsFiniteSet(Window(pts, i, period))
         /\ \A j \in Window(pts, i, period) : pts[j].price \in Nat /\ pts[j].volume \in Nat
<1>1. DOMAIN pts = 1..Len(pts) /\ Len(pts) \in Nat
  BY DEF Points
<1>2. PICK W : W = Window(pts, i, period)
  OBVIOUS
<1>3. W \subseteq 1..Len(pts)
  BY <1>1, <1>2 DEF Window
<1>4. IsFiniteSet(W)
  <2>1. IsFiniteSet(1..Len(pts))
    BY <1>1, FS_Interval
  <2> QED
    BY <1>3, <2>1, FS_Subset
<1>5. ASSUME NEW j \in 1..Len(pts)
      PROVE  pts[j].price \in Nat /\ pts[j].volume \in Nat
  <2>1. PICK R : R = [volume : Nat, price : Nat]
    OBVIOUS
  <2>2. pts \in Seq(R)
    BY <2>1 DEF Points
  <2>3. pts[j] \in R
    BY <2>2
  <2> QED
    BY <2>1, <2>3
<1> QED
  BY <1>1, <1>2, <1>3, <1>4, <1>5

(* The two sums, with what they sum. *)
LEMMA VwapIs ==
  ASSUME NEW pts \in Points, NEW i, NEW period, NEW S, S = Window(pts, i, period)
  PROVE  \E f, g : /\ Vwap(pts, i, period) = [pv |-> SumFunctionOnSet(f, S),
                                              v |-> SumFunctionOnSet(g, S)]
                   /\ \A j \in S : /\ f[j] = pts[j].price * pts[j].volume /\ f[j] \in Nat
                                   /\ g[j] = pts[j].volume /\ g[j] \in Nat
                   /\ SumFunctionOnSet(f, S) \in Nat /\ SumFunctionOnSet(g, S) \in Nat
<1>1. PICK f : f = [j \in S |-> pts[j].price * pts[j].volume]
  OBVIOUS
<1>2. PICK g : g = [j \in S |-> pts[j].volume]
  OBVIOUS
<1>3. Vwap(pts, i, period) = [pv |-> SumFunctionOnSet(f, S), v |-> SumFunctionOnSet(g, S)]
  BY <1>1, <1>2 DEF Vwap
<1>4. \A j \in S : pts[j].price \in Nat /\ pts[j].volume \in Nat
  BY WindowFacts
<1>5. \A j \in S : /\ f[j] = pts[j].price * pts[j].volume /\ f[j] \in Nat
                   /\ g[j] = pts[j].volume /\ g[j] \in Nat
  BY <1>1, <1>2, <1>4, TimesNat
<1>6. SumFunctionOnSet(f, S) \in Nat /\ SumFunctionOnSet(g, S) \in Nat
  BY <1>5, WindowFacts, SumType
<1> QED
  BY <1>3, <1>5, <1>6

LEMMA VwapType ==
  ASSUME NEW pts \in Points, NEW i, NEW period
  PROVE  Vwap(pts, i, period) \in [pv : Nat, v : Nat]
<1>1. PICK S : S = Window(pts, i, period)
  OBVIOUS
<1>2. PICK f, g : /\ Vwap(pts, i, period) = [pv |-> SumFunctionOnSet(f, S),
                                             v |-> SumFunctionOnSet(g, S)]
                  /\ SumFunctionOnSet(f, S) \in Nat /\ SumFunctionOnSet(g, S) \in Nat
  BY <1>1, VwapIs
<1> QED
  BY <1>2

(* The average lies between the lowest and the highest price. *)
LEMMA Between ==
  ASSUME NEW pts \in Points, NEW i, NEW period, NEW S, S = Window(pts, i, period), S # {},
         NEW w, w = Vwap(pts, i, period)
  PROVE  /\ \E j \in S : pts[j].price * w.v <= w.pv
         /\ \E j \in S : pts[j].price * w.v >= w.pv
<1>1. PICK f, g : /\ w = [pv |-> SumFunctionOnSet(f, S), v |-> SumFunctionOnSet(g, S)]
                  /\ \A j \in S : /\ f[j] = pts[j].price * pts[j].volume /\ f[j] \in Nat
                                  /\ g[j] = pts[j].volume /\ g[j] \in Nat
                  /\ SumFunctionOnSet(f, S) \in Nat /\ SumFunctionOnSet(g, S) \in Nat
  BY VwapIs
<1>2. w.pv = SumFunctionOnSet(f, S) /\ w.v = SumFunctionOnSet(g, S)
  BY <1>1
<1>3. IsFiniteSet(S) /\ \A j \in S : pts[j].price \in Nat /\ pts[j].volume \in Nat
  BY WindowFacts
<1>4. PICK p : p = [j \in S |-> pts[j].price]
  OBVIOUS
<1>5. \A j \in S : p[j] = pts[j].price /\ p[j] \in Nat
  BY <1>3, <1>4
<1>6. PICK lo \in S, hi \in S : \A j \in S : p[lo] <= p[j] /\ p[j] <= p[hi]
  BY <1>3, <1>5, Extremes
<1>7. ASSUME NEW c \in Nat
      PROVE  \E k : /\ \A j \in S : k[j] = c * g[j] /\ k[j] \in Nat
                    /\ SumFunctionOnSet(k, S) = c * SumFunctionOnSet(g, S)
  <2>1. PICK k : k = [j \in S |-> c * g[j]]
    OBVIOUS
  <2>2. \A j \in S : k[j] = c * g[j] /\ k[j] \in Nat
    BY <1>1, <2>1, TimesNat
  <2>3. SumFunctionOnSet(k, S) = c * SumFunctionOnSet(g, S)
    BY <1>1, <1>3, <2>2, SumScaled
  <2> QED
    BY <2>2, <2>3
<1>8. p[lo] * w.v <= w.pv
  <2>1. PICK k : /\ \A j \in S : k[j] = p[lo] * g[j] /\ k[j] \in Nat
                 /\ SumFunctionOnSet(k, S) = p[lo] * SumFunctionOnSet(g, S)
    BY <1>5, <1>7
  <2>2. \A j \in S : k[j] <= f[j]
    <3> SUFFICES ASSUME NEW j \in S PROVE k[j] <= f[j]
      OBVIOUS
    <3>1. p[lo] * g[j] <= p[j] * g[j]
      BY <1>1, <1>5, <1>6, TimesMonotone
    <3> QED
      BY <1>1, <1>5, <2>1, <3>1
  <2>3. SumFunctionOnSet(k, S) <= SumFunctionOnSet(f, S)
    BY <1>1, <1>3, <2>1, <2>2, SumMonotone
  <2> QED
    BY <1>2, <2>1, <2>3
<1>9. p[hi] * w.v >= w.pv
  <2>1. PICK k : /\ \A j \in S : k[j] = p[hi] * g[j] /\ k[j] \in Nat
                 /\ SumFunctionOnSet(k, S) = p[hi] * SumFunctionOnSet(g, S)
    BY <1>5, <1>7
  <2>2. \A j \in S : f[j] <= k[j]
    <3> SUFFICES ASSUME NEW j \in S PROVE f[j] <= k[j]
      OBVIOUS
    <3>1. p[j] * g[j] <= p[hi] * g[j]
      BY <1>1, <1>5, <1>6, TimesMonotone
    <3> QED
      BY <1>1, <1>5, <2>1, <3>1
  <2>3. SumFunctionOnSet(f, S) <= SumFunctionOnSet(k, S)
    BY <1>1, <1>3, <2>1, <2>2, SumMonotone
  <2>4. SumFunctionOnSet(k, S) \in Nat
    BY <1>3, <2>1, SumType
  <2> QED
    BY <1>1, <1>2, <2>1, <2>3, <2>4
<1> QED
  BY <1>5, <1>8, <1>9

(* With one price the average is that price. *)
LEMMA OnePrice ==
  ASSUME NEW pts \in Points, NEW i, NEW period, NEW q \in Nat,
         \A j \in DOMAIN pts : pts[j].price = q,
         NEW w, w = Vwap(pts, i, period)
  PROVE  w.pv = q * w.v /\ w.pv \in Nat /\ w.v \in Nat
<1>1. PICK S : S = Window(pts, i, period)
  OBVIOUS
<1>2. PICK f, g : /\ w = [pv |-> SumFunctionOnSet(f, S), v |-> SumFunctionOnSet(g, S)]
                  /\ \A j \in S : /\ f[j] = pts[j].price * pts[j].volume /\ f[j] \in Nat
                                  /\ g[j] = pts[j].volume /\ g[j] \in Nat
                  /\ SumFunctionOnSet(f, S) \in Nat /\ SumFunctionOnSet(g, S) \in Nat
  BY <1>1, VwapIs
<1>3. IsFiniteSet(S) /\ \A j \in S : g[j] \in Nat /\ f[j] = q * g[j]
  <2>1. S \subseteq DOMAIN pts /\ IsFiniteSet(S)
    BY <1>1, WindowFacts
  <2> QED
    BY <1>2, <2>1
<1>4. SumFunctionOnSet(f, S) = q * SumFunctionOnSet(g, S)
  BY <1>3, SumScaled
<1> QED
  BY <1>2, <1>4

-----------------------------------------------------------------------------
(* The backtest, hour by hour. *)
Trade == [entry : Nat, exit : Nat]
State == [entry : Nat, lastTrade : Int, trades : Seq(Trade)]

Start(g) == [entry |-> 0, lastTrade |-> -g.cooldown, trades |-> <<>>]

(* What an hour may do: nothing, enter, or leave. *)
Enters(g, s, i, t) ==
  /\ s.entry = 0 /\ i - s.lastTrade >= g.cooldown
  /\ t = [entry |-> i, lastTrade |-> s.lastTrade, trades |-> s.trades]

Leaves(s, i, t) ==
  /\ s.entry > 0
  /\ t = [entry |-> 0, lastTrade |-> i, trades |-> Append(s.trades, [entry |-> s.entry, exit |-> i])]

LEMMA HourCases ==
  ASSUME NEW pts, NEW g, NEW s \in State, NEW i, NEW t, t = BacktestHour(pts, g, s, i)
  PROVE  t = s \/ Enters(g, s, i, t) \/ Leaves(s, i, t)
<1> DEFINE w == Vwap(pts, i, g.vwap)
           p == pts[i].price
           usable == p > 0 /\ w.pv > 0
           enter == /\ usable /\ s.entry = 0 /\ Dips(p, w, g.buy)
                    /\ i - s.lastTrade >= g.cooldown
           leave == usable /\ s.entry > 0 /\ Rises(p, w, g.sell)
<1>1. s = [entry |-> s.entry, lastTrade |-> s.lastTrade, trades |-> s.trades] /\ s.entry \in Nat
  BY DEF State
<1>2. CASE enter
  <2>1. ~leave
    BY <1>1, <1>2
  <2>2. t = [s EXCEPT !.entry = i]
    BY <1>2, <2>1 DEF BacktestHour
  <2>3. t = [entry |-> i, lastTrade |-> s.lastTrade, trades |-> s.trades]
    BY <1>1, <2>2
  <2> QED
    BY <1>2, <2>3 DEF Enters
<1>3. CASE leave /\ ~enter
  <2>1. t = [entry |-> 0, lastTrade |-> i,
             trades |-> Append(s.trades, [entry |-> s.entry, exit |-> i])]
    BY <1>3 DEF BacktestHour
  <2> QED
    BY <1>3, <2>1 DEF Leaves
<1>4. CASE ~leave /\ ~enter
  BY <1>4 DEF BacktestHour
<1> QED
  BY <1>2, <1>3, <1>4

LEMMA HourType ==
  ASSUME NEW pts, NEW g, NEW s \in State, NEW i \in Nat
  PROVE  BacktestHour(pts, g, s, i) \in State
<1>1. PICK t : t = BacktestHour(pts, g, s, i)
  OBVIOUS
<1>2. s.entry \in Nat /\ s.lastTrade \in Int /\ s.trades \in Seq(Trade)
  BY DEF State
<1>3. CASE Enters(g, s, i, t)
  BY <1>1, <1>2, <1>3 DEF Enters, State
<1>4. CASE Leaves(s, i, t)
  <2>1. [entry |-> s.entry, exit |-> i] \in Trade
    BY <1>2 DEF Trade
  <2>2. Append(s.trades, [entry |-> s.entry, exit |-> i]) \in Seq(Trade)
    BY <1>2, <2>1
  <2> QED
    BY <1>1, <1>4, <2>2 DEF Leaves, State
<1> QED
  BY <1>1, <1>3, <1>4, HourCases

(* The states the hours of a series lead through. *)
ByHour(pts, g, r) ==
  /\ r[0] = Start(g)
  /\ \A i \in 0..Len(pts) : r[i] \in State
  /\ \A i \in 1..Len(pts) : r[i] = BacktestHour(pts, g, r[i - 1], i)

LEMMA BacktestRuns ==
  ASSUME NEW pts \in Points, NEW g \in Grid
  PROVE  \E r : ByHour(pts, g, r) /\ Backtest(pts, g) = r[Len(pts)].trades
<1> DEFINE n == Len(pts)
           Hour(i, s) == BacktestHour(pts, g, s, i)
           step == [i \in 1..n |-> [s \in State |-> Hour(i, s)]]
           Is(r) == r = [i \in 0..n |-> IF i = 0 THEN [entry |-> 0, lastTrade |-> -g.cooldown, trades |-> <<>>]
                                        ELSE BacktestHour(pts, g, r[i - 1], i)]
<1>1. n \in Nat /\ Start(g) \in State
  BY GridFacts DEF Points, Start, State
<1>2. step \in [1..n -> [State -> State]]
  <2>1. \A i \in 1..n, s \in State : Hour(i, s) \in State
    BY <1>1, HourType
  <2> HIDE DEF Hour, n
  <2> QED
    BY <2>1
<1>3. PICK r \in [0..n -> State] :
        r[0] = Start(g) /\ \A i \in 1..n : r[i] = step[i][r[i - 1]]
  <2>1. Start(g) \in State /\ n \in Nat /\ step \in [1..n -> [State -> State]]
    BY <1>1, <1>2
  <2> HIDE DEF step, n
  <2>2. \E r : Runs(State, Start(g), n, step, r)
    BY <2>1, RunsExist, Zenon
  <2> QED
    BY <2>2 DEF Runs
<1>4. \A i \in 1..n : r[i] = Hour(i, r[i - 1])
  <2> SUFFICES ASSUME NEW i \in 1..n PROVE r[i] = Hour(i, r[i - 1])
    OBVIOUS
  <2>1. i - 1 \in 0..n
    BY <1>1
  <2>2. r[i - 1] \in State
    BY <2>1
  <2> HIDE DEF Hour, n
  <2> QED
    BY <1>3, <2>2
<1>5. Is(r)
  <2>1. r = [i \in 0..n |-> r[i]]
    OBVIOUS
  <2>2. \A i \in 0..n : r[i] = IF i = 0 THEN Start(g) ELSE Hour(i, r[i - 1])
    <3> SUFFICES ASSUME NEW i \in 0..n PROVE r[i] = IF i = 0 THEN Start(g) ELSE Hour(i, r[i - 1])
      OBVIOUS
    <3>1. i = 0 \/ i \in 1..n
      BY <1>1
    <3> HIDE DEF Hour, n
    <3> QED
      BY <1>3, <1>4, <3>1
  <2> QED
    BY <2>1, <2>2 DEF Start
<1>6. PICK k : Is(k) /\ k = CHOOSE f : Is(f)
  BY <1>5
<1>7. Backtest(pts, g) = k[n].trades
  BY <1>6 DEF Backtest
<1>8. k[0] = Start(g)
  BY <1>1, <1>6 DEF Start
<1>9. \A i \in 1..n : k[i] = BacktestHour(pts, g, k[i - 1], i)
  <2> SUFFICES ASSUME NEW i \in 1..n PROVE k[i] = BacktestHour(pts, g, k[i - 1], i)
    OBVIOUS
  <2>1. i \in 0..n /\ i # 0
    BY <1>1
  <2> QED
    BY <1>6, <2>1
<1>10. \A i \in 0..n : k[i] \in State
  <2> DEFINE N == {i \in Nat : i <= n => k[i] \in State}
  <2>1. 0 \in N
    BY <1>1, <1>8
  <2>2. ASSUME NEW i \in Nat, i \in N
        PROVE  i + 1 \in N
    <3> SUFFICES ASSUME i + 1 <= n PROVE k[i + 1] \in State
      OBVIOUS
    <3>1. i + 1 \in 1..n /\ (i + 1) - 1 = i
      BY <1>1
    <3>2. k[i + 1] = BacktestHour(pts, g, k[i], i + 1)
      BY <1>9, <3>1
    <3>3. k[i] \in State
      BY <1>1, <2>2
    <3> QED
      BY <3>2, <3>3, HourType
  <2>3. \A i \in Nat : i \in N
    <3> HIDE DEF N
    <3> QED
      BY <2>1, <2>2, NumbersOneByOne
  <2> QED
    BY <1>1, <2>3
<1> QED
  BY <1>7, <1>8, <1>9, <1>10 DEF ByHour

-----------------------------------------------------------------------------
(* No look ahead: what an hour does depends on the hours up to it. *)
Begins(qts, pts) == Len(qts) <= Len(pts) /\ \A j \in 1..Len(qts) : qts[j] = pts[j]

LEMMA SameVwap ==
  ASSUME NEW pts \in Points, NEW qts \in Points, Begins(qts, pts), NEW i \in 1..Len(qts), NEW period
  PROVE  Vwap(pts, i, period) = Vwap(qts, i, period)
<1>1. /\ DOMAIN pts = 1..Len(pts) /\ DOMAIN qts = 1..Len(qts)
      /\ Len(pts) \in Nat /\ Len(qts) \in Nat /\ i \in Nat
  BY DEF Points
<1>2. \A j \in 1..Len(qts) : qts[j] = pts[j] /\ j \in 1..Len(pts)
  BY <1>1 DEF Begins
<1>3. PICK V, W : V = Window(pts, i, period) /\ W = Window(qts, i, period)
  OBVIOUS
<1>4. V = W
  <2>1. ASSUME NEW j \in V PROVE j \in W
    <3>1. j \in 1..Len(pts) /\ j <= i
      BY <1>1, <1>3 DEF Window
    <3>2. j \in 1..Len(qts)
      BY <1>1, <3>1
    <3> QED
      BY <1>1, <1>2, <1>3, <3>2 DEF Window
  <2>2. ASSUME NEW j \in W PROVE j \in V
    <3>1. j \in 1..Len(qts)
      BY <1>1, <1>3 DEF Window
    <3> QED
      BY <1>1, <1>2, <1>3, <3>1 DEF Window
  <2> QED
    BY <2>1, <2>2
<1>5. \A j \in V : qts[j] = pts[j]
  BY <1>1, <1>2, <1>3, <1>4 DEF Window
<1>6. /\ [j \in V |-> pts[j].price * pts[j].volume] = [j \in W |-> qts[j].price * qts[j].volume]
      /\ [j \in V |-> pts[j].volume] = [j \in W |-> qts[j].volume]
  BY <1>4, <1>5
<1> QED
  BY <1>3, <1>4, <1>6 DEF Vwap

LEMMA SameHour ==
  ASSUME NEW pts \in Points, NEW qts \in Points, Begins(qts, pts), NEW i \in 1..Len(qts),
         NEW g, NEW s
  PROVE  BacktestHour(pts, g, s, i) = BacktestHour(qts, g, s, i)
<1>1. Vwap(pts, i, g.vwap) = Vwap(qts, i, g.vwap)
  BY SameVwap
<1>2. pts[i] = qts[i]
  BY DEF Begins
<1> QED
  BY <1>1, <1>2 DEF BacktestHour

LEMMA SameRun ==
  ASSUME NEW pts \in Points, NEW qts \in Points, Begins(qts, pts), NEW g \in Grid,
         NEW r, ByHour(pts, g, r), NEW s, ByHour(qts, g, s)
  PROVE  r[Len(qts)] = s[Len(qts)]
<1> DEFINE N == {i \in Nat : i <= Len(qts) => r[i] = s[i]}
<1>1. 0 \in N
  BY DEF ByHour
<1>2. ASSUME NEW i \in Nat, i \in N
      PROVE  i + 1 \in N
  <2> SUFFICES ASSUME i + 1 <= Len(qts) PROVE r[i + 1] = s[i + 1]
    OBVIOUS
  <2>1. Len(qts) \in Nat /\ Len(pts) \in Nat /\ Len(qts) <= Len(pts)
    BY DEF Points, Begins
  <2>2. i + 1 \in 1..Len(qts) /\ i + 1 \in 1..Len(pts) /\ (i + 1) - 1 = i
    BY <2>1
  <2>3. r[i] = s[i]
    BY <1>2, <2>1
  <2>4. /\ r[i + 1] = BacktestHour(pts, g, r[i], i + 1)
        /\ s[i + 1] = BacktestHour(qts, g, s[i], i + 1)
    BY <2>2 DEF ByHour
  <2> QED
    BY <2>2, <2>3, <2>4, SameHour
<1>3. \A i \in Nat : i \in N
  <2> HIDE DEF N
  <2> QED
    BY <1>1, <1>2, NumbersOneByOne
<1>4. Len(qts) \in Nat
  BY DEF Points
<1> QED
  BY <1>3, <1>4

(* t is what is left of s from place d + 1 on, e places long. *)
Stretch(R, s, d, e, t) ==
  t \in Seq(R) /\ Len(t) = e /\ \A j \in 1..e : t[j] = s[j + d]

LEMMA SubSeqIsStretch ==
  ASSUME NEW R, NEW s, s \in Seq(R), NEW d, d \in Nat, NEW e, e \in Nat, NEW m, m = d + 1,
         NEW n, n = d + e, n <= Len(s)
  PROVE  Stretch(R, s, d, e, SubSeq(s, m, n))
<1>0. PICK t : t = SubSeq(s, m, n)
  OBVIOUS
<1>1. Len(s) \in Nat /\ \A j \in 1..Len(s) : s[j] \in R
  OBVIOUS
<1>2. \A j \in m..n : s[j] \in R
  <2>1. \A j \in m..n : j \in 1..Len(s)
    BY <1>1
  <2> QED
    BY <1>1, <2>1
<1>3. m \in Int /\ n \in Int
  OBVIOUS
<1>4. /\ t \in Seq(R)
      /\ Len(t) = IF m <= n THEN n - m + 1 ELSE 0
      /\ \A j \in 1..n - m + 1 : t[j] = s[m + j - 1]
  BY <1>0, <1>2, <1>3, SubSeqProperties
<1>5. n - m + 1 = e /\ (m <= n <=> e > 0)
  OBVIOUS
<1>6. \A j \in 1..e : m + j - 1 = j + d
  OBVIOUS
<1>7. Len(t) = e
  BY <1>4, <1>5
<1>8. \A j \in 1..e : t[j] = s[j + d]
  BY <1>4, <1>5, <1>6
<1> QED
  BY <1>0, <1>4, <1>7, <1>8 DEF Stretch

(* One more hour adds a trade or none. *)
LEMMA OneMoreHour ==
  ASSUME NEW pts \in Points, pts # <<>>, NEW g \in Grid
  PROVE  IsPrefix(Backtest(Front(pts), g), Backtest(pts, g))
<1>1. PICK n \in Nat : n + 1 = Len(pts)
  <2>1. Len(pts) \in Nat /\ Len(pts) # 0
    BY DEF Points
  <2>2. Len(pts) - 1 \in Nat /\ (Len(pts) - 1) + 1 = Len(pts)
    BY <2>1
  <2> QED
    BY <2>2
<1>2. PICK qts : qts = Front(pts)
  OBVIOUS
<1>3. qts \in Points /\ Len(qts) = n /\ Begins(qts, pts)
  <2>1. PICK R : R = [volume : Nat, price : Nat] /\ pts \in Seq(R)
    BY DEF Points
  <2>2. qts = SubSeq(pts, 1, n)
    BY <1>1, <1>2 DEF Front
  <2>3. n <= Len(pts) /\ 1 = 0 + 1 /\ n = 0 + n
    BY <1>1
  <2>4. Stretch(R, pts, 0, n, qts)
    BY <2>1, <2>2, <2>3, 0 \in Nat, SubSeqIsStretch, Zenon
  <2>5. \A j \in 1..n : qts[j] = pts[j]
    <3>1. \A j \in 1..n : j + 0 = j
      OBVIOUS
    <3> QED
      BY <2>4, <3>1 DEF Stretch
  <2> QED
    BY <2>1, <2>3, <2>4, <2>5 DEF Points, Begins, Stretch
<1>4. PICK r : ByHour(pts, g, r) /\ Backtest(pts, g) = r[n + 1].trades
  BY <1>1, BacktestRuns
<1>5. PICK s : ByHour(qts, g, s) /\ Backtest(qts, g) = s[n].trades
  BY <1>3, BacktestRuns
<1>6. r[n] = s[n]
  BY <1>3, <1>4, <1>5, SameRun
<1>7. r[n] \in State /\ r[n + 1] = BacktestHour(pts, g, r[n], n + 1)
  <2>1. n \in 0..Len(pts) /\ n + 1 \in 1..Len(pts) /\ (n + 1) - 1 = n
    BY <1>1
  <2> QED
    BY <1>4, <2>1 DEF ByHour
<1>8. PICK t \in Seq(Trade) : t = r[n].trades
  BY <1>7 DEF State
<1>9. \/ r[n + 1].trades = t
      \/ \E x : r[n + 1].trades = Append(t, x)
  <2>1. PICK s1, t1 : s1 = r[n] /\ t1 = r[n + 1]
    OBVIOUS
  <2>2. t1 = s1 \/ Enters(g, s1, n + 1, t1) \/ Leaves(s1, n + 1, t1)
    BY <1>7, <2>1, HourCases
  <2>3. \/ t1.trades = s1.trades
        \/ t1.trades = Append(s1.trades, [entry |-> s1.entry, exit |-> n + 1])
    BY <2>2 DEF Enters, Leaves
  <2> QED
    BY <1>8, <2>1, <2>3
<1>10. PICK u : u = r[n + 1].trades
  OBVIOUS
<1>11. IsPrefix(t, u)
  <2>1. CASE u = t
    BY <2>1 DEF IsPrefix
  <2>2. CASE u # t
    <3>1. PICK x : u = Append(t, x)
      BY <1>9, <1>10, <2>2
    <3>2. u = t \o <<x>>
      BY <3>1
    <3>3. Len(u) = Len(t) + 1 /\ \A k \in 1..Len(t) : u[k] = t[k]
      BY <3>1
    <3>4. SubSeq(t, 1, Len(t)) = SubSeq(u, 1, Len(t))
      BY <3>1, <3>3
    <3> QED
      BY <3>3, <3>4 DEF IsPrefix
  <2> QED
    BY <2>1, <2>2
<1> QED
  BY <1>2, <1>4, <1>5, <1>6, <1>8, <1>10, <1>11

-----------------------------------------------------------------------------
(* Trades wait for the cooldown. *)
Spaced(trades, g) ==
  \A i \in DOMAIN trades : /\ trades[i].entry < trades[i].exit
                           /\ i > 1 => trades[i].entry - trades[i-1].exit >= g.cooldown

(* After hour i: an open position and the latest exit lie behind, far enough *)
(* from each other.                                                          *)
HourInv(g, i, s) ==
  /\ s.entry <= i
  /\ s.entry > 0 => s.entry - s.lastTrade >= g.cooldown
  /\ s.trades # <<>> => s.lastTrade = s.trades[Len(s.trades)].exit
  /\ Spaced(s.trades, g)

LEMMA HourKeeps ==
  ASSUME NEW pts, NEW g \in Grid, NEW s \in State, NEW i \in Nat, HourInv(g, i, s),
         NEW t, t = BacktestHour(pts, g, s, i + 1)
  PROVE  HourInv(g, i + 1, t)
<1>1. s.entry \in Nat /\ s.lastTrade \in Int /\ s.trades \in Seq(Trade) /\ g.cooldown \in Nat
  BY GridFacts DEF State
<1>2. CASE t = s
  BY <1>1, <1>2 DEF HourInv
<1>3. CASE Enters(g, s, i + 1, t)
  BY <1>1, <1>3 DEF HourInv, Enters
<1>4. CASE Leaves(s, i + 1, t)
  <2>1. PICK q, x : /\ q = s.trades /\ q \in Seq(Trade) /\ x = [entry |-> s.entry, exit |-> i + 1]
                    /\ t = [entry |-> 0, lastTrade |-> i + 1, trades |-> Append(q, x)]
    BY <1>1, <1>4 DEF Leaves
  <2>2. x.entry < x.exit /\ x.entry = s.entry /\ x.exit = i + 1
    BY <1>1, <2>1 DEF HourInv
  <2>3. PICK u : u = Append(q, x)
    OBVIOUS
  <2>4. /\ Len(q) \in Nat /\ DOMAIN q = 1..Len(q) /\ DOMAIN u = 1..(Len(q) + 1)
        /\ Len(u) = Len(q) + 1 /\ u[Len(q) + 1] = x /\ \A k \in 1..Len(q) : u[k] = q[k]
    BY <2>1, <2>3
  <2>5. Spaced(u, g)
    <3> SUFFICES ASSUME NEW k \in 1..(Len(q) + 1)
                 PROVE  /\ u[k].entry < u[k].exit
                        /\ k > 1 => u[k].entry - u[k-1].exit >= g.cooldown
      BY <2>4 DEF Spaced
    <3>1. CASE k = Len(q) + 1
      <4>1. ASSUME k > 1
            PROVE  s.lastTrade = u[k-1].exit
        <5>1. k - 1 = Len(q) /\ Len(q) \in 1..Len(q) /\ q # <<>>
          BY <2>4, <3>1, <4>1
        <5>2. s.lastTrade = q[Len(q)].exit
          BY <2>1, <5>1 DEF HourInv
        <5> QED
          BY <2>4, <5>1, <5>2
      <4>2. s.entry - s.lastTrade >= g.cooldown
        BY <1>4 DEF HourInv, Leaves
      <4> QED
        BY <2>2, <2>4, <3>1, <4>1, <4>2
    <3>2. CASE k # Len(q) + 1
      <4>1. k \in 1..Len(q) /\ (k > 1 => k - 1 \in 1..Len(q))
        BY <2>4, <3>2
      <4>2. /\ q[k].entry < q[k].exit
            /\ k > 1 => q[k].entry - q[k-1].exit >= g.cooldown
        BY <2>1, <2>4, <4>1 DEF HourInv, Spaced
      <4> QED
        BY <2>4, <4>1, <4>2
    <3> QED
      BY <3>1, <3>2
  <2>6. t.entry = 0 /\ t.lastTrade = i + 1 /\ t.trades = u
    BY <2>1, <2>3
  <2>7. u[Len(u)].exit = i + 1
    BY <2>2, <2>4
  <2> QED
    BY <2>5, <2>6, <2>7 DEF HourInv
<1>5. t = s \/ Enters(g, s, i + 1, t) \/ Leaves(s, i + 1, t)
  BY HourCases
<1> QED
  BY <1>2, <1>3, <1>4, <1>5

LEMMA BacktestSpaced ==
  ASSUME NEW pts \in Points, NEW g \in Grid
  PROVE  Spaced(Backtest(pts, g), g)
<1>1. PICK r : ByHour(pts, g, r) /\ Backtest(pts, g) = r[Len(pts)].trades
  BY BacktestRuns
<1> DEFINE N == {i \in Nat : i <= Len(pts) => HourInv(g, i, r[i])}
<1>2. Len(pts) \in Nat
  BY DEF Points
<1>3. 0 \in N
  <2>1. r[0] = [entry |-> 0, lastTrade |-> -g.cooldown, trades |-> <<>>]
    BY <1>1 DEF ByHour, Start
  <2>2. Spaced(<<>>, g)
    BY DEF Spaced
  <2>3. HourInv(g, 0, r[0])
    BY <2>1, <2>2 DEF HourInv
  <2> QED
    BY <2>3
<1>4. ASSUME NEW i \in Nat, i \in N
      PROVE  i + 1 \in N
  <2> SUFFICES ASSUME i + 1 <= Len(pts) PROVE HourInv(g, i + 1, r[i + 1])
    OBVIOUS
  <2>1. i \in 0..Len(pts) /\ i + 1 \in 1..Len(pts) /\ (i + 1) - 1 = i
    BY <1>2
  <2>2. HourInv(g, i, r[i])
    BY <1>4, <2>1
  <2>3. r[i] \in State /\ r[i + 1] = BacktestHour(pts, g, r[i], i + 1)
    BY <1>1, <2>1 DEF ByHour
  <2> QED
    BY <2>2, <2>3, HourKeeps
<1>5. \A i \in Nat : i \in N
  <2> HIDE DEF N
  <2> QED
    BY <1>3, <1>4, NumbersOneByOne
<1>6. HourInv(g, Len(pts), r[Len(pts)])
  BY <1>2, <1>5
<1> QED
  BY <1>1, <1>6 DEF HourInv

-----------------------------------------------------------------------------
(* A window that lies within the last hours does not miss those before. *)
LEMMA ShiftedVwap ==
  ASSUME NEW pts \in Points, NEW qts \in Points, NEW d \in Nat, Len(pts) = Len(qts) + d,
         \A j \in 1..Len(qts) : qts[j] = pts[j + d],
         NEW i \in 1..Len(qts), NEW period \in Nat, d = 0 \/ period <= i
  PROVE  Vwap(qts, i, period) = Vwap(pts, i + d, period)
<1>1. DOMAIN pts = 1..Len(pts) /\ DOMAIN qts = 1..Len(qts) /\ Len(qts) \in Nat
  BY DEF Points
<1>2. PICK V, W : V = Window(pts, i + d, period) /\ W = Window(qts, i, period)
  OBVIOUS
<1>3. \A j \in W : j \in 1..Len(qts) /\ j + d \in V /\ qts[j] = pts[j + d]
  <2> SUFFICES ASSUME NEW j \in W PROVE j \in 1..Len(qts) /\ j + d \in V /\ qts[j] = pts[j + d]
    OBVIOUS
  <2>1. /\ j \in 1..Len(qts) /\ i - period < j /\ j <= i
        /\ qts[j].volume > 0 /\ qts[j].price > 0
    BY <1>1, <1>2 DEF Window
  <2>2. j + d \in 1..Len(pts) /\ (i + d) - period < j + d /\ j + d <= i + d
    BY <1>1, <2>1
  <2> QED
    BY <1>1, <1>2, <2>1, <2>2 DEF Window
<1>4. ASSUME NEW k \in V
      PROVE  \E j \in W : k = j + d
  <2>1. /\ k \in 1..Len(pts) /\ (i + d) - period < k /\ k <= i + d
        /\ pts[k].volume > 0 /\ pts[k].price > 0
    BY <1>1, <1>2 DEF Window
  <2>2. PICK j \in 1..Len(qts) : k = j + d
    <3>1. k - d \in 1..Len(qts) /\ k = (k - d) + d
      BY <1>1, <2>1
    <3> QED
      BY <3>1
  <2>3. i - period < j /\ j <= i /\ qts[j] = pts[k]
    BY <2>1, <2>2
  <2>4. j \in W
    BY <1>1, <1>2, <2>1, <2>2, <2>3 DEF Window
  <2> QED
    BY <2>2, <2>4
<1>5. PICK h : h = [j \in W |-> j + d]
  OBVIOUS
<1>6. V = {h[j] : j \in W} /\ \A x, y \in W : h[x] = h[y] => x = y
  BY <1>3, <1>4, <1>5
<1>7. PICK pv, v : /\ pv = [j \in V |-> pts[j].price * pts[j].volume]
                   /\ v = [j \in V |-> pts[j].volume]
  OBVIOUS
<1>8. PICK pw, w : /\ pw = [j \in W |-> qts[j].price * qts[j].volume]
                   /\ w = [j \in W |-> qts[j].volume]
  OBVIOUS
<1>9. \A j \in W : /\ pw[j] \in Nat /\ pv[h[j]] = pw[j]
                   /\ w[j] \in Nat /\ v[h[j]] = w[j]
  <2>1. \A j \in W : qts[j].price \in Nat /\ qts[j].volume \in Nat
    BY <1>2, WindowFacts
  <2> QED
    BY <1>3, <1>5, <1>7, <1>8, <2>1, TimesNat
<1>10. IsFiniteSet(W)
  BY <1>2, WindowFacts
<1>11. /\ SumFunctionOnSet(pv, V) = SumFunctionOnSet(pw, W)
       /\ SumFunctionOnSet(v, V) = SumFunctionOnSet(w, W)
  BY <1>6, <1>9, <1>10, SumMoved
<1> QED
  BY <1>2, <1>7, <1>8, <1>11 DEF Vwap

Short(pts, p) == SubSeq(pts, IF Len(pts) > p + 1 THEN Len(pts) - p ELSE 1, Len(pts))

LEMMA ShortLoad ==
  ASSUME NEW pts \in Points, pts # <<>>, NEW p \in Nat, NEW short, short = Short(pts, p)
  PROVE  Vwap(short, Len(short), p) = Vwap(pts, Len(pts), p)
<1>1. Len(pts) \in Nat /\ Len(pts) > 0
  BY DEF Points
<1>2. PICK d \in Nat : d + 1 = IF Len(pts) > p + 1 THEN Len(pts) - p ELSE 1
  <2>1. CASE Len(pts) > p + 1
    <3>1. (Len(pts) - p) - 1 \in Nat /\ ((Len(pts) - p) - 1) + 1 = Len(pts) - p
      BY <1>1, <2>1
    <3> QED
      BY <2>1, <3>1
  <2>2. CASE ~(Len(pts) > p + 1)
    BY <2>2
  <2> QED
    BY <2>1, <2>2
<1>3. PICK R : R = [volume : Nat, price : Nat] /\ pts \in Seq(R)
  BY DEF Points
<1>4. /\ short \in Points /\ Len(pts) = Len(short) + d
      /\ \A j \in 1..Len(short) : short[j] = pts[j + d]
  <2>1. PICK e \in Nat : Len(pts) = d + e
    <3>1. Len(pts) - d \in Nat /\ Len(pts) = d + (Len(pts) - d)
      BY <1>1, <1>2
    <3> QED
      BY <3>1
  <2>2. PICK m \in Nat : m = d + 1
    OBVIOUS
  <2>3. PICK n \in Nat : n = Len(pts)
    BY <1>1
  <2>4. short = SubSeq(pts, m, n) /\ n <= Len(pts) /\ n = d + e
    BY <1>2, <2>1, <2>2, <2>3 DEF Short
  <2>5. Stretch(R, pts, d, e, short)
    BY <1>3, <2>2, <2>4, SubSeqIsStretch, Zenon
  <2> QED
    BY <1>3, <2>1, <2>5 DEF Points, Stretch
<1>5. Len(short) \in 1..Len(short) /\ (d = 0 \/ p <= Len(short))
  <2>1. Len(short) \in Nat
    BY <1>4 DEF Points
  <2> QED
    BY <1>1, <1>2, <1>4, <2>1
<1>6. Vwap(short, Len(short), p) = Vwap(pts, Len(short) + d, p)
  BY <1>4, <1>5, ShiftedVwap
<1> QED
  BY <1>4, <1>6

-----------------------------------------------------------------------------
(* Points of one price never dip, so nothing is ever entered. *)
LEMMA FlatHour ==
  ASSUME NEW pts \in Points, NEW g \in Grid, NEW q \in Nat,
         \A j \in DOMAIN pts : pts[j].price = q,
         NEW i \in DOMAIN pts, NEW s \in State, s.entry = 0
  PROVE  BacktestHour(pts, g, s, i) = s
<1>1. PICK w : w = Vwap(pts, i, g.vwap)
  OBVIOUS
<1>2. w.pv = q * w.v /\ w.pv \in Nat
  BY <1>1, OnePrice
<1>3. pts[i].price = q
  OBVIOUS
<1>4. ~(w.pv > 0 /\ Dips(q, w, g.buy))
  <2> SUFFICES ASSUME w.pv > 0, Dips(q, w, g.buy) PROVE FALSE
    OBVIOUS
  <2>1. 1000 * (w.pv - w.pv) >= g.buy * w.pv
    BY <1>2 DEF Dips
  <2>2. 1000 * (w.pv - w.pv) = 0
    BY <1>2
  <2>3. 1 * w.pv <= g.buy * w.pv
    <3>1. 1 \in Nat /\ g.buy \in Nat /\ 1 <= g.buy
      BY GridFacts
    <3> QED
      BY <1>2, <3>1, TimesMonotone
  <2>4. 1 * w.pv = w.pv /\ g.buy * w.pv \in Int
    BY <1>2, GridFacts
  <2> QED
    BY <1>2, <2>1, <2>2, <2>3, <2>4
<1> QED
  BY <1>1, <1>3, <1>4 DEF BacktestHour

LEMMA FlatBacktest ==
  ASSUME NEW pts \in Points, NEW g \in Grid, NEW q \in Nat,
         \A j \in DOMAIN pts : pts[j].price = q
  PROVE  Backtest(pts, g) = <<>>
<1>1. PICK r : ByHour(pts, g, r) /\ Backtest(pts, g) = r[Len(pts)].trades
  BY BacktestRuns
<1> DEFINE N == {i \in Nat : i <= Len(pts) => r[i] = Start(g)}
<1>2. Len(pts) \in Nat /\ DOMAIN pts = 1..Len(pts)
  BY DEF Points
<1>3. 0 \in N
  BY <1>1 DEF ByHour
<1>4. ASSUME NEW i \in Nat, i \in N
      PROVE  i + 1 \in N
  <2> SUFFICES ASSUME i + 1 <= Len(pts) PROVE r[i + 1] = Start(g)
    OBVIOUS
  <2>1. i \in 0..Len(pts) /\ i + 1 \in 1..Len(pts) /\ (i + 1) - 1 = i
    BY <1>2
  <2>2. r[i] = Start(g) /\ r[i].entry = 0
    BY <1>4, <2>1 DEF Start
  <2>3. r[i] \in State /\ r[i + 1] = BacktestHour(pts, g, r[i], i + 1)
    BY <1>1, <2>1 DEF ByHour
  <2>4. i + 1 \in DOMAIN pts
    BY <1>2, <2>1
  <2> QED
    BY <2>2, <2>3, <2>4, FlatHour
<1>5. \A i \in Nat : i \in N
  <2> HIDE DEF N
  <2> QED
    BY <1>3, <1>4, NumbersOneByOne
<1>6. r[Len(pts)] = Start(g)
  BY <1>2, <1>5
<1> QED
  BY <1>1, <1>6 DEF Start

-----------------------------------------------------------------------------
(* The invariant: types, and no strategy. *)
IdleInv == OptimizerTypeOK /\ FlatSeriesIdle

LEMMA SeqOfMore ==
  ASSUME NEW R, NEW S, R \subseteq S, NEW s, s \in Seq(R)
  PROVE  s \in Seq(S)
<1>1. PICK n \in Nat : s \in [1..n -> R]
  BY SeqDef
<1>2. s \in [1..n -> S]
  BY <1>1
<1> QED
  BY <1>2, SeqDef

LEMMA HoursArePoints ==
  ASSUME OptimizerTypeOK
  PROVE  hours \in Points
<1>1. [volume : Volumes, price : Prices \union {0}] \subseteq [volume : Nat, price : Nat]
  <2>1. Volumes \subseteq Nat /\ Prices \union {0} \subseteq Nat
    BY OptimizerAssumption
  <2> SUFFICES ASSUME NEW x \in [volume : Volumes, price : Prices \union {0}]
               PROVE  x \in [volume : Nat, price : Nat]
    OBVIOUS
  <2>2. x = [volume |-> x.volume, price |-> x.price] /\ x.volume \in Nat /\ x.price \in Nat
    BY <2>1
  <2> QED
    BY <2>2
<1>2. PICK R, S : /\ R = [volume : Volumes, price : Prices \union {0}] /\ S = [volume : Nat, price : Nat]
                  /\ hours \in Seq(R) /\ R \subseteq S
  BY <1>1 DEF OptimizerTypeOK
<1>3. hours \in Seq(S)
  <2>1. R \subseteq S /\ hours \in Seq(R)
    BY <1>2
  <2> QED
    BY <2>1, SeqOfMore
<1> QED
  BY <1>2, <1>3 DEF Points

LEMMA LoadedIsFlat ==
  ASSUME OptimizerTypeOK
  PROVE  /\ LoadHourlyPoints \in Points /\ price \in Nat
         /\ \A i \in DOMAIN LoadHourlyPoints : LoadHourlyPoints[i].price = price
<1>1. PICK R : R = [volume : Nat, price : Nat]
  OBVIOUS
<1>2. hours \in Seq(R) /\ RowLimit \in Nat \ {0} /\ price \in Nat
  <2>1. hours \in Seq(R)
    BY <1>1, HoursArePoints DEF Points
  <2>2. RowLimit \in Nat \ {0} /\ price \in Nat
    BY OptimizerAssumption DEF OptimizerTypeOK
  <2> QED
    BY <2>1, <2>2
<1>3. PICK n \in Nat : n = Len(hours)
  BY <1>2
<1>4. PICK m \in Int : m = IF n > RowLimit THEN n - RowLimit + 1 ELSE 1
  <2>1. (IF n > RowLimit THEN n - RowLimit + 1 ELSE 1) \in Int
    BY <1>2
  <2> QED
    BY <2>1
<1>5. PICK q : q = Latest(hours)
  OBVIOUS
<1>6. q \in Seq(R)
  <2>1. \A i \in m..n : i \in 1..Len(hours)
    BY <1>2, <1>3, <1>4
  <2>2. \A i \in m..n : hours[i] \in R
    BY <1>2, <2>1
  <2>3. SubSeq(hours, m, n) \in Seq(R)
    BY <1>4, <2>2, SubSeqProperties
  <2>4. q = SubSeq(hours, m, n)
    BY <1>3, <1>4, <1>5 DEF Latest
  <2> QED
    BY <2>3, <2>4
<1>7. PICK l : l = [i \in DOMAIN q |-> [volume |-> q[i].volume, price |-> price]]
  OBVIOUS
<1>8. PICK k \in Nat : DOMAIN q = 1..k /\ \A i \in 1..k : q[i] \in R
  BY <1>6
<1>9. \A i \in 1..k : l[i] \in R /\ l[i].price = price
  BY <1>1, <1>2, <1>7, <1>8
<1>10. l \in [1..k -> R]
  BY <1>7, <1>8, <1>9
<1>11. l \in Seq(R)
  BY <1>10, SeqDef
<1>12. LoadHourlyPoints = l
  BY <1>5, <1>7 DEF LoadHourlyPoints
<1> QED
  BY <1>1, <1>2, <1>7, <1>8, <1>9, <1>11, <1>12 DEF Points

LEMMA NothingValid ==
  ASSUME NEW pts \in Points, NEW q \in Nat, \A j \in DOMAIN pts : pts[j].price = q
  PROVE  Valid(pts) = {}
<1>1. ASSUME NEW g \in Grid
      PROVE  ~(Len(Backtest(pts, g)) >= MinTrades)
  <2>1. Backtest(pts, g) = <<>>
    BY FlatBacktest
  <2> QED
    BY <2>1, OptimizerAssumption
<1> QED
  BY <1>1 DEF Valid

THEOREM OptimizerInvariance == OptimizerSpec => []IdleInv
<1>1. OptimizerInit => IdleInv
  <2>1. OptimizerInit => hours \in Seq([volume : Volumes, price : Prices \union {0}])
    <3>1. PICK R : R = [volume : Volumes, price : Prices \union {0}]
      OBVIOUS
    <3>2. <<>> \in Seq(R)
      OBVIOUS
    <3> QED
      BY <3>1, <3>2 DEF OptimizerInit
  <2> QED
    BY <2>1 DEF OptimizerInit, IdleInv, OptimizerTypeOK, FlatSeriesIdle
<1>2. IdleInv /\ [OptimizerNext]_optimizer => IdleInv'
  <2> SUFFICES ASSUME IdleInv, [OptimizerNext]_optimizer
               PROVE  IdleInv'
    OBVIOUS
  <2>0. /\ price \in Prices \union {0} /\ strategy \in Grid \union {None} /\ fresh \in BOOLEAN
        /\ hours \in Seq([volume : Volumes, price : Prices \union {0}]) /\ strategy = None
    BY DEF IdleInv, OptimizerTypeOK, FlatSeriesIdle
  <2>1. ASSUME NEW p \in Prices, SetPrice(p)
        PROVE  IdleInv'
    BY <2>0, <2>1 DEF SetPrice, IdleInv, OptimizerTypeOK, FlatSeriesIdle
  <2>2. ASSUME NEW v \in Volumes, CloseHour(v)
        PROVE  IdleInv'
    <3>1. [volume |-> v, price |-> price] \in [volume : Volumes, price : Prices \union {0}]
      BY <2>0
    <3>2. PICK R, x : /\ R = [volume : Volumes, price : Prices \union {0}]
                      /\ x = [volume |-> v, price |-> price] /\ x \in R
      BY <3>1
    <3>3. hours' \in Seq(R)
      BY <2>0, <2>2, <3>2 DEF CloseHour
    <3> QED
      BY <2>0, <2>2, <3>2, <3>3 DEF CloseHour, IdleInv, OptimizerTypeOK, FlatSeriesIdle
  <2>3. CASE RunStrategyOptimizer
    <3>1. Valid(LoadHourlyPoints) = {}
      BY LoadedIsFlat, NothingValid DEF IdleInv
    <3>2. strategy' = strategy
      BY <2>3, <3>1 DEF RunStrategyOptimizer
    <3> QED
      BY <2>0, <2>3, <3>2 DEF RunStrategyOptimizer, IdleInv, OptimizerTypeOK, FlatSeriesIdle
  <2>4. CASE UNCHANGED optimizer
    BY <2>0, <2>4 DEF optimizer, IdleInv, OptimizerTypeOK, FlatSeriesIdle
  <2> QED
    BY <2>1, <2>2, <2>3, <2>4 DEF OptimizerNext
<1> QED
  BY <1>1, <1>2, PTL DEF OptimizerSpec

(* However long the series and whatever its prices, the optimizer stores no *)
(* strategy: loadHourlyPoints gives every hour the price of the moment, and *)
(* what has one price never dips below its average.                         *)
THEOREM FlatSeriesIdleHolds == OptimizerSpec => []FlatSeriesIdle
<1>1. IdleInv => FlatSeriesIdle
  BY DEF IdleInv
<1> QED
  BY <1>1, OptimizerInvariance, PTL

(* backtest never looks ahead, and the trades it makes do not overlap and  *)
(* wait for the cooldown: for every series and every combination of the    *)
(* grid.                                                                   *)
THEOREM BacktestInvHolds == OptimizerSpec => []BacktestInv
<1>1. OptimizerTypeOK => BacktestInv
  <2> SUFFICES ASSUME OptimizerTypeOK PROVE BacktestInv
    OBVIOUS
  <2>1. hours \in Points
    BY HoursArePoints
  <2>2. BacktestCausal
    BY <2>1, OneMoreHour DEF BacktestCausal
  <2>3. TradesSeparate
    BY <2>1, BacktestSpaced DEF TradesSeparate, Spaced
  <2> QED
    BY <2>2, <2>3 DEF BacktestInv
<1>2. IdleInv => BacktestInv
  BY <1>1 DEF IdleInv
<1> QED
  BY <1>2, OptimizerInvariance, PTL

(* computeVWAP lies between the lowest and the highest price of its window, *)
(* and comes out the same on the few hours the executor loads as on the     *)
(* whole series: for every series and every period.                         *)
THEOREM AverageInvHolds == OptimizerSpec => []AverageInv
<1>1. OptimizerTypeOK => AverageInv
  <2> SUFFICES ASSUME OptimizerTypeOK PROVE AverageInv
    OBVIOUS
  <2>1. hours \in Points
    BY HoursArePoints
  <2>2. VwapWithinPrices
    <3> SUFFICES ASSUME NEW g \in Grid, NEW w, w = Vwap(hours, Len(hours), g.vwap),
                        NEW S, S = Window(hours, Len(hours), g.vwap), S # {}
                 PROVE  /\ \E j \in S : hours[j].price * w.v <= w.pv
                        /\ \E j \in S : hours[j].price * w.v >= w.pv
      BY DEF VwapWithinPrices
    <3> QED
      BY <2>1, Between
  <2>3. ShortLoadSuffices
    <3> SUFFICES ASSUME NEW g \in Grid, hours # <<>>, NEW short, short = Short(hours, g.vwap)
                 PROVE  Vwap(short, Len(short), g.vwap) = Vwap(hours, Len(hours), g.vwap)
      BY DEF ShortLoadSuffices, Short
    <3>1. g.vwap \in Nat
      BY GridFacts
    <3> QED
      BY <2>1, <3>1, ShortLoad
  <2> QED
    BY <2>2, <2>3 DEF AverageInv
<1>2. IdleInv => AverageInv
  BY <1>1 DEF IdleInv
<1> QED
  BY <1>2, OptimizerInvariance, PTL
=============================================================================
