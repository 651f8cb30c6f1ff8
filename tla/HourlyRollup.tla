---------------------------- MODULE HourlyRollup ----------------------------
(***************************************************************************)
(* scanner/token_analytics_workers.go: the two stages of the orchestrator  *)
(* that roll the stored transfers up into token_hourly_metrics and         *)
(* token_daily_metrics.  Each stage is a goroutine with a ticker of its    *)
(* own; a pass that fails is simply followed by the next one.              *)
(*                                                                         *)
(* The tables they read are filled meanwhile by the pipeline modelled in   *)
(* TransferWriter, in which the row of an hour in token_hourly_activity    *)
(* and its rows in token_transfer_events appear independently: here they   *)
(* are two counters per hour.  A metrics row is represented by its number  *)
(* of transfers, 0 while there is none.                                    *)
(*                                                                         *)
(* The model has one token; the passes treat the others the same way.      *)
(***************************************************************************)
EXTENDS Integers, FiniteSets, Functions

CONSTANTS
  HoursPerDay,  \* 24
  LagHours,     \* EnrichLagHours: how many closed hours are looked at (48)
  DaysBack,     \* how many days before today are looked at (3)
  MaxHour,      \* bound: the last hour of the clock
  MaxPerHour    \* bound: transfers of one hour

ASSUME RollupAssumption ==
  /\ HoursPerDay \in Nat \ {0}
  /\ LagHours \in Nat \ {0}
  /\ DaysBack \in Nat
  /\ MaxHour \in Nat /\ MaxPerHour \in Nat

Hours == 0..MaxHour
DayOf(h) == h \div HoursPerDay
Days  == 0..DayOf(MaxHour)
Counts == 0..MaxPerHour

VARIABLES
  now,       \* the wall clock, in hours
  activity,  \* transfer_count of each hour in token_hourly_activity
  stored,    \* rows of each hour in token_transfer_events
  hourly,    \* transfers of each hour in token_hourly_metrics
  draft,     \* what the hourly stage has computed and not committed yet
  hourlyOn,  \* the hourly stage is between its reads and its commit
  daily,     \* transfers of each day in token_daily_metrics
  dayDraft, dailyOn  \* the same of the daily stage

tables      == <<activity, stored>>
hourlyStage == <<draft, hourlyOn>>
dailyStage  == <<dayDraft, dailyOn>>
vars        == <<now, tables, hourly, hourlyStage, daily, dailyStage>>

Init ==
  /\ now = 0
  /\ activity = [h \in Hours |-> 0]
  /\ stored = [h \in Hours |-> 0]
  /\ hourly = [h \in Hours |-> 0]
  /\ draft = [h \in Hours |-> 0] /\ hourlyOn = FALSE
  /\ daily = [d \in Days |-> 0]
  /\ dayDraft = [d \in Days |-> 0] /\ dailyOn = FALSE

-----------------------------------------------------------------------------
Tick ==
  /\ now < MaxHour
  /\ now' = now + 1
  /\ UNCHANGED <<tables, hourly, hourlyStage, daily, dailyStage>>

(* The pipeline gets on with transfers of hour h, the current one or, when *)
(* it is behind, an earlier one.                                           *)
Count(h) ==
  /\ h <= now
  /\ activity[h] < MaxPerHour
  /\ activity' = [activity EXCEPT ![h] = @ + 1]
  /\ UNCHANGED <<now, stored, hourly, hourlyStage, daily, dailyStage>>

Store(h) ==
  /\ h <= now
  /\ stored[h] < MaxPerHour
  /\ stored' = [stored EXCEPT ![h] = @ + 1]
  /\ UNCHANGED <<now, activity, hourly, hourlyStage, daily, dailyStage>>

(* Definitions marked "wrong" are slips this code might contain: each is   *)
(* put in the place of the definition after it, to see a property fail.    *)

(* Wrong: the hour under way is taken up; the last hour in reach is not. *)
TodoOpen == {h \in Hours : /\ now - LagHours <= h /\ h <= now
                           /\ activity[h] > 0 /\ hourly[h] = 0}
TodoShort == {h \in Hours : /\ now - LagHours < h /\ h <= now - 1
                            /\ activity[h] > 0 /\ hourly[h] = 0}

(* The closed hours in reach that have activity and no metrics yet. *)
Todo == {h \in Hours : /\ now - LagHours <= h /\ h <= now - 1
                       /\ activity[h] > 0 /\ hourly[h] = 0}

(* MaterializeRecentHourlyMetrics finds what is missing and computes it    *)
(* from the events; an hour without events is passed over.                 *)
ReadHours ==
  /\ ~hourlyOn
  /\ hourlyOn' = TRUE
  /\ draft' = [h \in Hours |-> IF h \in Todo THEN stored[h] ELSE 0]
  /\ UNCHANGED <<now, tables, hourly, daily, dailyStage>>

(* All of it is committed in one transaction, but for the hours in failed, *)
(* whose queries reported an error and which were passed over, too ...     *)
CommitHours(failed) ==
  /\ hourlyOn
  /\ hourly' = [h \in Hours |-> IF draft[h] > 0 /\ h \notin failed
                               THEN draft[h] ELSE hourly[h]]
  /\ hourlyOn' = FALSE /\ draft' = [h \in Hours |-> 0]
  /\ UNCHANGED <<now, tables, daily, dailyStage>>

(* ... or rolled back. *)
AbortHours ==
  /\ hourlyOn
  /\ hourlyOn' = FALSE /\ draft' = [h \in Hours |-> 0]
  /\ UNCHANGED <<now, tables, hourly, daily, dailyStage>>

(* Wrong: the last hour of the day is missing. *)
HoursOfDayShort(d) ==
  {h \in Hours : d * HoursPerDay <= h /\ h < d * HoursPerDay + (HoursPerDay - 1)}

(* The hours ComputeDailyMetricsFromHourly adds up: those BETWEEN dayTS    *)
(* and dayTS + 23 hours.                                                   *)
HoursOfDay(d) ==
  {h \in Hours : d * HoursPerDay <= h /\ h <= d * HoursPerDay + (HoursPerDay - 1)}

(* Wrong: only the hours the hourly stage still looks at are added up. *)
DayTotalRecent(d) ==
  SumFunctionOnSet(hourly, {h \in HoursOfDay(d) : activity[h] > 0 /\ h >= now - LagHours})

DayTotal(d) == SumFunctionOnSet(hourly, {h \in HoursOfDay(d) : activity[h] > 0})

(* The days MaterializeRecentDailyMetrics takes up: those within reach     *)
(* that have events.                                                       *)
RecentDays ==
  {d \in Days : /\ DayOf(now) - DaysBack <= d /\ d <= DayOf(now)
                /\ \E h \in Hours : DayOf(h) = d /\ stored[h] > 0}

ReadDays ==
  /\ ~dailyOn
  /\ dailyOn' = TRUE
  /\ dayDraft' = [d \in Days |-> IF d \in RecentDays THEN DayTotal(d) ELSE 0]
  /\ UNCHANGED <<now, tables, hourly, hourlyStage, daily>>

CommitDays(failed) ==
  /\ dailyOn
  /\ daily' = [d \in Days |-> IF dayDraft[d] > 0 /\ d \notin failed
                             THEN dayDraft[d] ELSE daily[d]]
  /\ dailyOn' = FALSE /\ dayDraft' = [d \in Days |-> 0]
  /\ UNCHANGED <<now, tables, hourly, hourlyStage>>

AbortDays ==
  /\ dailyOn
  /\ dailyOn' = FALSE /\ dayDraft' = [d \in Days |-> 0]
  /\ UNCHANGED <<now, tables, hourly, hourlyStage, daily>>

Next ==
  \/ Tick
  \/ \E h \in Hours : Count(h) \/ Store(h)
  \/ ReadHours \/ AbortHours \/ \E failed \in SUBSET Hours : CommitHours(failed)
  \/ ReadDays \/ AbortDays \/ \E failed \in SUBSET Days : CommitDays(failed)

(* The tickers keep firing, and now and then a pass meets no error. *)
Fairness ==
  /\ WF_vars(ReadHours) /\ SF_vars(CommitHours({}))
  /\ WF_vars(ReadDays) /\ SF_vars(CommitDays({}))

Spec == Init /\ [][Next]_vars /\ Fairness

-----------------------------------------------------------------------------
TypeOK ==
  /\ now \in Hours
  /\ activity \in [Hours -> Counts] /\ stored \in [Hours -> Counts]
  /\ hourly \in [Hours -> Counts] /\ draft \in [Hours -> Counts]
  /\ daily \in [Days -> Nat] /\ dayDraft \in [Days -> Nat]
  /\ hourlyOn \in BOOLEAN /\ dailyOn \in BOOLEAN
  /\ ~hourlyOn => draft = [h \in Hours |-> 0]
  /\ ~dailyOn => dayDraft = [d \in Days |-> 0]

(* What the metrics of a day's hours add up to, by the day of each hour.   *)
Metered(d) == SumFunctionOnSet(hourly, {h \in Hours : DayOf(h) = d})

(* Metrics and daily totals never run ahead of what they are made from:    *)
(* only closed hours have metrics, no metrics row counts more transfers    *)
(* than are stored, and no daily total exceeds the metrics of its hours,   *)
(* though both stages write what they read earlier.                        *)
RollupsGrounded ==
  /\ \A h \in Hours : hourly[h] > 0 => h < now /\ hourly[h] <= stored[h]
  /\ \A d \in Days : daily[d] <= Metered(d)

(* What a stage has read still holds when it commits: the hours it adds    *)
(* have no metrics yet, since no other goroutine writes them, and a day's  *)
(* new total is not below the one that is stored.                          *)
DraftsGrounded ==
  /\ \A h \in Hours : hourly[h] > 0 => activity[h] > 0
  /\ \A h \in Hours : draft[h] > 0 => /\ h < now /\ activity[h] > 0
                                      /\ draft[h] <= stored[h] /\ hourly[h] = 0
  /\ \A d \in Days : dayDraft[d] > 0 => daily[d] <= dayDraft[d] /\ dayDraft[d] <= Metered(d)

(* Types, and no metrics ahead of what they are made from.                 *)
RollupInv == TypeOK /\ RollupsGrounded /\ DraftsGrounded

(* A daily total, once written, never shrinks: recomputing a day from its  *)
(* hours cannot lose an hour that was counted before.                      *)
DailyNeverShrinks == [][\A d \in Days : daily'[d] >= daily[d]]_vars

(* "Ensure materialized": an hour that has activity and events gets its    *)
(* metrics row once it is closed, unless it falls out of reach first.      *)
HourMaterialized ==
  \A h \in Hours :
    (activity[h] > 0 /\ stored[h] > 0 /\ h < now)
      ~> (hourly[h] > 0 \/ h < now - LagHours)

(* Once the metrics of a day's hours stop changing, the daily total of a   *)
(* day within reach agrees with them, to the last hour of the day.         *)
DailyCatchesUp ==
  \A d \in Days :
    <>[](\/ d < DayOf(now) - DaysBack
         \/ daily[d] = Metered(d))
=============================================================================
