----------------------------- MODULE MCAnalytics -----------------------------
(* Rollups and optimizer, the two goroutines that read                     *)
(* token_hourly_activity.  They have no state in common, and a step of one *)
(* is none of the other's: a behaviour is of one of them, while the other  *)
(* stands still, so that their states add up instead of multiplying.       *)
EXTENDS HourlyRollup, MCVwap

VARIABLE part   \* whose steps the behaviour has

AnalyticsInit == part \in {"rollups", "optimizer"} /\ Init /\ OptimizerInit

AnalyticsNext ==
  \/ part = "rollups" /\ Next /\ UNCHANGED <<optimizer, part>>
  \/ part = "optimizer" /\ OptimizerNext /\ UNCHANGED <<vars, part>>

AnalyticsSpec == AnalyticsInit /\ [][AnalyticsNext]_<<vars, optimizer, part>> /\ Fairness
=============================================================================
