-------------------------- MODULE MCAnalyticsQueue --------------------------
(* TLC instance of AnalyticsQueue, fed by store_metrics. *)
EXTENDS StoreMetrics
=============================================================================
