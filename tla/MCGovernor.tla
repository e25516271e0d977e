----------------------------- MODULE MCGovernor -----------------------------
(***************************************************************************)
(* Instance for TLC: CPU and memory in three bands each, the shortest      *)
(* thresholds, and the one at which hysteresis_threshold + 1 overflows.    *)
(***************************************************************************)
EXTENDS Governor

MCMetrics == [cpu : {50, 75, 95}, ram : {256, 1024, 4096}]
MCThresholds == {0, 1, 2, 3, 255}

=============================================================================
