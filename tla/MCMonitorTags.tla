--------------------------- MODULE MCMonitorTags ---------------------------
(* Small instances of MonitorTags for TLC.                                 *)
EXTENDS MonitorTags, TLC

MonitorSymmetry == Permutations(Monitors)
=============================================================================
