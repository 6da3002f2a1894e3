--------------------------- MODULE MC_AutoUpdate ---------------------------
(* Two releases: the one a machine runs, and the one it is to update itself   *)
(* to.                                                                        *)
EXTENDS AutoUpdate
============================================================================
