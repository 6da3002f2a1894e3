---------------------------- MODULE MC_IngestLane ----------------------------
(* Every lane with up to five items and batches of two: no batch, a full one, *)
(* a short last one, and a batch failing at each place of three.              *)
EXTENDS IngestLane
==============================================================================
