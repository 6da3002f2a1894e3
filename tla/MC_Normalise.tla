---------------------------- MODULE MC_Normalise ----------------------------
(* Two legs beside the party's and up to three bills, of two paise at most.   *)
EXTENDS Normalise
=============================================================================
