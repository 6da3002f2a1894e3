---------------------------- MODULE MC_Companies ----------------------------
(* Three ports and one nothing listens on, two companies of one name, of which *)
(* ours has renamed its Duties & Taxes group.                                  *)
EXTENDS Companies

MCDutyGroup == [c \in Books |-> IF c = Ours THEN "Levies" ELSE Standard]
=============================================================================
