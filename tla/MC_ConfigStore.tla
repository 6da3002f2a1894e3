--------------------------- MODULE MC_ConfigStore ---------------------------
(* Two connections, two endpoints, two pairings: of both connections, or of *)
(* the same one twice.                                                      *)
EXTENDS ConfigStore, TLC

CONSTANTS a, b, e, f

MCConns == {a, b}
MCEndpoints == {e, f}
MCSymmetry == Permutations(MCConns) \cup Permutations(MCEndpoints)
==============================================================================
