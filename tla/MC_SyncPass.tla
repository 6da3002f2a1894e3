----------------------------- MODULE MC_SyncPass -----------------------------
(* Two companies and two lanes, one of the snapshot kind and one that is not; *)
(* the daemon's sync of one connection, and agentctl's of up to two.          *)
EXTENDS CommandLine

MCKinds == <<"invoice", "tax_ledger_voucher">>
==============================================================================
