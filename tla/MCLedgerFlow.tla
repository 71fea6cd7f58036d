---------------------------- MODULE MCLedgerFlow ----------------------------
(* Small instances of LedgerFlow for TLC.                                  *)
EXTENDS LedgerFlow
=============================================================================
