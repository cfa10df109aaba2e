------------------------- MODULE MCLedgerRejections -------------------------
(* Two calls and one operator are enough to lose a rejection.              *)
EXTENDS LedgerRejections, MCLedger
=============================================================================
