------------------------------ MODULE MCLedger ------------------------------
(***************************************************************************)
(* Three calls, with allowances small enough that each of the bucket, the  *)
(* total and the rolling allowance is the one that refuses in some state.  *)
(***************************************************************************)
EXTENDS Ledger

MCCap == [b \in Bucket |-> IF b = "research" THEN 3 ELSE 4]
=============================================================================
