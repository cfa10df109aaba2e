----------------------------- MODULE MCRunQueue -----------------------------
(* Two runs of one session from two addresses, over two days.              *)
EXTENDS RunQueue

CONSTANTS s1, a1, a2
=============================================================================
