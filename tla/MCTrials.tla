------------------------------ MODULE MCTrials ------------------------------
(***************************************************************************)
(* Two instances: MCTrialsTime, in which days, windows and retention pass  *)
(* and no money moves, and MCTrialsMoney, in which trials and other public *)
(* calls spend across a day boundary.                                      *)
(***************************************************************************)
EXTENDS Trials, TLC

CONSTANTS c1, c2, c3

MCCap == [b \in Bucket |-> 5]
Symmetry == Permutations(Client)
=============================================================================
