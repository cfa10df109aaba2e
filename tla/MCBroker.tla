------------------------------ MODULE MCBroker ------------------------------
(* A broker with a few trials of different clients, and what goes wrong     *)
(* around it once or twice.                                                *)
EXTENDS Broker, TLC

CONSTANTS c1, c2, c3

MCCap == [b \in Bucket |-> 4]
Symmetry == Permutations(Client)
=============================================================================
