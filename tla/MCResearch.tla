------------------------------ MODULE MCResearch ------------------------------
(* What studies spend, in two behaviours that share no state.  The v0.1      *)
(* study: one training task and two held-out ones, one policy, two requests  *)
(* an episode, an allowance that may run out in either part, one other seed. *)
(* A bench study under its cap: up to three calls, its own or others',       *)
(* before and during it.                                                     *)
EXTENDS Research, StudyCap

VARIABLE kind  \* which of the two this behaviour is about

T(id, split) == [id |-> id, split |-> split, source |-> [passed |-> 0, right |-> FALSE]]
MCTraining == <<T(1, "train")>>
MCHeldOut == <<T(2, "validation"), T(3, "test")>>
MCPolicies == <<"adaptive">>
MCReserved == [fast |-> 1, deliberate |-> 2]
MCCandidates == {[passed |-> 0, right |-> FALSE], [passed |-> 1, right |-> TRUE],
                 [passed |-> 1, right |-> FALSE]}
R(t, s, p) == [task |-> t, split |-> s, policy |-> p, status |-> "completed", solved |-> TRUE, cost |-> 1]
Done == [status |-> "complete", partial |-> FALSE,
         raw |-> <<R(2, "validation", "adaptive"), R(3, "test", "adaptive")>>]
MCElsewhere == {Missing, Done}

MCCap == [b \in Bucket |-> 6]

MCInit == kind \in {"research", "cap"} /\ ResearchInit /\ SInit

MCNext ==
    /\ UNCHANGED kind
    /\ \/ kind = "research" /\ ResearchNext /\ UNCHANGED svars
       \/ kind = "cap" /\ SNext /\ UNCHANGED rvars

MCSpec == MCInit /\ [][MCNext]_<<kind, rvars, svars>>
===============================================================================
