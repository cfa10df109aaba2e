------------------------------ MODULE StudyCap ------------------------------
(***************************************************************************)
(* A study's own spending cap (CappedProvider, src/forgerl/bench/study.py) *)
(* over the shared ledger.  The study runs one request at a time; before   *)
(* each it compares the reservation it is about to ask for with what is    *)
(* left of its cap, measured as the growth of the whole ledger since the   *)
(* study started.  A lock keeps other studies out, and nothing else: the   *)
(* public app and the recruiter trial reserve and settle meanwhile.        *)
(***************************************************************************)
EXTENDS Ledger

CONSTANTS
    StudyMicro   \* max_cost_usd

ASSUME StudyAssumption == StudyMicro \in Nat

VARIABLES
    study,  \* where the study is, its cap, the total it started from, its request;
            \* history: the calls that were pending when it started (early)
    mine    \* the calls of the study

svars == <<vars, study, mine>>

-----------------------------------------------------------------------------
(* Store.budget("research").                                               *)

Least(a, b) == IF a < b THEN a ELSE b
TotalCharged == Charged("research") + Charged("public") + CalibrationCharge
RemainingResearch ==
    LET left == Least(Cap["research"] - Charged("research") - CalibrationCharge,
                      TotalCap - TotalCharged)
    IN IF left < 0 THEN 0 ELSE left

\* CappedProvider.spent and remaining.
Spent == IF TotalCharged < study.base THEN 0 ELSE TotalCharged - study.base
Remaining ==
    LET left == Least(study.cap - Spent, RemainingResearch)
    IN IF left < 0 THEN 0 ELSE left

-----------------------------------------------------------------------------
\* CappedProvider.__init__
Start ==
    /\ study.pc = "off"
    /\ disabled = "none" /\ RemainingResearch > 0
    /\ study' = [pc |-> "idle", cap |-> Least(StudyMicro, RemainingResearch),
                 base |-> TotalCharged, asks |-> 0,
                 early |-> {i \in Charge : charges[i].status = "reserved"}]
    /\ UNCHANGED <<vars, mine>>

\* Faulty: the request is compared with the cap alone.
PreflightEach(n) ==
    /\ study.pc = "idle" /\ n <= study.cap
    /\ study' = [study EXCEPT !.pc = "cleared", !.asks = n]
    /\ UNCHANGED <<vars, mine>>

\* CappedProvider.generate: the check, in no transaction with what follows.
Preflight(n) ==
    /\ study.pc = "idle" /\ n <= Remaining
    /\ study' = [study EXCEPT !.pc = "cleared", !.asks = n]
    /\ UNCHANGED <<vars, mine>>

StudyReserve(i, now) ==
    /\ study.pc = "cleared"
    /\ Reserve(i, "research", study.asks, now)
    /\ study' = [study EXCEPT !.pc = "calling"]
    /\ mine' = mine \cup {i}

\* budget_exhausted: run_study raises, the study is over.
StudyRefused(i, now) ==
    /\ study.pc = "cleared"
    /\ Refuse(i, "research", study.asks, now)
    /\ study' = [study EXCEPT !.pc = "over"]
    /\ UNCHANGED mine

StudyDenied ==
    /\ study.pc = "calling" /\ \E i \in mine : Deny(i)
    /\ UNCHANGED <<study, mine>>

StudySettles ==
    /\ study.pc = "calling"
    /\ \E i \in mine : \/ \E cost \in Bills : SettleReported(i, cost)
                       \/ SettleUnknown(i)
    /\ study' = [study EXCEPT !.pc = "idle"]
    /\ UNCHANGED mine

\* The cap is reached, the plan is done, or the process is killed; a pending reservation stays charged.
StudyOver ==
    /\ study.pc \in {"idle", "cleared", "calling"}
    /\ IF study.pc = "calling" THEN \E i \in mine : Crash(i) ELSE UNCHANGED vars
    /\ study' = [study EXCEPT !.pc = "over"]
    /\ UNCHANGED mine

\* Calls of other processes, into both buckets.
Unrelated ==
    /\ \/ \E i \in Charge, b \in Bucket, n \in Amounts, now \in Times :
             Reserve(i, b, n, now)
       \/ \E i \in Charge \ mine :
             \/ \E cost \in Bills : SettleReported(i, cost)
             \/ SettleUnknown(i)
             \/ Crash(i)
    /\ UNCHANGED <<study, mine>>

SInit ==
    /\ Init
    /\ study = [pc |-> "off", cap |-> 0, base |-> 0, asks |-> 0, early |-> {}]
    /\ mine = {}

SNext ==
    \/ Start \/ StudyDenied \/ StudySettles \/ StudyOver \/ Unrelated
    \/ \E n \in Amounts : Preflight(n)
    \/ \E i \in Charge, now \in Times : StudyReserve(i, now) \/ StudyRefused(i, now)

SSpec == SInit /\ [][SNext]_svars
-----------------------------------------------------------------------------
(* Properties.                                                             *)

\* By how much the calls that were pending when the study started have been
\* settled below their reservations since.
Lowered ==
    Total([i \in Charge |-> IF i \in study.early THEN charges[i].reserved - Bound(i) ELSE 0], N)

\* What the study binds stays within its cap and what others' pending calls
\* gave back, though the cap is checked outside the transaction that
\* reserves, against a total that other processes move both ways.  study.py:164
\* says of unrelated spending that it "can only stop this earlier": so it is
\* of whatever is reserved after the start, but a call that was pending then
\* and settled lower makes as much room for the study.
StudyWithinCap ==
    Total([i \in Charge |-> IF i \in mine THEN Bound(i) ELSE 0], N) <= study.cap + Lowered

=============================================================================
