--------------------------- MODULE SpendAuthority ---------------------------
(***************************************************************************)
(* What the ledger promises its callers, without rows, stamps, calls or    *)
(* pauses: money is authorised inside the caps, given back, and exceeded   *)
(* only by an overrun, after which nothing is ever authorised again.       *)
(***************************************************************************)
EXTENDS Integers

CONSTANTS
    Cap,        \* [{"research", "public"} -> Nat], the allowance of a bucket
    TotalCap    \* the allowance of both together

VARIABLES
    spent,      \* micro-USD charged to each bucket
    halted      \* an overrun was seen

vars == <<spent, halted>>

Bucket == {"research", "public"}

TypeOK ==
    /\ spent \in [Bucket -> Nat]
    /\ halted \in BOOLEAN

InsideCaps(s) ==
    /\ \A b \in Bucket : s[b] <= Cap[b]
    /\ s["research"] + s["public"] <= TotalCap

\* The caps hold for as long as no bill exceeded its reservation.
WithinCaps == ~halted => InsideCaps(spent)

Init ==
    /\ spent = [b \in Bucket |-> 0]
    /\ halted = FALSE

OnlyChanges(b) == spent' = [spent EXCEPT ![b] = spent'[b]]

Authorize(b) ==
    /\ ~halted
    /\ OnlyChanges(b)
    /\ spent'[b] > spent[b]
    /\ InsideCaps(spent')
    /\ UNCHANGED halted

Release(b) ==
    /\ OnlyChanges(b)
    /\ spent'[b] \in 0..spent[b]
    /\ UNCHANGED halted

Overrun(b) ==
    /\ OnlyChanges(b)
    /\ spent'[b] > spent[b]
    /\ halted' = TRUE

Next == \E b \in Bucket : Authorize(b) \/ Release(b) \/ Overrun(b)

Spec == Init /\ [][Next]_vars

=============================================================================
