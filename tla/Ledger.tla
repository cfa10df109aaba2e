------------------------------- MODULE Ledger -------------------------------
(***************************************************************************)
(* The durable charge ledger of src/forgerl/store.py, shared by every      *)
(* process that calls a model, and the part of a provider call             *)
(* (src/forgerl/provider.py, src/forgerl/bench/provider.py) that moves     *)
(* money: reserve, send, settle.  Every store method is one BEGIN          *)
(* IMMEDIATE transaction, so it is one step; a process can be killed       *)
(* between any two of them, and calls of different processes interleave.   *)
(*                                                                         *)
(* Calls are numbered 1..N in the order in which they reach the ledger     *)
(* (the code names a charge with uuid4); call i owns charges row i.        *)
(***************************************************************************)
EXTENDS Integers, Totals

CONSTANTS
    N,              \* number of provider calls considered
    Amounts,        \* reservations that callers ask for
    Bills,          \* costs that the provider reports
    Times,          \* values of time.time() a reservation can be stamped with
    Cap,            \* Store.CAPS
    TotalCap,       \* Store.TOTAL_CAP
    DayCap,         \* rolling allowance of the public bucket
    Day,            \* length of its window (86400)
    MaxReservation, \* the most one reservation may hold (500_000)
    Calibration     \* the imported historical charge (770)

Bucket == {"research", "public"}
Charge == 1..N

ASSUME LedgerAssumption ==
    /\ N \in Nat
    /\ Amounts \subseteq Nat /\ Bills \subseteq Nat /\ Times \subseteq Int
    /\ Cap \in [Bucket -> Nat]
    /\ TotalCap \in Nat /\ DayCap \in Nat /\ Calibration \in Nat
    /\ Day \in Nat /\ MaxReservation \in Nat

VARIABLES
    charges,     \* the charges table
    calibrated,  \* its fixed row "initial-provider-calibration" is present
    disabled,    \* settings['provider_disabled'], "none" when absent
    call         \* where each call is

vars == <<charges, calibrated, disabled, call>>

Reason == {"none", "operator_paused", "provider_access", "reservation_exceeded"}
Row == [bucket : Bucket, status : {"absent", "reserved", "estimated", "uncertain"},
        reserved : Nat, charged : Nat, created : Int]
NoRow == [bucket |-> "research", status |-> "absent",
          reserved |-> 0, charged |-> 0, created |-> 0]

TypeOK ==
    /\ charges \in [Charge -> Row]
    /\ calibrated \in BOOLEAN
    /\ disabled \in Reason
    /\ call \in [Charge -> {"idle", "open", "denied", "closed"}]

-----------------------------------------------------------------------------
(* SUM(charged) over the rows of a bucket, or of the public bucket since a *)
(* moment.  A row that was never inserted holds 0.                         *)

Charged(b) ==
    Total([i \in Charge |-> IF charges[i].bucket = b THEN charges[i].charged
                                                     ELSE 0], N)

\* Faulty: rows stamped after "now" by a process that read its clock later
\* but committed first do not count.
ChargedPublicWindow(t) ==
    Total([i \in Charge |-> IF /\ charges[i].bucket = "public"
                               /\ charges[i].created > t
                               /\ charges[i].created <= t + Day
                            THEN charges[i].charged ELSE 0], N)

ChargedPublicAfter(t) ==
    Total([i \in Charge |-> IF charges[i].bucket = "public" /\ charges[i].created > t
                            THEN charges[i].charged ELSE 0], N)
CalibrationCharge == IF calibrated THEN Calibration ELSE 0

-----------------------------------------------------------------------------
(* Store.reserve: the allowances, read and spent in one transaction.       *)

\* Faulty: the buckets are checked, their total is not.
AllowedByBucket(b, n, now) ==
    /\ disabled = "none"
    /\ Charged(b) + (IF b = "research" THEN CalibrationCharge ELSE 0) + n <= Cap[b]
    /\ b = "public" => ChargedPublicAfter(now - Day) + n <= DayCap

Allowed(b, n, now) ==
    /\ disabled = "none"
    /\ Charged("research") + Charged("public") + CalibrationCharge + n <= TotalCap
    /\ Charged(b) + (IF b = "research" THEN CalibrationCharge ELSE 0) + n <= Cap[b]
    /\ b = "public" => ChargedPublicAfter(now - Day) + n <= DayCap

\* The next call reaches the ledger.
Arrives(i) == call[i] = "idle" /\ \A j \in 1..(i-1) : call[j] # "idle"

\* "now" is read before the transaction waits for the write lock, so rows
\* can commit in another order than their stamps: any stamp is possible.
Reserve(i, b, n, now) ==
    /\ Arrives(i)
    /\ n \in 1..MaxReservation
    /\ Allowed(b, n, now)
    /\ charges' = [charges EXCEPT ![i] =
           [bucket |-> b, status |-> "reserved", reserved |-> n, charged |-> n,
            created |-> now]]
    /\ call' = [call EXCEPT ![i] = "open"]
    /\ UNCHANGED <<calibrated, disabled>>

\* ValueError or BudgetExceeded: the call ends before any request is sent.
Refuse(i, b, n, now) ==
    /\ Arrives(i)
    /\ ~(n \in 1..MaxReservation /\ Allowed(b, n, now))
    /\ call' = [call EXCEPT ![i] = "closed"]
    /\ UNCHANGED <<charges, calibrated, disabled>>

-----------------------------------------------------------------------------
(* Store.settle: only a row that is still reserved, once.                  *)

\* Faulty: an overrun is recorded and nothing is latched.
SettleUnlatched(i, cost) ==
    /\ call[i] = "open"
    /\ charges[i].status = "reserved"
    /\ charges' = [charges EXCEPT ![i].charged = cost, ![i].status = "estimated"]
    /\ call' = [call EXCEPT ![i] = "closed"]
    /\ UNCHANGED <<calibrated, disabled>>

\* The provider reported usable accounting for an HTTP 200.
SettleReported(i, cost) ==
    /\ call[i] = "open"
    /\ charges[i].status = "reserved"
    /\ disabled' = IF cost > charges[i].reserved THEN "reservation_exceeded"
                                                 ELSE disabled
    /\ charges' = [charges EXCEPT ![i].charged = cost, ![i].status = "estimated"]
    /\ call' = [call EXCEPT ![i] = "closed"]
    /\ UNCHANGED calibrated

\* Timeout, cancellation, an error status, malformed or missing accounting,
\* or a first settlement that SQLite refused: settle(charge, None).
SettleUnknown(i) ==
    /\ call[i] \in {"open", "denied"}
    /\ charges[i].status = "reserved"
    /\ charges' = [charges EXCEPT ![i].charged = charges[i].reserved,
                                   ![i].status = "uncertain"]
    /\ call' = [call EXCEPT ![i] = "closed"]
    /\ UNCHANGED <<calibrated, disabled>>

\* HTTP 401/402/403: the pause is committed before the row is settled.
Deny(i) ==
    /\ call[i] = "open"
    /\ disabled' = IF disabled = "none" THEN "provider_access" ELSE disabled
    /\ call' = [call EXCEPT ![i] = "denied"]
    /\ UNCHANGED <<charges, calibrated>>

\* The process is killed, or SQLite refuses the last settlement too.
Crash(i) ==
    /\ call[i] \in {"open", "denied"}
    /\ call' = [call EXCEPT ![i] = "closed"]
    /\ UNCHANGED <<charges, calibrated, disabled>>

\* Faulty: the status of the row is not looked at.
MarkAnyUncertain(i) ==
    /\ charges[i].status # "absent" /\ charges[i].bucket = "public"
    /\ charges' = [charges EXCEPT ![i].status = "uncertain"]
    /\ UNCHANGED <<calibrated, disabled, call>>

\* BrokerState.recover: it looks at the row, not at who may still settle it.
MarkUncertain(i) ==
    /\ charges[i].status = "reserved" /\ charges[i].bucket = "public"
    /\ charges' = [charges EXCEPT ![i].status = "uncertain"]
    /\ UNCHANGED <<calibrated, disabled, call>>

-----------------------------------------------------------------------------
(* The operator.                                                           *)

\* Store.import_calibration: INSERT OR IGNORE, whatever the caps say.
ImportCalibration ==
    /\ calibrated' = TRUE
    /\ UNCHANGED <<charges, disabled, call>>

Pause ==
    /\ disabled' = IF disabled = "none" THEN "operator_paused" ELSE disabled
    /\ UNCHANGED <<charges, calibrated, call>>

\* Faulty: the row is deleted whatever its value.
ResumeAnything ==
    /\ disabled # "none"
    /\ disabled' = "none"
    /\ UNCHANGED <<charges, calibrated, call>>

Resume ==
    /\ disabled = "operator_paused"
    /\ disabled' = "none"
    /\ UNCHANGED <<charges, calibrated, call>>

\* "an operator may remove that specific reason" (provider_access).
ClearAccess ==
    /\ disabled = "provider_access"
    /\ disabled' = "none"
    /\ UNCHANGED <<charges, calibrated, call>>

-----------------------------------------------------------------------------
Init ==
    /\ charges = [i \in Charge |-> NoRow]
    /\ calibrated = FALSE
    /\ disabled = "none"
    /\ call = [i \in Charge |-> "idle"]

Next ==
    \/ \E i \in Charge, b \in Bucket, n \in Amounts, now \in Times :
          Reserve(i, b, n, now) \/ Refuse(i, b, n, now)
    \/ \E i \in Charge, cost \in Bills : SettleReported(i, cost)
    \/ \E i \in Charge :
          SettleUnknown(i) \/ Deny(i) \/ Crash(i) \/ MarkUncertain(i)
    \/ ImportCalibration \/ Pause \/ Resume \/ ClearAccess

Spec == Init /\ [][Next]_vars
-----------------------------------------------------------------------------
(***************************************************************************)
(* Properties.                                                             *)
(***************************************************************************)

\* What a row binds of its bucket: all of its reservation until the bill is
\* known, then the bill, never more than was reserved.
Bound(i) == IF charges[i].charged < charges[i].reserved
            THEN charges[i].charged ELSE charges[i].reserved
Committed(b) ==
    Total([i \in Charge |-> IF charges[i].bucket = b THEN Bound(i) ELSE 0], N)
CommittedPublicIn(t) ==
    Total([i \in Charge |-> IF /\ charges[i].bucket = "public"
                               /\ charges[i].created > t - Day
                               /\ charges[i].created <= t
                            THEN Bound(i) ELSE 0], N)

\* Store.reserve checks the caps against what is charged at that moment.
\* However calls of several processes interleave, crash and settle, what
\* their reservations bind never exceeds a bucket's cap or the total cap,
\* not even after an overrun.
CommittedWithinCaps ==
    /\ \A b \in Bucket : Committed(b) <= Cap[b]
    /\ Committed("research") + Committed("public") <= TotalCap

\* Rows are stamped before their transaction starts, so they can commit out
\* of stamp order; still no window of one Day, wherever it ends, binds more
\* than the rolling public allowance.
RollingDayWithinCap == \A t \in Times : CommittedPublicIn(t) <= DayCap

Overran(i) == charges[i].charged > charges[i].reserved

\* A bill above its reservation leaves the discrepancy reason in the
\* settings, whatever pauses and rejections the operator and other calls
\* write or remove around it.
OverrunLatched ==
    (\E i \in Charge : Overran(i)) => disabled = "reservation_exceeded"

\* ... so from then on no row is ever inserted.
NoSpendAfterOverrun ==
    [][(\E i \in Charge : Overran(i)) =>
          \A j \in Charge : charges'[j].status = "absent"
                            <=> charges[j].status = "absent"]_vars

\* While a bill is unknown its whole reservation stays charged, whether the
\* call is in flight, was killed, or was given up as uncertain.
UnknownKeepsReservation ==
    \A i \in Charge : charges[i].status \in {"reserved", "uncertain"} =>
        charges[i].charged = charges[i].reserved

\* An accounted row is final: nothing settles it twice, refunds it, or lets
\* a recovery turn a known bill into an uncertain one.
AccountedForever ==
    [][\A i \in Charge :
          /\ charges[i].status \in {"estimated", "uncertain"} =>
                charges'[i] = charges[i]
          /\ charges[i].status = "reserved" =>
                /\ charges'[i].reserved = charges[i].reserved
                /\ charges'[i].bucket = charges[i].bucket
                /\ charges'[i].created = charges[i].created
                /\ charges'[i].status # "absent"]_vars

\* Seen through its sums, the ledger is a spend authority.
Authority == INSTANCE SpendAuthority WITH
    spent  <- [b \in Bucket |-> Charged(b)],
    halted <- (disabled = "reservation_exceeded")

ImplementsSpendAuthority == Authority!Spec

=============================================================================
