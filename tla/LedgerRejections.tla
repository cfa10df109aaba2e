-------------------------- MODULE LedgerRejections --------------------------
(***************************************************************************)
(* The ledger with a history variable: did the provider reject the         *)
(* credential, the credit or a permission (HTTP 401, 402, 403) since an    *)
(* operator last removed a provider_access pause?                          *)
(***************************************************************************)
EXTENDS Ledger

VARIABLE rejected

allVars == <<vars, rejected>>

RInit == Init /\ rejected = FALSE

Rejection == \E i \in Charge : call[i] = "open" /\ call'[i] = "denied"
Cleared == disabled = "provider_access" /\ disabled' = "none"

RNext ==
    /\ Next
    /\ rejected' = (Rejection \/ (rejected /\ ~Cleared))

RSpec == RInit /\ [][RNext]_allVars

\* docs/OPERATIONS.md:103 says that a 401/402/403 pauses new reservations
\* until an operator, having resolved the issue, removes that reason.  The
\* code inserts the reason ON CONFLICT DO NOTHING: a rejection that arrives
\* during an operator pause is not recorded, and resuming from that pause
\* lets reservations through.
RejectionPauses == rejected => disabled # "none"

=============================================================================
