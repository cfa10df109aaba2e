-------------------------- MODULE RepoEpisodeProofs --------------------------
(***************************************************************************)
(* What RepoEpisode promises for every bound, cap, task and bill.          *)
(***************************************************************************)
EXTENDS RepoEpisode, TLAPS

Live == {"choose", "asked", "check", "verify", "backoff"}

(* What makes the invariants of RepoEpisode inductive.                     *)

\* The loop goes on only while every limit leaves room for one more decision.
Room ==
    /\ pc = "start" => n.attempts = 0 /\ n.decisions = 0 /\ n.retries = 0 /\ n.invalid = 0
    /\ pc \in {"choose", "verify", "backoff"} => n.attempts < MaxSteps
    /\ pc \in {"choose", "backoff"} => n.decisions < MaxDecisions
    /\ pc \in Live => n.invalid < 3 /\ (n.retries > 0 => n.attempts > 0)

\* A request that is out was legal, fits the caps, and is already counted.
Outstanding ==
    /\ pc \in {"asked", "backoff"} => n.attempts > 0 /\ ~GreenSignal
    /\ pc = "asked" =>
          /\ n.attempts = ledger.sent + 1
          /\ n.providerRetries = ledger.resent + IF request.again THEN 1 ELSE 0
          /\ request.escalates => model # "strong" /\ request.model = "strong"
          /\ model = "strong" => request.model = "strong"
          /\ cost + Price <= Cap
          /\ tokens.known + tokens.unknown + Bound <= MaxTokens
    /\ pc = "backoff" =>
          /\ n.providerRetries < RetryLimit
          /\ cost < Cap
          /\ request.model = model

\* Only a request makes the model strong, and only that counts as an escalation.
Roles ==
    /\ model = "strong" => ledger.sent > 0
    /\ n.escalations > 0 => model = "strong"

Measured ==
    /\ MeasuredTogether
    /\ pc = "start" => files = 0 /\ best.files = 0 /\ status # "completed"
    /\ pc # "ended" => status # "completed"
    /\ pc = "finish" /\ status = "running" => public.of = files

IInv == ETypeOK /\ NeverIllegal /\ Room /\ Outstanding /\ Roles /\ AccountedRequests
        /\ Measured

-----------------------------------------------------------------------------

(* The counters, one by one.                                               *)
LEMMA CounterFields ==
    ASSUME n \in [Counter -> Nat], \A c \in Counter : n[c] <= Limit[c]
    PROVE  /\ n.attempts \in 0..MaxSteps /\ n.decisions \in 0..MaxDecisions
           /\ n.retries \in 0..2 /\ n.invalid \in 0..3 /\ n.rollbacks \in 0..1
           /\ n.escalations \in 0..1 /\ n.providerRetries \in 0..RetryLimit
           /\ n.verifications \in 0..MaxVerifications
    BY EpisodeAssumption DEF Counter, Limit

(* Initially everything is zero.                                           *)
THEOREM InitIInv == Init => IInv
    BY EpisodeAssumption
    DEF Init, IInv, ETypeOK, NeverIllegal, Room, Outstanding, Roles, AccountedRequests,
        Measured, MeasuredTogether, Live, Counter, Limit, Measurement, Ungraded, Model

(* The selectors respect the mask: whatever choose_action returns is one   *)
(* of the actions that step() accepts (router.py:78-127, pilot.py:151-166).*)
LEMMA SelectIsLegal ==
    ASSUME IInv, pc = "choose"
    PROVE  Select \subseteq Legal
<1>1. CASE "verify" \in Legal
    BY <1>1 DEF Select
<1>2. CASE "verify" \notin Legal
    <2>1. Choices \subseteq Allowed
        <3>1. n.attempts \in Nat /\ n.retries \in 0..2 /\ n.attempts < MaxSteps
            BY CounterFields, EpisodeAssumption DEF IInv, ETypeOK, Room
        <3>2. n.attempts = 0 => n.retries = 0 /\ model # "strong"
            BY <3>1 DEF IInv, Room, Live, Roles, AccountedRequests, ETypeOK, Model
        <3>3. CASE Allowed = {"stop"}
            BY <3>3 DEF Choices
        <3>4. CASE Allowed # {"stop"}
            <4>1. /\ n.attempts > 0 => "repair" \in Allowed
                  /\ model # "strong" => "escalate" \in Allowed
                  /\ n.attempts = 0 => "retry" \in Allowed
                BY <3>1, <3>2, <3>4 DEF Allowed
            <4>2. StaticAction \in Allowed
                BY <3>1, <3>2, <4>1 DEF StaticAction
            <4>3. task.policy \in Policy
                BY EpisodeAssumption DEF IInv, ETypeOK
            <4>4. QED
                BY <3>1, <3>2, <3>4, <4>1, <4>2, <4>3 DEF Choices, Policy
        <3>5. QED
            BY <3>3, <3>4
    <2>2. QED
        BY <1>2, <2>1 DEF Select, Legal
<1>3. QED
    BY <1>1, <1>2

-----------------------------------------------------------------------------
(* Every step keeps IInv.  The steps of the loop first.                    *)

(* Stopping only counts the decision.                                      *)
LEMMA StopStep ==
    ASSUME IInv, pc = "choose", Stop
    PROVE  IInv'
    BY CounterFields, EpisodeAssumption
    DEF Stop, Count, Only, Counter, Limit, IInv, ETypeOK, NeverIllegal, Room,
        Outstanding, Roles, AccountedRequests,
           Measured, MeasuredTogether, Live

(* The checkpoint's files come back with the checkpoint's own measurement. *)
LEMMA RollbackStep ==
    ASSUME IInv, pc = "choose", "rollback" \in Legal, Rollback
    PROVE  IInv'
    BY CounterFields, EpisodeAssumption
    DEF Rollback, Count, Only, Counter, Limit, AfterStep, Sign, Legal, Allowed,
        Measurement, CanRollback, IInv, ETypeOK, NeverIllegal, Room, Outstanding,
        Roles, AccountedRequests,
           Measured, MeasuredTogether, Live

(* Asking for a verification of a green candidate uses a decision and      *)
(* nothing else.                                                           *)
LEMMA VerifyStep ==
    ASSUME IInv, pc = "choose", "verify" \in Legal, Verify
    PROVE  IInv'
    BY CounterFields, EpisodeAssumption
    DEF Verify, Count, Only, Counter, Limit, Legal, Allowed, IInv, ETypeOK,
        NeverIllegal, Room, Outstanding, Roles, AccountedRequests,
           Measured, MeasuredTogether, Live

(* A request refused before it is made leaves every account as it was.     *)
LEMMA PreflightStep ==
    ASSUME IInv, pc \in {"choose", "backoff"}, Preflight
    PROVE  IInv'
    BY CounterFields, EpisodeAssumption
    DEF Preflight, Count, Only, Counter, Limit, IInv, ETypeOK, NeverIllegal, Room,
        Outstanding, Roles, AccountedRequests,
           Measured, MeasuredTogether, Live

(* A legal request fits both caps, and is counted before it is sent.       *)
LEMMA AskStep ==
    ASSUME IInv, pc \in {"choose", "backoff"}, NEW again \in BOOLEAN,
           NEW action \in Legal, action \in {"retry", "repair", "escalate"},
           again => pc = "backoff" /\ action = "repair", Ask(action, again)
    PROVE  IInv'
<1> USE EpisodeAssumption
<1>1. /\ ~GreenSignal /\ n.attempts < MaxSteps /\ n.decisions < MaxDecisions
      /\ action = "retry" => n.retries < 2
      /\ action = "escalate" => model # "strong"
    BY CounterFields DEF Legal, Allowed, IInv, ETypeOK
<1>2. /\ n'.attempts = n.attempts + 1 /\ n'.decisions = n.decisions + 1
      /\ n'.retries = n.retries + IF action = "retry" /\ n.attempts > 0 THEN 1 ELSE 0
      /\ n'.providerRetries = n.providerRetries + IF again THEN 1 ELSE 0
      /\ n'.invalid = n.invalid /\ n'.rollbacks = n.rollbacks
      /\ n'.escalations = n.escalations /\ n'.verifications = n.verifications
      /\ n' \in [Counter -> Nat]
    BY DEF Ask, Count, Only, Counter, IInv, ETypeOK
<1>3. ETypeOK'
    BY <1>1, <1>2, CounterFields
    DEF Ask, Counter, Limit, Model, IInv, ETypeOK, Outstanding
<1>4. NeverIllegal' /\ Room' /\ Roles' /\ Measured'
    BY <1>2, CounterFields
    DEF Ask, Live, IInv, ETypeOK, NeverIllegal, Room, Roles, Measured, MeasuredTogether
<1>5. AccountedRequests'
    BY <1>2, CounterFields DEF Ask, IInv, ETypeOK, AccountedRequests
<1>6. Outstanding'
    <2>1. n'.attempts > 0 /\ ~GreenSignal' /\ pc' = "asked"
        BY <1>1, <1>2, CounterFields DEF Ask, GreenSignal, Green, IInv, ETypeOK
    <2>2. /\ n'.attempts = ledger'.sent + 1
          /\ n'.providerRetries = ledger'.resent + IF request'.again THEN 1 ELSE 0
        BY <1>2 DEF Ask, IInv, ETypeOK, AccountedRequests
    <2>3. /\ request'.escalates => model' # "strong" /\ request'.model = "strong"
          /\ model' = "strong" => request'.model = "strong"
        BY DEF Ask
    <2>4. cost' + Price <= Cap
        BY DEF Ask, OverCost, IInv, ETypeOK
    <2>5. tokens'.known + tokens'.unknown + Bound <= MaxTokens
        BY DEF Ask, OverTokens, IInv, ETypeOK
    <2>6. QED
        BY <2>1, <2>2, <2>3, <2>4, <2>5 DEF Outstanding
<1>7. QED
    BY <1>3, <1>4, <1>5, <1>6 DEF IInv

(* Both ways into step(): a selection, and the retry after a backoff, are  *)
(* legal.                                                                  *)
LEMMA LoopStep ==
    ASSUME IInv, Choose \/ Wake
    PROVE  IInv'
<1>1. CASE Choose
    <2>1. PICK action \in Select : Step(action, FALSE)
        BY <1>1 DEF Choose
    <2>2. action \in Legal /\ pc = "choose"
        BY <1>1, <2>1, SelectIsLegal DEF Choose
    <2>3. QED
        BY <2>1, <2>2, StopStep, RollbackStep, VerifyStep, PreflightStep,
            AskStep DEF Step
<1>2. CASE Wake
    <2>1. pc = "backoff" /\ "repair" \in Legal
        BY <1>2, CounterFields, EpisodeAssumption
        DEF Wake, Legal, Allowed, IInv, ETypeOK, Room, Outstanding
    <2>2. QED
        BY <1>2, <2>1, PreflightStep, AskStep DEF Wake, Step
<1>3. QED
    BY <1>1, <1>2

-----------------------------------------------------------------------------
(* The answers of the provider.                                            *)

(* A reservation refused by the ledger gives back what AskStep counted.    *)
LEMMA RefusedStep ==
    ASSUME IInv, Refused
    PROVE  IInv'
    BY CounterFields, EpisodeAssumption
    DEF Refused, Only, Counter, Limit,
        IInv, ETypeOK, NeverIllegal, Room, Outstanding, Roles, AccountedRequests,
           Measured, MeasuredTogether, Live

(* What every charged answer leaves behind.                                *)
Paid ==
    /\ ledger' \in [sent : Nat, resent : Nat, billed : Nat, overrun : BOOLEAN]
    /\ cost' \in Nat /\ tokens' \in [known : Nat, unknown : Nat]
    /\ n.attempts = ledger'.sent /\ n.providerRetries = ledger'.resent
    /\ ledger'.sent > 0
    /\ cost' = ledger'.billed /\ (ledger'.overrun \/ cost' <= Cap)
    /\ tokens'.known + tokens'.unknown <= MaxTokens

(* Every charged answer closes the gap between the counted and the sent    *)
(* requests, within the caps or with an overrun.                           *)
LEMMA ChargedStep ==
    ASSUME IInv, pc = "asked", NEW bill \in Nat, NEW usage \in 0..Bound,
           Charged(bill, usage)
    PROVE  Paid
<1> USE EpisodeAssumption
<1>1. /\ tokens' \in [known : Nat, unknown : Nat]
      /\ tokens'.known + tokens'.unknown <= tokens.known + tokens.unknown + Bound
    <2>1. CASE usage = 0
        BY <2>1 DEF Charged, IInv, ETypeOK
    <2>2. CASE usage # 0
        BY <2>2 DEF Charged, IInv, ETypeOK
    <2>3. QED
        BY <2>1, <2>2
<1>2. /\ ledger' \in [sent : Nat, resent : Nat, billed : Nat, overrun : BOOLEAN]
      /\ cost' \in Nat
    BY DEF Charged, IInv, ETypeOK
<1>3. /\ n.attempts = ledger'.sent /\ n.providerRetries = ledger'.resent
      /\ ledger'.sent > 0
    BY DEF Charged, IInv, ETypeOK, Outstanding
<1>4. cost' = ledger'.billed /\ (ledger'.overrun \/ cost' <= Cap)
    <2>1. cost' = ledger'.billed
        BY DEF Charged, IInv, ETypeOK, AccountedRequests
    <2>2. CASE bill > Price
        BY <2>1, <2>2 DEF Charged
    <2>3. CASE ~(bill > Price)
        BY <2>1, <2>3 DEF Charged, IInv, ETypeOK, Outstanding
    <2>4. QED
        BY <2>2, <2>3
<1>5. QED
    BY <1>1, <1>2, <1>3, <1>4 DEF Paid, IInv, ETypeOK, Outstanding

(* After a 429 a retry is scheduled only if every limit leaves room for    *)
(* it.                                                                     *)
LEMMA RateLimitedStep ==
    ASSUME IInv, NEW after \in Waits, RateLimited(after)
    PROVE  IInv'
<1> USE EpisodeAssumption
<1>1. Paid
    BY ChargedStep DEF RateLimited
<1>2. /\ n'.attempts = n.attempts /\ n'.decisions = n.decisions
      /\ n'.retries = n.retries /\ n'.invalid = n.invalid
      /\ n'.rollbacks = n.rollbacks /\ n'.providerRetries = n.providerRetries
      /\ n'.verifications = n.verifications /\ n' \in [Counter -> Nat]
      /\ \/ n'.escalations = n.escalations
         \/ n'.escalations = n.escalations + 1 /\ request.escalates /\ model' = "strong"
      /\ model' \in {model, request.model}
      /\ request.escalates => n.escalations = 0
    BY CounterFields
    DEF RateLimited, Committed, Seen, Count, Only, Counter, IInv, ETypeOK, Outstanding,
        Roles
<1>3. ETypeOK'
    BY <1>1, <1>2, CounterFields
    DEF RateLimited, Paid, Counter, Limit, Model, Live, IInv, ETypeOK, Room,
        Outstanding, Roles
<1>4. Room' /\ NeverIllegal'
    BY <1>2, CounterFields
    DEF RateLimited, MayRetry, Live, IInv, ETypeOK, Room, NeverIllegal, Outstanding
<1>5. Outstanding'
    BY <1>1, <1>2, CounterFields
    DEF RateLimited, MayRetry, Charged, Committed, Seen, Paid, GreenSignal, Green,
        IInv, ETypeOK, Outstanding
<1>6. Roles'
    BY <1>1, <1>2, CounterFields DEF RateLimited, Paid, Model, IInv, ETypeOK,
        Outstanding, Roles
<1>7. AccountedRequests'
    BY <1>1, <1>2 DEF Paid, AccountedRequests
<1>8. Measured'
    BY DEF RateLimited, IInv, ETypeOK, Measured, MeasuredTogether
<1>9. QED
    BY <1>3, <1>4, <1>5, <1>6, <1>7, <1>8 DEF IInv

(* An unusable answer ends the episode with its charge accounted.          *)
LEMMA UnusableStep ==
    ASSUME IInv, NEW bill \in Nat, NEW usage \in 0..Bound, NEW said \in BOOLEAN,
           Unusable(bill, usage, said)
    PROVE  IInv'
<1> USE EpisodeAssumption
<1>1. Paid
    BY ChargedStep DEF Unusable
<1>2. /\ n'.attempts = n.attempts /\ n'.decisions = n.decisions
      /\ n'.retries = n.retries /\ n'.invalid = n.invalid
      /\ n'.rollbacks = n.rollbacks /\ n'.providerRetries = n.providerRetries
      /\ n'.verifications = n.verifications /\ n' \in [Counter -> Nat]
      /\ \/ n'.escalations = n.escalations
         \/ n'.escalations = n.escalations + 1 /\ request.escalates /\ model' = "strong"
      /\ model' \in {model, request.model}
      /\ request.escalates => n.escalations = 0
    BY CounterFields
    DEF Unusable, Committed, Count, Only, Counter, IInv, ETypeOK, Outstanding, Roles
<1>3. ETypeOK'
    BY <1>1, <1>2, CounterFields
    DEF Unusable, Paid, Counter, Limit, Model, Live, IInv, ETypeOK, Room, Outstanding,
        Roles
<1>4. Room' /\ NeverIllegal'
    BY <1>2, CounterFields
    DEF Unusable, Live, IInv, ETypeOK, Room, NeverIllegal, Outstanding
<1>5. Outstanding'
    BY <1>1, <1>2, CounterFields
    DEF Unusable, Paid, GreenSignal, Green, IInv, ETypeOK, Outstanding
<1>6. Roles'
    BY <1>1, <1>2, CounterFields DEF Unusable, Paid, Model, IInv, ETypeOK, Outstanding,
        Roles
<1>7. AccountedRequests'
    BY <1>1, <1>2 DEF Paid, AccountedRequests
<1>8. Measured'
    BY DEF Unusable, IInv, ETypeOK, Measured, MeasuredTogether
<1>9. QED
    BY <1>3, <1>4, <1>5, <1>6, <1>7, <1>8 DEF IInv

(* An invalid answer is counted, and the third one ends the episode.       *)
LEMMA InvalidStep ==
    ASSUME IInv, NEW bill \in Nat, NEW usage \in 0..Bound, NEW said \in BOOLEAN,
           InvalidAnswer(bill, usage, said)
    PROVE  IInv'
<1> USE EpisodeAssumption
<1>1. Paid
    BY ChargedStep DEF InvalidAnswer
<1>2. /\ n'.attempts = n.attempts /\ n'.decisions = n.decisions
      /\ n'.retries = n.retries /\ n'.invalid = n.invalid + 1
      /\ n'.rollbacks = n.rollbacks /\ n'.providerRetries = n.providerRetries
      /\ n'.verifications = n.verifications /\ n' \in [Counter -> Nat]
      /\ \/ n'.escalations = n.escalations
         \/ n'.escalations = n.escalations + 1 /\ request.escalates /\ model' = "strong"
      /\ model' \in {model, request.model}
      /\ request.escalates => n.escalations = 0
    BY CounterFields
    DEF InvalidAnswer, Committed, Count, Only, Counter, IInv, ETypeOK, Outstanding,
        Roles
<1>3. ETypeOK'
    BY <1>1, <1>2, CounterFields
    DEF InvalidAnswer, AfterInvalid, AfterStep, Paid, Counter, Limit, Model, Live,
        IInv, ETypeOK, Room, Outstanding, Roles
<1>4. Room' /\ NeverIllegal'
    BY <1>2, CounterFields
    DEF InvalidAnswer, AfterInvalid, AfterStep, Live, IInv, ETypeOK, Room,
        NeverIllegal, Outstanding
<1>5. Outstanding'
    BY <1>1, <1>2, CounterFields
    DEF InvalidAnswer, AfterInvalid, AfterStep, Paid, GreenSignal, Green, IInv,
        ETypeOK, Outstanding
<1>6. Roles'
    BY <1>1, <1>2, CounterFields DEF InvalidAnswer, Paid, Model, IInv, ETypeOK,
        Outstanding, Roles
<1>7. AccountedRequests'
    BY <1>1, <1>2 DEF Paid, AccountedRequests
<1>8. Measured'
    BY DEF InvalidAnswer, AfterInvalid, AfterStep, IInv, ETypeOK, Measured,
        MeasuredTogether
<1>9. QED
    BY <1>3, <1>4, <1>5, <1>6, <1>7, <1>8 DEF IInv

(* A candidate replaces the files; until it is measured, nothing is        *)
(* decided.                                                                *)
LEMMA CandidateStep ==
    ASSUME IInv, NEW bill \in Nat, NEW usage \in 0..Bound, NEW c \in Candidates,
           Candidate(c, bill, usage)
    PROVE  IInv'
<1> USE EpisodeAssumption
<1>1. Paid
    BY ChargedStep DEF Candidate
<1>2. /\ n'.attempts = n.attempts /\ n'.decisions = n.decisions
      /\ n'.retries = n.retries /\ n'.invalid = n.invalid
      /\ n'.rollbacks = n.rollbacks /\ n'.providerRetries = n.providerRetries
      /\ n'.verifications = n.verifications /\ n' \in [Counter -> Nat]
      /\ \/ n'.escalations = n.escalations
         \/ n'.escalations = n.escalations + 1 /\ request.escalates /\ model' = "strong"
      /\ model' \in {model, request.model}
      /\ request.escalates => n.escalations = 0
    BY CounterFields
    DEF Candidate, Committed, Seen, Count, Only, Counter, IInv, ETypeOK, Outstanding,
        Roles
<1>3. ETypeOK'
    BY <1>1, <1>2, CounterFields
    DEF Candidate, Paid, Counter, Limit, Model, Live, IInv, ETypeOK, Room, Outstanding,
        Roles
<1>4. Room' /\ NeverIllegal'
    BY <1>2, CounterFields
    DEF Candidate, Live, IInv, ETypeOK, Room, NeverIllegal, Outstanding
<1>5. Outstanding'
    BY <1>1, <1>2, CounterFields
    DEF Candidate, Paid, GreenSignal, Green, IInv, ETypeOK, Outstanding
<1>6. Roles'
    BY <1>1, <1>2, CounterFields DEF Candidate, Paid, Model, IInv, ETypeOK,
        Outstanding, Roles
<1>7. AccountedRequests'
    BY <1>1, <1>2 DEF Paid, AccountedRequests
<1>8. Measured'
    BY DEF Candidate, IInv, ETypeOK, Measured, MeasuredTogether
<1>9. QED
    BY <1>3, <1>4, <1>5, <1>6, <1>7, <1>8 DEF IInv

(* Whatever the provider answers keeps IInv.                               *)
LEMMA AnswerStep ==
    ASSUME IInv, Answer
    PROVE  IInv'
<1>1. CASE Refused
    BY <1>1, RefusedStep
<1>2. CASE \E after \in Waits : RateLimited(after)
    BY <1>2, RateLimitedStep
<1>3. CASE Unusable(Price, 0, FALSE)
    <2>1. Price \in Nat /\ 0 \in 0..Bound /\ FALSE \in BOOLEAN
        BY EpisodeAssumption
    <2>2. QED
        BY <1>3, <2>1, UnusableStep
<1>4. ASSUME NEW bill \in Bills, NEW usage \in Usages \ {0},
             \/ \E said \in BOOLEAN : Unusable(bill, usage, said)
                                    \/ InvalidAnswer(bill, usage, said)
             \/ RejectedEdits(bill, usage)
             \/ \E c \in Candidates : Candidate(c, bill, usage)
      PROVE  IInv'
    <2>1. bill \in Nat /\ usage \in 0..Bound
        BY EpisodeAssumption
    <2>2. QED
        BY <1>4, <2>1, UnusableStep, InvalidStep, CandidateStep DEF RejectedEdits
<1>5. QED
    BY <1>1, <1>2, <1>3, <1>4 DEF Answer

-----------------------------------------------------------------------------
(* The sandbox, the end, and cancellation.                                 *)

(* A measured candidate becomes the checkpoint only if it is better.       *)
LEMMA MeasureStep ==
    ASSUME IInv, NEW p \in 0..Total, Measure(p)
    PROVE  IInv'
    BY CounterFields, EpisodeAssumption
    DEF Measure, AfterStep, Sign, Measurement, GreenSignal, Green,
        IInv, ETypeOK, NeverIllegal, Room, Outstanding, Roles, AccountedRequests,
        Measured, MeasuredTogether, Live

(* The task's own files are the first checkpoint.                          *)
LEMMA BaselineStep ==
    ASSUME IInv, NEW p \in 0..Total, Baseline(p)
    PROVE  IInv'
    BY CounterFields, EpisodeAssumption
    DEF Baseline, Measurement, GreenSignal, Green,
        IInv, ETypeOK, NeverIllegal, Room, Outstanding, Roles, AccountedRequests,
        Measured, MeasuredTogether, Live

(* A verification's result concerns the candidate that was verified.       *)
LEMMA VerifiedStep ==
    ASSUME IInv, NEW result \in {"pass", "fail"}, Verified(result)
    PROVE  IInv'
    BY CounterFields, EpisodeAssumption
    DEF Verified, GreenSignal, Green,
        IInv, ETypeOK, NeverIllegal, Room, Outstanding, Roles, AccountedRequests,
        Measured, MeasuredTogether, Live

(* An episode ends without touching its accounts.                          *)
LEMMA EndStep ==
    ASSUME IInv, Unavailable \/ Grade \/ EndUngraded \/ StoreFails
    PROVE  IInv'
<1> USE CounterFields, EpisodeAssumption
    DEF IInv, ETypeOK, NeverIllegal, Room, Outstanding, Roles, AccountedRequests,
        Measured, MeasuredTogether, Live
<1>1. CASE Unavailable
    BY <1>1 DEF Unavailable
<1>2. CASE Grade
    BY <1>2 DEF Grade
<1>3. CASE EndUngraded
    BY <1>3 DEF EndUngraded
<1>4. CASE StoreFails
    BY <1>4 DEF StoreFails
<1>5. QED
    BY <1>1, <1>2, <1>3, <1>4

(* Cancellation accounts for the request that is out, if there is one.     *)
LEMMA CancelStep ==
    ASSUME IInv, Cancel
    PROVE  IInv'
<1>1. CASE pc = "asked"
    <2> USE EpisodeAssumption
    <2>1. Paid
        BY <1>1, ChargedStep DEF Cancel
    <2>2. /\ n'.attempts = n.attempts /\ n'.decisions = n.decisions
          /\ n'.retries = n.retries /\ n'.invalid = n.invalid
          /\ n'.rollbacks = n.rollbacks /\ n'.providerRetries = n.providerRetries
          /\ n'.verifications = n.verifications /\ n' \in [Counter -> Nat]
          /\ \/ n'.escalations = n.escalations
             \/ /\ n'.escalations = n.escalations + 1
                /\ request.escalates /\ model' = "strong"
          /\ model' \in {model, request.model}
          /\ request.escalates => n.escalations = 0
        BY <1>1, CounterFields
        DEF Cancel, Committed, Seen, Count, Only, Counter, IInv, ETypeOK, Outstanding,
            Roles
    <2>3. ETypeOK'
        BY <1>1, <2>1, <2>2, CounterFields
        DEF Cancel, Paid, Counter, Limit, Model, IInv, ETypeOK
    <2>4. Room' /\ NeverIllegal' /\ Outstanding' /\ Measured'
        BY <1>1
        DEF Cancel, Live, IInv, ETypeOK, Room, NeverIllegal, Outstanding, Measured,
            MeasuredTogether
    <2>5. Roles'
        BY <1>1, <2>1, <2>2, CounterFields
        DEF Paid, Model, IInv, ETypeOK, Outstanding, Roles
    <2>6. AccountedRequests'
        BY <2>1, <2>2 DEF Paid, AccountedRequests
    <2>7. QED
        BY <2>3, <2>4, <2>5, <2>6 DEF IInv
<1>2. CASE pc # "asked"
    <2> USE <1>2, CounterFields, EpisodeAssumption DEF Cancel, IInv, ETypeOK, Live
    <2>1. ETypeOK'
        OBVIOUS
    <2>2. Room' /\ NeverIllegal' /\ Outstanding' /\ Roles'
        BY DEF Room, NeverIllegal, Outstanding, Roles
    <2>3. AccountedRequests' /\ Measured'
        BY DEF AccountedRequests, Measured, MeasuredTogether
    <2>4. QED
        BY <2>1, <2>2, <2>3
<1>3. QED
    BY <1>1, <1>2

-----------------------------------------------------------------------------
(* Every step of the specification, and stuttering.                        *)
THEOREM StepIInv == IInv /\ [Next]_vars => IInv'
<1> SUFFICES ASSUME IInv, [Next]_vars PROVE IInv'
    OBVIOUS
<1>1. CASE UNCHANGED vars
    BY <1>1
    DEF vars, IInv, ETypeOK, NeverIllegal, Room, Outstanding, Roles, AccountedRequests,
        Measured, MeasuredTogether, GreenSignal, Green
<1>2. CASE Choose \/ Wake
    BY <1>2, LoopStep
<1>3. CASE Answer
    BY <1>3, AnswerStep
<1>4. CASE Check
    BY <1>4, MeasureStep, BaselineStep, VerifiedStep, EndStep DEF Check
<1>5. CASE Grade \/ EndUngraded \/ StoreFails
    BY <1>5, EndStep
<1>6. CASE Cancel
    BY <1>6, CancelStep
<1>7. QED
    BY <1>1, <1>2, <1>3, <1>4, <1>5, <1>6 DEF Next

(* Hence IInv holds in every reachable state.                              *)
THEOREM Invariance == ESpec => []IInv
    BY InitIInv, StepIInv, PTL DEF ESpec

(* Every limit of an episode binds, whatever the policy, the task, the     *)
(* bills and the moment of a failure (engine.py:91-96, 772-777).         *)
THEOREM LimitsHold == ESpec => []ETypeOK
    BY Invariance, PTL DEF IInv

(* run_episode never provokes "Illegal bounded routing action"             *)
(* (engine.py:258): neither a selector nor the retry after a 429 does.     *)
THEOREM NeverIllegalHolds == ESpec => []NeverIllegal
    BY Invariance, PTL DEF IInv

(* Attempts, provider retries and cost are what the ledger saw, and both   *)
(* caps hold unless a bill exceeded its reservation (engine.py:308-478).   *)
THEOREM AccountedRequestsHold == ESpec => []AccountedRequests
    BY Invariance, PTL DEF IInv

(* Decisions and grades are about the files that were measured             *)
(* (engine.py:280-297, 619-633, 657-685).                                  *)
THEOREM MeasuredTogetherHolds == ESpec => []MeasuredTogether
    BY Invariance, PTL DEF IInv, Measured

(* The request after a backoff goes to the rate-limited model              *)
(* (engine.py:299-306, 796, 812).                                          *)
THEOREM RetryKeepsModelHolds == ESpec => RetryKeepsModel
<1>1. IInv /\ [Next]_vars =>
          [pc = "backoff" /\ pc' = "asked" => request'.model = request.model]_vars
    <2> SUFFICES ASSUME IInv, Next, pc = "backoff", pc' = "asked"
                 PROVE  request'.model = request.model
        BY DEF vars
    <2>1. Wake
        BY DEF Next, Choose, Answer, Refused, RateLimited, Unusable, InvalidAnswer,
               RejectedEdits, Candidate, Check, Baseline, Measure, Verified,
               Unavailable,
               Grade, EndUngraded, Cancel, StoreFails
    <2>2. Ask("repair", TRUE)
        BY <2>1 DEF Wake, Step, Illegal, Preflight
    <2>3. QED
        BY <2>2 DEF Ask, IInv, Outstanding
<1>2. QED
    BY <1>1, Invariance, PTL DEF ESpec, RetryKeepsModel
=============================================================================
