----------------------------- MODULE RepoEpisode -----------------------------
(***************************************************************************)
(* One bounded repair episode: RepoEpisode and run_episode of              *)
(* src/forgerl/bench/engine.py, the routing of bench/router.py, and the    *)
(* verification step of bench/v03.py with the selection of bench/pilot.py. *)
(* The episode is sequential; it waits for the sandbox, for the provider   *)
(* and for a backoff, and may be cancelled at each of these waits.  pc     *)
(* says what it waits for, or "choose": the loop is about to select.       *)
(*                                                                         *)
(* A candidate repository is a number, 0 the task's own files.  A          *)
(* measurement remembers which candidate was measured.                     *)
(***************************************************************************)
EXTENDS Integers, FiniteSets

CONSTANTS
    Policies,            \* a subset of Policy
    Rules,               \* subset of BOOLEAN: is VERIFY offered (v0.3) or not (v0.2)
    MaxSteps,            \* hosted requests (1..6)
    MaxDecisions,        \* routing decisions (1..10)
    MaxVerifications,    \* 1 or 2
    RetryLimit,          \* rate_limit_retries (0..2)
    Waits,               \* Retry-After of a 429, in seconds, 0 if absent
    Total,               \* visible tests of the task
    Candidates,          \* bound: repositories a model may answer with
    Price, Bills, Cap,   \* a request's reservation, reported costs, max_cost_usd
    Bound, Usages, MaxTokens    \* the same for tokens

Policy == {"strong_only", "cheap_only", "escalate_on_failure", "static_router",
           "learned"}

ASSUME EpisodeAssumption ==
    /\ Policies \subseteq Policy /\ Rules \subseteq BOOLEAN
    /\ MaxSteps \in 1..6 /\ MaxDecisions \in 1..10 /\ RetryLimit \in 0..2
    /\ MaxVerifications \in 1..2 /\ Total \in Nat \ {0} /\ 0 \in Candidates
    /\ Waits \subseteq Nat /\ Bills \subseteq Nat /\ Usages \subseteq 0..Bound
    /\ Price \in Nat \ {0} /\ Bound \in Nat /\ Cap \in Nat \ {0} /\ MaxTokens \in Nat

VARIABLES
    task,      \* policy, and whether VERIFY is offered
    pc,
    files,     \* the repository as edited so far
    public,    \* the last visible measurement
    best,      \* the checkpoint: files and their measurement
    verified,  \* what is known of each candidate's supplemental checks
    hidden,    \* the final grade
    n,         \* counters
    model,     \* current_model
    improvement,
    status,
    request,   \* the last request: its model, does it escalate, is it a retry
    cost, tokens,
    ledger     \* history: what the provider reserved, sent and was billed

vars == <<task, pc, files, public, best, verified, hidden, n, model, improvement,
          status, request, cost, tokens, ledger>>

Model == {"cheap", "strong"}
Counter == {"attempts", "decisions", "retries", "invalid", "rollbacks", "escalations",
            "providerRetries", "verifications"}
Limit == [attempts |-> MaxSteps, decisions |-> MaxDecisions, retries |-> 2,
          invalid |-> 3, rollbacks |-> 1, escalations |-> 1,
          providerRetries |-> RetryLimit, verifications |-> MaxVerifications]
Measurement == [of : Candidates, passed : 0..Total]
Ungraded == [of |-> 0, grade |-> "none"]

(* The type, and with it every limit of the episode, together: requests,   *)
(* decisions, retries, invalid responses, rollbacks, escalations, retries  *)
(* after a 429 and verifications (engine.py:91-96, 772-777, v03.py:64).   *)
ETypeOK ==
    /\ task \in [policy : Policies, verify : Rules]
    /\ pc \in {"start", "choose", "asked", "check", "verify", "backoff", "finish",
               "ended", "raised", "illegal"}
    /\ files \in Candidates /\ public \in Measurement
    /\ best \in [files : Candidates, public : Measurement]
    /\ verified \in [Candidates -> {"no", "asked", "pass", "fail"}]
    /\ hidden \in [of : Candidates, grade : {"none", "pass", "fail"}]
    /\ n \in [Counter -> Nat] /\ \A c \in Counter : n[c] <= Limit[c]
    /\ model \in Model /\ improvement \in -1..1
    /\ status \in {"running", "completed", "failed", "interrupted", "budget_exhausted"}
    /\ request \in [model : Model, escalates : BOOLEAN, again : BOOLEAN]
    /\ cost \in Nat /\ tokens \in [known : Nat, unknown : Nat]
    /\ ledger \in [sent : Nat, resent : Nat, billed : Nat, overrun : BOOLEAN]

Count(counters) == [c \in Counter |-> IF c \in counters THEN n[c] + 1 ELSE n[c]]
Only(condition, counter) == IF condition THEN {counter} ELSE {}
Sign(k) == IF k > 0 THEN 1 ELSE IF k < 0 THEN -1 ELSE 0

-----------------------------------------------------------------------------
(* Routing.                                                                *)

Green == public.passed = Total

\* The visible result, lowered by a supplemental failure of the same candidate.
GreenSignal == Green /\ verified[files] # "fail"

CanRollback == public.passed < best.public.passed /\ files # best.files

Allowed ==
    IF GreenSignal \/ n.decisions >= MaxDecisions \/ n.attempts >= MaxSteps
       \/ cost >= Cap
    THEN {"stop"}
    ELSE {"stop"}
         \cup (IF n.retries < 2 THEN {"retry"} ELSE {})
         \cup (IF n.attempts > 0 THEN {"repair"} ELSE {})
         \cup (IF model # "strong" THEN {"escalate"} ELSE {})
         \cup (IF CanRollback /\ n.rollbacks < 1 THEN {"rollback"} ELSE {})

Legal ==
    Allowed \cup (IF /\ task.verify /\ Green /\ n.decisions < MaxDecisions
                     /\ verified[files] = "no" /\ n.verifications < MaxVerifications
                  THEN {"verify"} ELSE {})

\* The hand-written router, when more than stopping is allowed.
StaticAction ==
    IF "rollback" \in Allowed THEN "rollback"
    ELSE IF n.attempts = 0 THEN "retry"
    ELSE IF "escalate" \in Allowed /\ (improvement <= 0 \/ n.attempts >= 2)
         THEN "escalate" ELSE "repair"

\* What choose_action may return.  A fitted controller, and the exploration of a
\* study's training, may prefer any allowed action.
Choices ==
    LET upward == IF "escalate" \in Allowed THEN "escalate" ELSE "repair"
        first  == n.attempts = 0
    IN  IF Allowed = {"stop"} \/ task.policy = "learned" THEN Allowed
        ELSE IF \/ task.policy = "strong_only"
                \/ task.policy = "escalate_on_failure" /\ ~first THEN {upward}
        ELSE IF task.policy = "static_router" THEN {StaticAction}
        ELSE {IF first THEN "retry" ELSE "repair"}

Select == IF "verify" \in Legal THEN {"verify"} ELSE Choices

-----------------------------------------------------------------------------
(* step(), up to its first wait.                                           *)

\* Where the loop goes on when a step is over.
AfterStep(counters) ==
    IF counters.attempts >= MaxSteps \/ counters.decisions >= MaxDecisions
    THEN "finish" ELSE "choose"

Stop == /\ n' = Count({"decisions"})
        /\ pc' = "finish"
        /\ UNCHANGED <<task, files, public, best, verified, hidden, model, improvement,
                       status, request, cost, tokens, ledger>>

\* Faulty: the restored files keep the measurement of those they replace.
FilesOnly ==
    /\ n' = Count({"decisions", "rollbacks"})
    /\ files' = best.files
    /\ improvement' = 0
    /\ pc' = AfterStep(n')
    /\ UNCHANGED <<task, public, best, verified, hidden, model, status, request, cost,
                   tokens, ledger>>

Rollback ==
    /\ n' = Count({"decisions", "rollbacks"})
    /\ files' = best.files
    /\ public' = best.public
    /\ improvement' = Sign(best.public.passed - public.passed)
    /\ pc' = AfterStep(n')
    /\ UNCHANGED <<task, best, verified, hidden, model, status, request, cost, tokens,
                   ledger>>

Verify ==
    /\ n' = Count({"decisions", "verifications"})
    /\ verified' = [verified EXCEPT ![files] = "asked"]
    /\ pc' = "verify"
    /\ UNCHANGED <<task, files, public, best, hidden, model, improvement, status,
                   request, cost, tokens, ledger>>

OverCost == Price > Cap - cost
OverTokens == tokens.known + tokens.unknown + Bound > MaxTokens

\* No request is made: the caps, or a prompt that is too long.
Preflight ==
    /\ \/ /\ OverCost \/ OverTokens
          /\ status' = "budget_exhausted"
       \/ status' = "failed"
    /\ n' = Count({"decisions"})
    /\ pc' = "finish"
    /\ UNCHANGED <<task, files, public, best, verified, hidden, model, improvement,
                   request, cost, tokens, ledger>>

Ask(action, again) ==
    /\ ~OverCost /\ ~OverTokens
    /\ LET to == IF action = "escalate" THEN "strong" ELSE model
       IN  request' = [model |-> to, again |-> again,
                       escalates |-> action = "escalate" /\ n.attempts > 0
                                     /\ model # "strong"]
    /\ n' = Count({"decisions", "attempts"}
                   \cup Only(action = "retry" /\ n.attempts > 0, "retries")
                   \cup Only(again, "providerRetries"))
    /\ pc' = "asked"
    /\ UNCHANGED <<task, files, public, best, verified, hidden, model, improvement,
                   status, cost, tokens, ledger>>

Illegal == /\ pc' = "illegal"
           /\ UNCHANGED <<task, files, public, best, verified, hidden, n, model,
                          improvement, status, request, cost, tokens, ledger>>

Step(action, again) ==
    \/ action \notin Legal /\ Illegal
    \/ action \in Legal /\ action = "stop" /\ Stop
    \/ action \in Legal /\ action = "rollback" /\ Rollback
    \/ action \in Legal /\ action = "verify" /\ Verify
    \/ /\ action \in Legal /\ action \in {"retry", "repair", "escalate"}
       /\ Preflight \/ Ask(action, again)

-----------------------------------------------------------------------------
(* The provider's answer.                                                  *)

\* A request was reserved, sent and billed; usage 0 stands for "not reported",
\* and then the engine keeps the bound of the prompt.
Charged(bill, usage) ==
    /\ ledger' = [sent    |-> ledger.sent + 1,
                  resent  |-> ledger.resent + IF request.again THEN 1 ELSE 0,
                  billed  |-> ledger.billed + bill,
                  overrun |-> ledger.overrun \/ bill > Price]
    /\ cost' = cost + bill
    /\ tokens' = [known   |-> tokens.known + usage,
                  unknown |-> tokens.unknown + IF usage = 0 THEN Bound ELSE 0]

\* Faulty: a request without an answer's text has not been observed.
SeenByText(bill, said) == said

\* The request reached a model: it cost something, or the answer had an identifier
\* or a text ("said").
Seen(bill, said) == bill > 0 \/ said

\* Only then is the role switch committed, and the escalation counted.
Committed(seen) ==
    /\ model' = IF seen THEN request.model ELSE model
    /\ n' = Count(Only(seen /\ request.escalates, "escalations"))

\* Faulty: the refused request stays counted.
KeptAttempt ==
    /\ pc = "asked"
    /\ status' = "budget_exhausted" /\ pc' = "finish"
    /\ UNCHANGED <<task, files, public, best, verified, hidden, n, model, improvement,
                   request, cost, tokens, ledger>>

\* BudgetExceeded: by the ledger, or by the study's cap.  The attempt is given
\* back, and with it the retry (engine.py:809-815).
Refused ==
    /\ pc = "asked"
    /\ LET back == {"attempts"} \cup Only(request.again, "providerRetries")
       IN  n' = [c \in Counter |-> IF c \in back THEN n[c] - 1 ELSE n[c]]
    /\ status' = "budget_exhausted" /\ pc' = "finish"
    /\ UNCHANGED <<task, files, public, best, verified, hidden, model, improvement,
                   request, cost, tokens, ledger>>

Delay(after) == LET doubled == 30 * 2 ^ n.providerRetries
                IN  IF after > doubled THEN after ELSE doubled

\* Faulty: only the number of retries is looked at.
CountedRetry(after) == n.providerRetries < RetryLimit

MayRetry(after) ==
    /\ n.providerRetries < RetryLimit
    /\ n.attempts < MaxSteps /\ n.decisions < MaxDecisions
    /\ cost + Price < Cap
    /\ Delay(after) <= 60

\* HTTP 429.  The bill is unknown, so the reservation is retained.
RateLimited(after) ==
    /\ pc = "asked"
    /\ Charged(Price, 0) /\ Committed(Seen(Price, FALSE))
    /\ IF MayRetry(after)
       THEN pc' = "backoff" /\ improvement' = 0 /\ UNCHANGED status
       ELSE pc' = "finish" /\ status' = "failed" /\ UNCHANGED improvement
    /\ UNCHANGED <<task, files, public, best, verified, hidden, request>>

\* Any other ProviderError: the bill is retained or reported.
Unusable(bill, usage, said) ==
    /\ pc = "asked"
    /\ Charged(bill, usage) /\ Committed(Seen(bill, said))
    /\ status' = "failed" /\ pc' = "finish"
    /\ UNCHANGED <<task, files, public, best, verified, hidden, improvement, request>>

\* Faulty: only the cap of invalid responses ends the episode.
OnlyInvalidCap(counters) == IF counters.invalid >= 3 THEN "finish" ELSE "choose"

AfterInvalid(counters) == IF counters.invalid >= 3 THEN "finish" ELSE AfterStep(counters)

\* An answer from which no candidate can be read.
InvalidAnswer(bill, usage, said) ==
    /\ pc = "asked"
    /\ Charged(bill, usage)
    /\ model' = IF Seen(bill, said) THEN request.model ELSE model
    /\ n' = Count({"invalid"}
                   \cup Only(Seen(bill, said) /\ request.escalates, "escalations"))
    /\ improvement' = 0
    /\ pc' = AfterInvalid(n')
    /\ UNCHANGED <<task, files, public, best, verified, hidden, status, request>>

\* A candidate that validate_edits rejects, and one that it accepts.
RejectedEdits(bill, usage) == InvalidAnswer(bill, usage, TRUE)

Candidate(c, bill, usage) ==
    /\ pc = "asked"
    /\ Charged(bill, usage) /\ Committed(Seen(bill, TRUE))
    /\ files' = c
    /\ pc' = "check"
    /\ UNCHANGED <<task, public, best, verified, hidden, improvement, status, request>>

-----------------------------------------------------------------------------
(* The sandbox, the backoff and the end.                                   *)

Measure(p) ==
    /\ pc = "check"
    /\ public' = [of |-> files, passed |-> p]
    /\ best' = IF p > best.public.passed THEN [files |-> files, public |-> public']
                                         ELSE best
    /\ improvement' = Sign(p - public.passed)
    /\ pc' = IF p = Total /\ ~task.verify THEN "finish" ELSE AfterStep(n)
    /\ UNCHANGED <<task, files, verified, hidden, n, model, status, request, cost,
                   tokens, ledger>>

Baseline(p) ==
    /\ pc = "start"
    /\ public' = [of |-> files, passed |-> p]
    /\ best' = [files |-> files, public |-> public']
    /\ pc' = IF p = Total /\ ~task.verify THEN "finish" ELSE "choose"
    /\ UNCHANGED <<task, files, verified, hidden, n, model, improvement, status, request,
                   cost, tokens, ledger>>

Verified(result) ==
    /\ pc = "verify"
    /\ verified' = [verified EXCEPT ![files] = result]
    /\ pc' = IF n.decisions >= MaxDecisions THEN "finish" ELSE "choose"
    /\ UNCHANGED <<task, files, public, best, hidden, n, model, improvement, status,
                   request, cost, tokens, ledger>>

\* SandboxUnavailable at any check before the last; run_episode catches it.
Unavailable ==
    /\ pc \in {"start", "check", "verify"}
    /\ status' = "failed" /\ pc' = "finish"
    /\ UNCHANGED <<task, files, public, best, verified, hidden, n, model, improvement,
                   request, cost, tokens, ledger>>

Choose == pc = "choose" /\ \E action \in Select : Step(action, FALSE)

\* The sleep after a 429 is over.
Wake == pc = "backoff" /\ Step("repair", TRUE)

\* finish(): only an episode that nothing went wrong with is graded.
Grade ==
    /\ pc = "finish" /\ status = "running"
    /\ \/ /\ \E g \in {"pass", "fail"} : hidden' = [of |-> files, grade |-> g]
          /\ status' = "completed"
       \/ status' = "failed" /\ UNCHANGED hidden
    /\ pc' = "ended"
    /\ UNCHANGED <<task, files, public, best, verified, n, model, improvement, request,
                   cost, tokens, ledger>>

EndUngraded ==
    /\ pc = "finish" /\ status # "running"
    /\ pc' = "ended"
    /\ UNCHANGED <<task, files, public, best, verified, hidden, n, model, improvement,
                   status, request, cost, tokens, ledger>>

\* Cancellation of the task at any of its waits leaves run_episode.  The provider
\* retains the reservation of a request that is out.
Cancel ==
    /\ pc \in {"start", "asked", "check", "verify", "backoff", "finish"}
    /\ pc = "finish" => status = "running"
    /\ IF pc = "asked" THEN Charged(Price, 0) /\ Committed(Seen(Price, FALSE))
                       ELSE UNCHANGED <<ledger, cost, tokens, model, n>>
    /\ status' = IF pc \in {"asked", "backoff"} THEN "interrupted" ELSE status
    /\ pc' = "raised"
    /\ UNCHANGED <<task, files, public, best, verified, hidden, improvement, request>>

\* SQLite fails in reserve or settle: not a ProviderError, so nothing is accounted.
StoreFails ==
    /\ pc = "asked"
    /\ pc' = "raised"
    /\ UNCHANGED <<task, files, public, best, verified, hidden, n, model, improvement,
                   status, request, cost, tokens, ledger>>

-----------------------------------------------------------------------------

Init ==
    /\ task \in [policy : Policies, verify : Rules]
    /\ pc = "start"
    /\ files = 0
    /\ public = [of |-> 0, passed |-> 0]
    /\ best = [files |-> 0, public |-> public]
    /\ verified = [c \in Candidates |-> "no"]
    /\ hidden = Ungraded
    /\ n = [c \in Counter |-> 0]
    /\ model = "cheap" /\ improvement = 0 /\ status = "running"
    /\ request = [model |-> "cheap", escalates |-> FALSE, again |-> FALSE]
    /\ cost = 0 /\ tokens = [known |-> 0, unknown |-> 0]
    /\ ledger = [sent |-> 0, resent |-> 0, billed |-> 0, overrun |-> FALSE]

Answer ==
    \/ Refused
    \/ \E after \in Waits : RateLimited(after)
    \/ Unusable(Price, 0, FALSE)
    \/ \E bill \in Bills, usage \in Usages \ {0} :
          \/ \E said \in BOOLEAN :
                \/ Unusable(bill, usage, said)
                \/ InvalidAnswer(bill, usage, said)
          \/ RejectedEdits(bill, usage)
          \/ \E c \in Candidates : Candidate(c, bill, usage)

Check ==
    \/ \E p \in 0..Total : Baseline(p) \/ Measure(p)
    \/ \E result \in {"pass", "fail"} : Verified(result)
    \/ Unavailable

Next == \/ Choose \/ Wake \/ Answer \/ Check \/ Grade \/ EndUngraded
        \/ Cancel \/ StoreFails

ESpec == Init /\ [][Next]_vars

-----------------------------------------------------------------------------
(* Properties.                                                             *)

(* The selector, the mask and the retry after a backoff agree: the loop    *)
(* never asks for an action that step() rejects with "Illegal bounded      *)
(* routing action" (engine.py:258, v03.py:149).  The retry is not          *)
(* selected: it is always "repair" (engine.py:812).                        *)
NeverIllegal == pc # "illegal"

(* What the result reports was really spent: attempts are the requests     *)
(* sent, provider retries those of them sent after a backoff, and cost is  *)
(* what the ledger was charged; without an overrun it stays below the cap, *)
(* and tokens, measured or bounded, below theirs (engine.py:308-350,       *)
(* 410-441, 477-478, 809-815).                                             *)
AccountedRequests ==
    /\ pc \notin {"asked", "raised"} =>
          /\ n.attempts = ledger.sent
          /\ n.providerRetries = ledger.resent
    /\ pc # "raised" => cost = ledger.billed
    /\ ledger.overrun \/ cost <= Cap
    /\ tokens.known + tokens.unknown <= MaxTokens

(* Wherever a decision is taken or a grade is given, the visible           *)
(* measurement is of the files at hand, the checkpoint is the best of all, *)
(* with its own measurement, and the grade is of the files submitted       *)
(* (engine.py:280-297, 619-633, 657-685).                                  *)
MeasuredTogether ==
    /\ pc \in {"choose", "asked", "verify", "backoff"} \/ status = "completed" =>
          public.of = files
    /\ best.public.of = best.files
    /\ public.passed <= best.public.passed
    /\ status = "completed" => hidden.of = files

(* "Same pinned model/provider" (engine.py:796): the request after a 429   *)
(* goes to the model that was rate limited, although it is asked for as    *)
(* "repair" and not as the action that failed.                             *)
RetryKeepsModel ==
    [][pc = "backoff" /\ pc' = "asked" => request'.model = request.model]_vars

(* docs/forgebench/V03_PILOT_PROTOCOL.md:18-20: every policy verifies a    *)
(* visible-green candidate before stopping, once per candidate, at most    *)
(* twice per run.  Here: while decisions and verifications are left.       *)
VerifiedBeforeStopping ==
    status = "completed" /\ task.verify /\ Green /\ n.verifications < MaxVerifications
        /\ n.decisions < MaxDecisions
    => verified[files] # "no"
=============================================================================
