------------------------------- MODULE Attempt -------------------------------
(***************************************************************************)
(* The v0.1 episode as a value: one task, one file, at most three requests *)
(* (forgerl/orchestrator.py); the controller that picks its actions from   *)
(* what it may observe (forgerl/controller.py); and the answers of the     *)
(* provider, with what each costs and binds (forgerl/provider.py).         *)
(* An episode is cloned by being used twice.  Whether a candidate passes   *)
(* its visible and its held-out tests is part of the candidate.            *)
(***************************************************************************)
EXTENDS Integers, Sequences, FiniteSets

CONSTANTS
    MaxSteps,    \* max_steps, 1 to 3
    Visible,     \* visible cases of each task
    EpisodeCap,  \* the 0.5 USD an episode may cost
    Allowance,   \* what the ledger's research bucket has left
    Reserved,    \* what is reserved for a request, by configuration
    Usages,      \* what a request may turn out to cost
    Candidates   \* what a model may answer with

ASSUME AttemptAssumption ==
    /\ MaxSteps \in 1..3 /\ Visible \in Nat \ {0} /\ EpisodeCap \in Nat \ {0}
    /\ Allowance \in Nat /\ Usages \subseteq Nat
    /\ Reserved \in [{"fast", "deliberate"} -> Nat \ {0}]
    /\ Candidates \subseteq [passed : 0..Visible, right : BOOLEAN]

-----------------------------------------------------------------------------
(* The controller.                                                         *)

Observation(e) ==
    [attempts |-> e.attempts, passed |-> e.passed, cost |-> e.cost,
     last |-> e.last, improvement |-> e.improvement, replans |-> e.replans]

PublicPass(o) == o.passed = Visible

AllowedActions(o) ==
    IF PublicPass(o) \/ o.attempts >= MaxSteps \/ o.cost >= EpisodeCap THEN {"stop"}
    ELSE {"fast", "deliberate", "stop"}
         \cup {a \in {"replan"} : o.attempts > 0 /\ o.replans = 0}

LowBudget(o) == 10 * o.cost >= 7 * EpisodeCap

\* What of a state the table of values tells apart.
EncodeState(o) ==
    [ratio |-> IF PublicPass(o) THEN "all" ELSE IF o.passed > 0 THEN "some" ELSE "none",
     attempts |-> o.attempts, remaining |-> MaxSteps - o.attempts,
     budget |-> IF LowBudget(o) THEN "low" ELSE IF 10 * o.cost >= 4 * EpisodeCap THEN "mid" ELSE "high",
     change |-> IF o.improvement > 0 THEN "+" ELSE IF o.improvement < 0 THEN "-" ELSE "0",
     last |-> IF o.last = "start" THEN "none" ELSE o.last,
     replans |-> IF o.replans > 0 THEN 1 ELSE 0]

HeuristicAction(o) ==
    IF AllowedActions(o) = {"stop"} THEN "stop"
    ELSE IF o.attempts = 0 \/ LowBudget(o) THEN "fast"
    ELSE IF o.attempts >= 2 /\ o.improvement <= 0 /\ o.replans = 0 THEN "replan"
    ELSE "deliberate"

\* Of the fitted values only their support is modelled, so
\* that the best supported action may be any of those.
ChooseAction(policy, o, artifact) ==
    IF AllowedActions(o) = {"stop"} THEN {"stop"}
    ELSE CASE policy = "fixed" -> {"fast"}
           [] policy = "deliberate" -> {"deliberate"}
           [] policy = "heuristic" -> {HeuristicAction(o)}
           [] policy = "adaptive" ->
                LET supported == {a \in AllowedActions(o) : <<EncodeState(o), a>> \in artifact.support}
                IN IF supported = {} THEN {HeuristicAction(o)} ELSE supported

\* fit_q refuses rows that are not a controller's, and too few are no training.
FitRefuses(rows) == \E i \in DOMAIN rows : rows[i].action \notin AllowedActions(rows[i].state)
FitQ(rows, minimum) ==
    [trained |-> Len(rows) >= minimum,
     support |-> {<<EncodeState(rows[i].state), rows[i].action>> : i \in DOMAIN rows}]

-----------------------------------------------------------------------------
(* The provider: what generate returns or raises, what it says it cost and *)
(* what the ledger has charged when it does.  SQLite may refuse to write:  *)
(* an exception of its own says nothing of a cost, and it replaces what    *)
(* the request itself came to, a cancellation included.                    *)

Configuration(action) == IF action = "replan" THEN "deliberate" ELSE action

Generate(ledger, action) ==
    LET reserved == Reserved[Configuration(action)]
        after(n, off) == [ledger EXCEPT !.spent = @ + n, !.disabled = @ \/ off]
        error(n, off) == [kind |-> "provider", cost |-> n, ledger |-> after(n, off)]
        raw(l) == [kind |-> "raw", cost |-> 0, ledger |-> l]
    IN {error(0, FALSE), raw(ledger)}          \* the context is too long, or the ledger cannot
       \cup                                    \* be asked: nothing is reserved
       IF ledger.disabled \/ ledger.spent + reserved > Allowance
       THEN {[kind |-> "budget", cost |-> 0, ledger |-> ledger]}
       ELSE {error(reserved, TRUE),            \* HTTP 401, 402, 403
             error(reserved, FALSE)}           \* no answer, or one without its usage
            \cup {error(n, n > reserved) : n \in Usages}   \* an answer without a patch
            \cup {[kind |-> "ok", cost |-> n, ledger |-> after(n, n > reserved)] : n \in Usages}
            \* the row cannot be settled, and stays reserved
            \cup {raw([after(reserved, off) EXCEPT !.pending = @ + reserved]) : off \in BOOLEAN}

-----------------------------------------------------------------------------
(* The episode.                                                            *)

NewEpisode(task) ==
    [attempts |-> 0, passed |-> 0, cost |-> 0, last |-> "start", improvement |-> 0,
     replans |-> 0, source |-> task.source, terminal |-> FALSE, status |-> "running", hidden |-> {}]

\* start, when the sandbox answers
Started(e) == [e EXCEPT !.passed = e.source.passed, !.terminal = e.source.passed = Visible]

\* What is done before the model is asked.
Decided(e, action) ==
    [e EXCEPT !.last = action, !.attempts = @ + 1,
              !.replans = IF action = "replan" THEN @ + 1 ELSE @]

\* After the tests of a new candidate
Tested(e, source) ==
    [e EXCEPT !.source = source, !.passed = source.passed, !.improvement = source.passed - e.passed,
              !.terminal = source.passed = Visible \/ e.attempts >= MaxSteps]

\* step: what it leaves, what it raises, and whether the model was asked
Steps(e, ledger, action) ==
    LET quiet(f) == {[ep |-> f, ledger |-> ledger, raised |-> "none", asked |-> FALSE]}
        d == Decided(e, action)
    IN IF e.terminal THEN quiet(e)
       ELSE IF action = "stop" THEN quiet([e EXCEPT !.last = "stop", !.terminal = TRUE])
       ELSE IF e.attempts >= MaxSteps \/ e.cost >= EpisodeCap
       THEN quiet([e EXCEPT !.last = action, !.terminal = TRUE])
       ELSE UNION {
           LET paid == [d EXCEPT !.cost = @ + g.cost]
               end(f, raised) == [ep |-> f, ledger |-> g.ledger, raised |-> raised, asked |-> TRUE]
           IN CASE g.kind = "budget" ->
                     {end([paid EXCEPT !.terminal = TRUE, !.status = "budget_exhausted"], "budget")}
                [] g.kind = "provider" ->
                     {end([paid EXCEPT !.terminal = TRUE, !.status = "failed"], "provider")}
                [] g.kind = "raw" -> {end(paid, "raw")}
                [] g.kind = "ok" ->
                     {end(Tested(paid, s), "none") : s \in Candidates}
                     \cup {end(paid, "sandbox")}   \* the executor is not available
           : g \in Generate(ledger, action)}

\* finish, when the sandbox answers
Finished(e) ==
    [e EXCEPT !.terminal = TRUE, !.hidden = {e.source.right},
              !.status = IF @ = "running" THEN "completed" ELSE @]

Solved(e) == e.passed = Visible /\ e.hidden = {TRUE}
==============================================================================
