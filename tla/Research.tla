------------------------------ MODULE Research ------------------------------
(***************************************************************************)
(* The v0.1 study (run_research, forgerl/research.py): on every training   *)
(* task the tree of all action sequences is explored depth first, each     *)
(* branch on a clone of the episode; a controller is fitted to the         *)
(* transitions and frozen, and every policy runs a fresh episode on every  *)
(* held-out task.  A request may fail, the allowance may run out, SQLite   *)
(* may refuse the ledger's rows, the executor may be gone, a write may     *)
(* fail and the process may die.                                           *)
(* scripts/aggregate_studies.py reads the directories of several seeds.    *)
(***************************************************************************)
EXTENDS Attempt, Totals, SequencesExt

CONSTANTS
    Training, HeldOut,  \* the tasks of the three splits, in order
    Policies,           \* EVALUATION_POLICIES, in the order they are shuffled into
    MinSamples,         \* min_samples
    OtherSeeds,         \* the other predeclared seeds
    Elsewhere           \* what their directories may hold

Task == [id : Nat, split : {"train", "validation", "test"},
         source : [passed : 0..Visible, right : BOOLEAN]]

ASSUME ResearchAssumption ==
    /\ Training \in Seq(Task) /\ HeldOut \in Seq(Task)
    /\ Policies \in Seq({"fixed", "deliberate", "heuristic", "adaptive"}) /\ Policies # <<>>
    /\ MinSamples \in Nat

VARIABLES
    ledger,  \* the research bucket: what is charged, how much of it by rows that were
             \* never settled, and whether it is paused
    job,     \* the process
    tree,    \* collect_task_tree, while it runs
    ev,      \* evaluate_policy, while it runs
    disk,    \* the evidence directory
    look     \* aggregate_studies

rvars == <<ledger, job, tree, ev, disk, look>>

Absent == [absent |-> TRUE]
NoJob == [pc |-> "off", at |-> 1, summaries |-> <<>>, rows |-> <<>>, artifact |-> Absent,
          runs |-> <<>>, exhausted |-> FALSE, outcome |-> "partial", asked |-> 0]
NoFiles == [manifest |-> Absent, controller |-> Absent, benchmark |-> Absent,
            raw |-> <<>>, torn |-> FALSE]
NotLooking == [pc |-> "off", manifest |-> Absent, report |-> Absent]

EvalPlan == [k \in 1..(Len(HeldOut) * Len(Policies)) |->
                [task |-> HeldOut[((k - 1) \div Len(Policies)) + 1],
                 policy |-> Policies[((k - 1) % Len(Policies)) + 1]]]

-----------------------------------------------------------------------------
(* Collection: one frame of visit per episode on the path.  The traces and *)
(* transitions it appends to files of their own are not read back.         *)

Frame(ep, route) == [ep |-> ep, route |-> route, next |-> 0]
Top == Last(tree.stack)
Pop == [tree EXCEPT !.stack = Front(@)]
PatchActions == <<"fast", "deliberate">>

Begin ==
    /\ job.pc = "off"
    /\ job' = [job EXCEPT !.pc = "train"]
    /\ disk' = [disk EXCEPT !.manifest = [status |-> "running"]]
    /\ UNCHANGED <<ledger, tree, ev, look>>

Plant ==
    /\ job.pc = "train" /\ tree = Absent /\ job.at <= Len(Training)
    /\ tree' = [stack |-> <<Frame(Started(NewEpisode(Training[job.at])), <<>>)>>, rows |-> <<>>,
                partial |-> FALSE, reason |-> "none", requests |-> 0, billed |-> 0]
    /\ UNCHANGED <<ledger, job, ev, disk, look>>

TransitionRow(frame, action, next, terminal, inc, won) ==
    [state |-> Observation(frame.ep), action |-> action, next |-> Observation(next),
     terminal |-> terminal, route |-> frame.route, inc |-> inc, won |-> won]

\* The stop probe: a clone is graded as it stands.
Probe ==
    /\ tree # Absent /\ tree.stack # <<>> /\ Top.next = 0
    /\ LET probe == Finished(Top.ep)
           row == TransitionRow(Top, "stop", Top.ep, TRUE, 0, Solved(probe))
           leaf == Len(Top.route) >= MaxSteps \/ PublicPass(Observation(Top.ep)) \/ Top.ep.terminal
       IN tree' = [tree EXCEPT !.rows = Append(@, row),
                     !.stack = IF leaf THEN Front(@) ELSE Front(@) \o <<[Top EXCEPT !.next = 1]>>]
    /\ UNCHANGED <<ledger, job, ev, disk, look>>

\* Faulty: the branches of a state are taken one from the other.
NextFrameShared(frame, ep) == [frame EXCEPT !.next = @ + 1, !.ep = ep]
NextFrame(frame, ep) == [frame EXCEPT !.next = @ + 1]

\* Faulty: a branch is billed for its whole trajectory.
BilledInFull(before, after) == after.cost
Billed(before, after) == after.cost - before.cost

\* A request, its settlement or the tests of its answer failed: a trace, but no
\* transition.
Fault(frame, r) ==
    LET t == [tree EXCEPT !.partial = TRUE, !.reason = r.raised, !.requests = @ + 1,
                          !.billed = @ + Billed(frame.ep, r.ep)]
    IN tree' = [t EXCEPT !.stack = IF r.raised = "budget" THEN Front(@)
                                   ELSE Front(@) \o <<NextFrame(frame, r.ep)>>]

Edge(frame, action, r) ==
    LET terminal == Len(frame.route) + 1 >= MaxSteps \/ r.ep.terminal \/ PublicPass(Observation(r.ep))
        inc == Billed(frame.ep, r.ep)
        row == TransitionRow(frame, action, r.ep, terminal, inc, terminal /\ Solved(Finished(r.ep)))
    IN tree' = [tree EXCEPT !.requests = @ + 1, !.billed = @ + inc, !.rows = Append(@, row),
                  !.stack = Front(@) \o <<NextFrame(frame, r.ep)>>
                            \o IF terminal THEN <<>> ELSE <<Frame(r.ep, Append(frame.route, action))>>]

\* Faulty: only the frame whose request was refused stops.
MayStillBranch == tree # Absent /\ tree.stack # <<>> /\ Top.next \in DOMAIN PatchActions

\* A frame that has an action left, and may still take it.
MayBranch == /\ tree # Absent /\ tree.stack # <<>> /\ Top.next \in DOMAIN PatchActions
             /\ ~(tree.partial /\ tree.reason = "budget")

Asked(r) == [job EXCEPT !.asked = IF r.asked THEN @ + 1 ELSE @,
                        !.exhausted = @ \/ r.raised = "budget"]

Branch ==
    /\ MayBranch
    /\ \E r \in Steps(Top.ep, ledger, PatchActions[Top.next]) :
          /\ IF r.raised # "none" THEN Fault(Top, r) ELSE Edge(Top, PatchActions[Top.next], r)
          /\ ledger' = r.ledger /\ job' = Asked(r)
    /\ UNCHANGED <<ev, disk, look>>

Leave ==
    /\ tree # Absent /\ tree.stack # <<>> /\ Top.next # 0 /\ ~MayBranch
    /\ tree' = Pop
    /\ UNCHANGED <<ledger, job, ev, disk, look>>

Harvest ==
    /\ tree # Absent /\ tree.stack = <<>>
    /\ job' = [job EXCEPT !.at = @ + 1, !.rows = @ \o tree.rows,
                 !.summaries = Append(@, [partial |-> tree.partial, requests |-> tree.requests,
                                          billed |-> tree.billed]),
                 !.pc = IF tree.reason = "budget" THEN "report" ELSE "train"]
    /\ tree' = Absent
    /\ UNCHANGED <<ledger, ev, disk, look>>

\* The executor is gone when an episode starts or is graded, or a write
\* fails: the exception leaves collect_task_tree, and with it goes the whole
\* tree, its cost and that it was partial.  The study reports what it has.
Uproot ==
    /\ job.pc = "train" /\ job.at <= Len(Training)
    /\ \/ /\ IF tree = Absent THEN TRUE ELSE tree.stack # <<>> /\ Top.next = 0
          /\ job' = [job EXCEPT !.pc = "report"]
          /\ UNCHANGED ledger
       \/ /\ MayBranch
          /\ \E r \in Steps(Top.ep, ledger, PatchActions[Top.next]) :
                /\ ledger' = r.ledger
                /\ job' = [Asked(r) EXCEPT !.pc = "report"]
    /\ tree' = Absent
    /\ UNCHANGED <<ev, disk, look>>

\* fit_controller, and what may keep the study from evaluating.
Fit ==
    /\ job.pc = "train" /\ tree = Absent /\ job.at > Len(Training)
    /\ IF job.rows = <<>> \/ FitRefuses(job.rows)
       THEN /\ job' = [job EXCEPT !.pc = "report"]
            /\ UNCHANGED disk
       ELSE LET artifact == FitQ(job.rows, MinSamples)
            IN /\ disk' = [disk EXCEPT !.controller = artifact]
               /\ job' = [job EXCEPT !.artifact = artifact, !.rows = <<>>, !.at = 1,
                            !.pc = IF artifact.trained THEN "eval" ELSE "report"]
    /\ UNCHANGED <<ledger, tree, ev, look>>

-----------------------------------------------------------------------------
(* Evaluation.                                                             *)

\* The executor may be gone already when the episode starts.
StartEval ==
    /\ job.pc = "eval" /\ ev = Absent /\ job.at <= Len(EvalPlan)
    /\ LET e == NewEpisode(EvalPlan[job.at].task)
       IN ev' \in {[ep |-> Started(e), steps |-> 0, pc |-> "act"],
                   [ep |-> [e EXCEPT !.status = "failed"], steps |-> 0, pc |-> "record"]}
    /\ UNCHANGED <<ledger, job, tree, disk, look>>

LoopOver == ev.steps >= MaxSteps \/ ev.ep.terminal \/ PublicPass(Observation(ev.ep))
Choice == ChooseAction(EvalPlan[job.at].policy, Observation(ev.ep), job.artifact)

\* The controller acts, unless the loop is over.
Act ==
    /\ ev # Absent /\ ev.pc = "act"
    /\ IF LoopOver
       THEN /\ ev' = [ev EXCEPT !.pc = "grade"]
            /\ UNCHANGED <<ledger, job>>
       ELSE \E a \in Choice :
            \E r \in Steps(ev.ep, ledger, a) :
               /\ ledger' = r.ledger
               /\ job' = Asked(r)
               /\ ev' = [ep |-> IF r.raised \in {"sandbox", "raw"} THEN [r.ep EXCEPT !.status = "failed"] ELSE r.ep,
                         steps |-> ev.steps + 1,
                         pc |-> IF r.raised # "none" THEN "record"
                                ELSE IF a = "stop" THEN "grade" ELSE "act"]
    /\ UNCHANGED <<tree, disk, look>>

\* finish, or the executor is gone.
Graded ==
    /\ ev # Absent /\ ev.pc = "grade"
    /\ \E e \in {Finished(ev.ep), [ev.ep EXCEPT !.status = "failed"]} :
          ev' = [ev EXCEPT !.pc = "record", !.ep = e]
    /\ UNCHANGED <<ledger, job, tree, disk, look>>

RunOf(e) ==
    [task |-> EvalPlan[job.at].task.id, split |-> EvalPlan[job.at].task.split,
     policy |-> EvalPlan[job.at].policy, status |-> e.status, solved |-> Solved(e), cost |-> e.cost]

\* The run is appended, and the next is due; or its line cannot be written.
Record ==
    /\ ev # Absent /\ ev.pc = "record"
    /\ LET j == [job EXCEPT !.runs = Append(@, RunOf(ev.ep)), !.at = @ + 1]
       IN \/ /\ job' = [j EXCEPT !.pc = IF ev.ep.status = "budget_exhausted" THEN "report" ELSE "eval"]
             /\ disk' = [disk EXCEPT !.raw = Append(@, RunOf(ev.ep))]
          \/ /\ job' = [j EXCEPT !.pc = "report"]
             /\ UNCHANGED disk
    /\ ev' = Absent
    /\ UNCHANGED <<ledger, tree, look>>

Evaluated ==
    /\ job.pc = "eval" /\ ev = Absent /\ job.at > Len(EvalPlan)
    /\ job' = [job EXCEPT !.pc = "report", !.outcome = "complete"]
    /\ UNCHANGED <<ledger, tree, ev, disk, look>>

-----------------------------------------------------------------------------
(* The report.                                                             *)

CollectionCost(trees) == Total([i \in DOMAIN trees |-> trees[i].billed], Len(trees))
EvaluationCost(runs) == Total([i \in DOMAIN runs |-> runs[i].cost], Len(runs))
TrainingPartial == \E i \in DOMAIN job.summaries : job.summaries[i].partial

ManifestStatus == IF job.outcome = "complete" /\ ~TrainingPartial THEN "complete" ELSE "partial"

Planned(split) == {HeldOut[i].id : i \in {i \in DOMAIN HeldOut : HeldOut[i].split = split}}

\* aggregate_runs: every policy has a run of every task, and no more.
AggregateRuns(runs, split) ==
    [summary |-> [p \in Range(Policies) |->
        LET items == {i \in DOMAIN runs : runs[i].policy = p /\ runs[i].split = split}
        IN [n |-> Cardinality(items),
            solved |-> Cardinality({i \in items : runs[i].solved /\ runs[i].status = "completed"}),
            failures |-> Cardinality({i \in items : runs[i].status # "completed"}),
            missing |-> Planned(split) \ {runs[i].task : i \in items}]]]

RunsComplete(figures, split) ==
    \A p \in Range(Policies) : /\ figures.summary[p].n = Cardinality(Planned(split))
                               /\ figures.summary[p].missing = {}

Publish ==
    /\ job.pc = "report"
    /\ LET test == AggregateRuns(job.runs, "test")
       IN disk' = [disk EXCEPT !.benchmark =
            [status |-> IF ManifestStatus = "complete" /\ RunsComplete(test, "test")
                        THEN "complete" ELSE "partial",
             test |-> test, validation |-> AggregateRuns(job.runs, "validation")]]
    /\ job' = [job EXCEPT !.pc = "close"]
    /\ UNCHANGED <<ledger, tree, ev, look>>

Close ==
    /\ job.pc = "close"
    /\ disk' = [disk EXCEPT !.manifest =
         [status |-> ManifestStatus, partial |-> TrainingPartial,
          controller |-> IF job.artifact # Absent /\ job.artifact.trained THEN job.artifact ELSE Absent,
          collection |-> CollectionCost(job.summaries),
          evaluation |-> EvaluationCost(job.runs)]]
    /\ job' = [job EXCEPT !.pc = "done"]
    /\ UNCHANGED <<ledger, tree, ev, look>>

\* What the step that is under way may come to.
InFlight ==
    IF MayBranch THEN Steps(Top.ep, ledger, PatchActions[Top.next])
    ELSE IF ev = Absent THEN {}
    ELSE IF ev.pc # "act" \/ LoopOver THEN {}
    ELSE UNION {Steps(ev.ep, ledger, a) : a \in Choice}

\* A cancellation or a kill, of a request too; a line may stay unfinished.
Die ==
    /\ job.pc \notin {"off", "done", "dead"}
    /\ \/ job' = [job EXCEPT !.pc = "dead"] /\ UNCHANGED ledger
       \/ \E r \in InFlight : /\ r.asked /\ ledger' = r.ledger
                              /\ job' = [job EXCEPT !.pc = "dead", !.asked = @ + 1]
    /\ tree' = Absent /\ ev' = Absent
    /\ disk' \in {disk, [disk EXCEPT !.torn = TRUE]}
    /\ UNCHANGED look

-----------------------------------------------------------------------------
(* aggregate_studies.                                                      *)

Missing == [status |-> "missing", partial |-> FALSE, raw |-> <<>>]
Refused == [status |-> "refused"]

ReadManifest ==
    /\ look.pc = "off" /\ disk.manifest # Absent
    /\ look' = [look EXCEPT !.pc = "controller", !.manifest = disk.manifest]
    /\ UNCHANGED <<ledger, job, tree, ev, disk>>

CompareController ==
    /\ look.pc = "controller"
    /\ look' = IF /\ disk.controller # Absent /\ look.manifest.status # "running"
                  /\ look.manifest.controller \notin {Absent, disk.controller}
               THEN [look EXCEPT !.pc = "over", !.report = Refused]
               ELSE [look EXCEPT !.pc = "raw"]
    /\ UNCHANGED <<ledger, job, tree, ev, disk>>

\* _summarize over all predeclared seeds
Covers(entries, split) ==
    \A seed \in DOMAIN entries, p \in Range(Policies), t \in Planned(split) :
        \E i \in DOMAIN entries[seed].raw : LET r == entries[seed].raw[i]
                                           IN r.task = t /\ r.policy = p /\ r.split = split

\* Outside the plan, or twice in it.
Unfit(raw) ==
    \/ \E i \in DOMAIN raw : raw[i].task \notin Planned(raw[i].split)
    \/ \E i, k \in DOMAIN raw : i # k /\ raw[i].task = raw[k].task /\ raw[i].policy = raw[k].policy

\* Faulty: coverage decides.
ReportStatusByCoverage(entries) ==
    IF Covers(entries, "test") /\ Covers(entries, "validation") THEN "complete" ELSE "partial"

ReportStatus(entries) ==
    IF /\ Covers(entries, "test") /\ Covers(entries, "validation")
       /\ \A seed \in DOMAIN entries : entries[seed].status = "complete" /\ ~entries[seed].partial
    THEN "complete" ELSE "partial"

Combine ==
    /\ look.pc = "raw"
    /\ \E others \in [OtherSeeds -> Elsewhere] :
          LET own == [status |-> look.manifest.status, raw |-> disk.raw,
                      partial |-> look.manifest.status # "running" /\ look.manifest.partial]
              entries == [seed \in OtherSeeds \cup {"own"} |->
                             IF seed = "own" THEN own ELSE others[seed]]
          IN look' = [look EXCEPT !.pc = "over",
                        !.report = IF disk.torn \/ \E s \in DOMAIN entries : Unfit(entries[s].raw)
                                   THEN Refused
                                   ELSE [status |-> ReportStatus(entries), entries |-> entries]]
    /\ UNCHANGED <<ledger, job, tree, ev, disk>>

-----------------------------------------------------------------------------
ResearchInit ==
    /\ ledger = [spent |-> 0, pending |-> 0, disabled |-> FALSE]
    /\ job = NoJob /\ tree = Absent /\ ev = Absent /\ disk = NoFiles /\ look = NotLooking

ResearchNext ==
    \/ Begin \/ Plant \/ Probe \/ Branch \/ Leave \/ Harvest \/ Uproot \/ Fit
    \/ StartEval \/ Act \/ Graded \/ Record \/ Evaluated \/ Publish \/ Close \/ Die
    \/ ReadManifest \/ CompareController \/ Combine

ResearchSpec == ResearchInit /\ [][ResearchNext]_rvars
-----------------------------------------------------------------------------
(* Properties.                                                             *)

\* Every transition continues the one before it on its route: its state is
\* the state a nonterminal one ended in, as many requests deep as the route
\* is long, whatever the branches beside it did; and none occurs twice.
RowsFormATree ==
    tree # Absent =>
    \A i \in DOMAIN tree.rows :
        LET row == tree.rows[i]
        IN /\ row.state.attempts = Len(row.route)
           /\ \A k \in DOMAIN tree.rows :
                 tree.rows[k].route = row.route /\ tree.rows[k].action = row.action => k = i
           /\ row.route # <<>> =>
                 \E k \in 1..(i - 1) : /\ tree.rows[k].route = Front(row.route)
                                       /\ tree.rows[k].action = Last(row.route)
                                       /\ tree.rows[k].next = row.state /\ ~tree.rows[k].terminal

\* What the study has recorded as its cost, and the open episode or tree
\* will, is what the ledger charged by the rows that were settled: no shared
\* prefix is counted twice, no failed request for nothing, and what the study
\* does not know of is exactly what rows that nothing settled still charge,
\* though it may go on after them and end complete.  Once the study has
\* failed it is no more than that: what an exception took along is in the
\* ledger alone.
Settled(l) == l.spent - l.pending
Known ==
    CollectionCost(job.summaries) + EvaluationCost(job.runs)
    + (IF tree = Absent THEN 0 ELSE tree.billed) + (IF ev = Absent THEN 0 ELSE ev.ep.cost)
CostsAreTheLedgers ==
    /\ Known <= Settled(ledger)
    /\ job.pc \in {"train", "eval"} \/ job.outcome = "complete" => Known = Settled(ledger)

\* After the allowance is exhausted the study asks for nothing more.
NothingAfterExhaustion == [][job.exhausted => job'.asked = job.asked]_rvars

\* An aggregate that says "complete" has, of every predeclared seed, a study
\* that ended by itself without a failed training branch and ran every policy
\* once on every held-out task, though it reads while a study writes.
AggregateIsTrue ==
    look.pc = "over" /\ look.report.status = "complete" =>
        /\ job.pc = "done" /\ job.outcome = "complete" /\ ~job.exhausted
        /\ \A i \in DOMAIN job.summaries : ~job.summaries[i].partial
        /\ Len(job.summaries) = Len(Training)
        /\ look.report.entries["own"].raw = job.runs /\ Len(job.runs) = Len(EvalPlan)
        /\ disk.benchmark.status = "complete"
        /\ \A seed \in OtherSeeds : look.report.entries[seed].status = "complete"
=============================================================================
