-------------------------------- MODULE Study --------------------------------
(***************************************************************************)
(* One study (run_study, forgerl/bench/study.py): train, freeze a          *)
(* controller, evaluate every policy, summarise; the evidence directory it *)
(* writes one durable step at a time; and the two programs that read such  *)
(* directories, which may do so while the study runs or after it died:     *)
(* scripts/aggregate_forgebench.py and the training-support audit that     *)
(* precedes fitting the transfer controllers.                              *)
(***************************************************************************)
EXTENDS Naturals, Sequences, FiniteSets, SequencesExt

CONSTANTS
    Catalogs,    \* the catalogs, sequences of tasks, a study may be given
    PerFamily,   \* train_per_family and eval_per_family
    Rollouts,    \* train_rollouts
    Arms,        \* router.POLICIES, in the order they are shuffled into
    Lengths      \* how many transitions a completed training episode may have

ASSUME StudyPlanAssumption ==
    /\ \A c \in Catalogs : c \in Seq([id : Nat, family : Nat, split : STRING])
    /\ Arms \in Seq(STRING) /\ IsInjective(Arms) /\ PerFamily \in 1..5 /\ Rollouts \in 1..4 /\ Lengths \subseteq Nat \ {0}

VARIABLES
    catalog,  \* the tasks
    dir,      \* what is on disk
    job,      \* the process that writes it
    look      \* a program that reads it

svars == <<catalog, dir, job, look>>

Missing == [absent |-> TRUE]
Statuses == {"completed", "failed", "budget_exhausted"}
EmptyDir == [manifest |-> Missing, controller |-> Missing, benchmark |-> Missing,
             transitions |-> <<>>, raw |-> <<>>, runs |-> <<>>, torn |-> {}]
Idle == [pc |-> "off", ids |-> 0, at |-> 1, held |-> Missing, rows |-> <<>>,
         runs |-> {}, trained |-> 0, failures |-> 0, artifact |-> Missing, stop |-> FALSE]
Asleep == [pc |-> "off", manifest |-> Missing, raw |-> <<>>, report |-> Missing]

-----------------------------------------------------------------------------
(* The plan.                                                               *)

\* Faulty: families are not looked at.
SplitsById(c) ==
    /\ \A i \in DOMAIN c : c[i].split \in {"train", "validation", "test"}
    /\ \A i, k \in DOMAIN c : c[i].id = c[k].id => i = k
    /\ \A s \in {"train", "validation", "test"} : \E i \in DOMAIN c : c[i].split = s

\* validate_splits: no ID twice, no family in two splits, no split empty.
ValidSplits(c) ==
    /\ \A i \in DOMAIN c : c[i].split \in {"train", "validation", "test"}
    /\ \A i, k \in DOMAIN c : c[i].id = c[k].id => i = k
    /\ \A i, k \in DOMAIN c : c[i].family = c[k].family => c[i].split = c[k].split
    /\ \A s \in {"train", "validation", "test"} : \E i \in DOMAIN c : c[i].split = s

Earlier(a, b) == a.family < b.family \/ (a.family = b.family /\ a.id < b.id)

Sorted(tasks) ==
    CHOOSE q \in [1..Cardinality(tasks) -> tasks] :
        \A i, k \in DOMAIN q : i < k => Earlier(q[i], q[k])

\* select_tasks: the first PerFamily tasks of each family, family by family.
SelectTasks(tasks) ==
    Sorted({t \in tasks : Cardinality({u \in tasks : u.family = t.family /\ u.id < t.id})
                         < PerFamily})

Tasks(training) == {t \in Range(catalog) : (t.split = "train") = training}
TrainPlan ==
    LET ids == SelectTasks(Tasks(TRUE))
    IN [k \in 1..(Len(ids) * Rollouts) |-> ids[((k - 1) \div Rollouts) + 1]]
EvalPlan ==
    LET ids == SelectTasks(Tasks(FALSE))
    IN [k \in 1..(Len(ids) * Len(Arms)) |->
           [task |-> ids[((k - 1) \div Len(Arms)) + 1],
            policy |-> Arms[((k - 1) % Len(Arms)) + 1]]]
Expected == Range(EvalPlan)
Covered(runs) == {[task |-> r.task, policy |-> r.policy] : r \in runs}

-----------------------------------------------------------------------------
(* What is reported of evaluated runs, of which each has a row of its own. *)

Solved(r) == r.status = "completed"  \* and solved, of which nothing depends

\* summarize: failed runs stay in the denominator.
SummaryOf(runs, p) ==
    LET rows == {r \in runs : r.policy = p}
    IN [n |-> Cardinality(rows), solved |-> Cardinality({r \in rows : Solved(r)}),
        failed |-> Cardinality({r \in rows : r.status # "completed"})]

\* paired_intervals: tasks both arms have a run of; what the learned one gains and loses.
PairedWith(runs, p) ==
    LET pairs == {ab \in runs \X runs : /\ ab[1].policy = "adaptive" /\ ab[2].policy = p
                                       /\ ab[1].task = ab[2].task}
    IN [tasks |-> Cardinality(pairs),
        gain |-> Cardinality({ab \in pairs : Solved(ab[1]) /\ ~Solved(ab[2])}),
        loss |-> Cardinality({ab \in pairs : ~Solved(ab[1]) /\ Solved(ab[2])})]

Figures(runs) ==
    LET tests == {r \in runs : r.task.split = "test"}
    IN [summary |-> [p \in Range(Arms) |-> SummaryOf(tests, p)],
        validation |-> [p \in Range(Arms) |-> SummaryOf(runs \ tests, p)],
        paired |-> [p \in Range(Arms) \ {"adaptive"} |-> PairedWith(tests, p)]]

-----------------------------------------------------------------------------
(* The writer.  A write replaces a whole file; an append adds one line.     *)

Manifest(status) ==
    [status |-> status, controller |-> job.artifact, trained |-> job.trained,
     failures |-> job.failures,
     rows |-> IF status = "running" THEN {} ELSE {Len(job.rows)}]

\* plan, Writer.__init__, manifest.json and plan.json.
Open ==
    /\ job.pc \in {"off", "dead"}
    /\ ValidSplits(catalog) /\ dir = EmptyDir
    /\ job' = [Idle EXCEPT !.pc = "train", !.ids = job.ids]
    /\ dir' = [dir EXCEPT !.manifest = [status |-> "running", controller |-> Missing,
                                        trained |-> 0, failures |-> 0, rows |-> {}]]
    /\ UNCHANGED <<catalog, look>>

\* An episode ended and its result is in memory.
Episode(phase, task, policy) ==
    \E status \in Statuses, n \in Lengths :
        /\ n > 1 => status = "completed" /\ phase = "train"
        /\ job' = [job EXCEPT !.pc = "file", !.ids = @ + 1,
                   !.held = [id |-> job.ids + 1, phase |-> phase, task |-> task,
                             policy |-> policy, status |-> status, len |-> n,
                             by |-> job.artifact]]
        /\ UNCHANGED <<catalog, dir, look>>

TrainEpisode ==
    /\ job.pc = "train" /\ job.at <= Len(TrainPlan)
    /\ Episode("train", TrainPlan[job.at], "exploration")

EvalEpisode ==
    /\ job.pc = "eval" /\ job.at <= Len(EvalPlan)
    /\ Episode("evaluation", EvalPlan[job.at].task, EvalPlan[job.at].policy)

\* Faulty: a run's file is named for its task and policy.
SaveRunByTask ==
    /\ job.pc = "file"
    /\ dir' = [dir EXCEPT !.runs =
                 Append(SelectSeq(@, LAMBDA r : r.task # job.held.task \/ r.policy # job.held.policy),
                        job.held)]
    /\ job' = [job EXCEPT !.pc = "index"]
    /\ UNCHANGED <<catalog, look>>

SaveRun ==
    /\ job.pc = "file"
    /\ dir' = [dir EXCEPT !.runs = Append(@, job.held)]
    /\ job' = [job EXCEPT !.pc = "index"]
    /\ UNCHANGED <<catalog, look>>

Row(r) == [run |-> r.id, phase |-> r.phase, task |-> r.task, policy |-> r.policy,
           status |-> r.status]

\* What follows an episode, once everything of it is recorded.
GoOn(j) ==
    IF j.held.status = "budget_exhausted" THEN [j EXCEPT !.pc = "report", !.stop = TRUE]
    ELSE [j EXCEPT !.pc = IF j.held.phase = "train" THEN "train" ELSE "eval", !.at = @ + 1]

\* Faulty: failed episodes leave transitions, too.
CountedAlike(j) ==
    LET r == j.held
    IN IF r.phase = "evaluation" THEN GoOn([j EXCEPT !.runs = @ \cup {r}])
       ELSE [j EXCEPT !.pc = "rows", !.trained = @ + 1]

\* The episode counts in memory after its index row is durable.
Counted(j) ==
    LET r == j.held
    IN IF r.phase = "evaluation" THEN GoOn([j EXCEPT !.runs = @ \cup {r}])
       ELSE IF r.status = "completed" THEN [j EXCEPT !.pc = "rows", !.trained = @ + 1]
       ELSE GoOn([j EXCEPT !.trained = @ + 1, !.failures = @ + 1])

IndexRun ==
    /\ job.pc = "index"
    /\ dir' = [dir EXCEPT !.raw = Append(@, Row(job.held))]
    /\ job' = Counted(job)
    /\ UNCHANGED <<catalog, look>>

\* The next transition of a completed training episode.
Transition ==
    LET i == Cardinality({k \in DOMAIN job.rows : job.rows[k].run = job.held.id}) + 1
    IN [run |-> job.held.id, task |-> job.held.task, terminal |-> i = job.held.len]

AppendRow ==
    /\ job.pc = "rows"
    /\ dir' = [dir EXCEPT !.transitions = Append(@, Transition)]
    /\ LET j == [job EXCEPT !.rows = Append(@, Transition)]
       IN job' = IF Transition.terminal THEN GoOn(j) ELSE j
    /\ UNCHANGED <<catalog, look>>

\* fit_q: the controller is in memory before it is a file.
Fit ==
    /\ job.pc = "train" /\ job.at > Len(TrainPlan)
    /\ job' = [job EXCEPT !.pc = "control", !.artifact = [fitted |-> job.rows]]
    /\ UNCHANGED <<catalog, dir, look>>

SaveController ==
    /\ job.pc = "control"
    /\ dir' = [dir EXCEPT !.controller = job.artifact]
    /\ job' = [job EXCEPT !.pc = "freeze"]
    /\ UNCHANGED <<catalog, look>>

Freeze ==
    /\ job.pc = "freeze"
    /\ dir' = [dir EXCEPT !.manifest = Manifest("running")]
    /\ job' = [job EXCEPT !.pc = "eval", !.at = 1]
    /\ UNCHANGED <<catalog, look>>

Evaluated ==
    /\ job.pc = "eval" /\ job.at > Len(EvalPlan)
    /\ job' = [job EXCEPT !.pc = "report"]
    /\ UNCHANGED <<catalog, dir, look>>

\* Faulty: a study that stopped after its last planned run is complete.
OutcomeByCoverage ==
    IF Expected \subseteq Covered(job.runs) THEN "complete" ELSE "partial"

Outcome ==
    IF Expected \subseteq Covered(job.runs) /\ ~job.stop THEN "complete" ELSE "partial"

\* benchmark.json, then the last manifest.json.
Summarise ==
    /\ job.pc = "report"
    /\ dir' = [dir EXCEPT !.benchmark = [status |-> Outcome, figures |-> Figures(job.runs)]]
    /\ job' = [job EXCEPT !.pc = "close"]
    /\ UNCHANGED <<catalog, look>>

Close ==
    /\ job.pc = "close"
    /\ dir' = [dir EXCEPT !.manifest = Manifest(Outcome)]
    /\ job' = [job EXCEPT !.pc = "done"]
    /\ UNCHANGED <<catalog, look>>

\* Something inside the try raises: the episode, the write that was due, or
\* only the fsync that ends it, when the line, or the part of it for which
\* there was room, is already in the file.
Raises ==
    /\ job.pc \in {"train", "eval", "file", "index", "rows", "control", "freeze"}
    /\ job' = [job EXCEPT !.pc = "report", !.stop = TRUE,
               !.rows = IF job.pc = "rows" THEN Append(@, Transition) ELSE @]
    /\ \/ UNCHANGED dir
       \/ job.pc = "index" /\ dir' = [dir EXCEPT !.raw = Append(@, Row(job.held))]
       \/ job.pc = "rows" /\ dir' = [dir EXCEPT !.transitions = Append(@, Transition)]
       \/ job.pc \in {"index", "rows"} /\ dir' = [dir EXCEPT !.torn = @ \cup {job.pc}]
    /\ UNCHANGED <<catalog, look>>

\* The process dies, or cannot write its summary; a line may stay unfinished.
Dies ==
    /\ job.pc \notin {"off", "dead", "done"}
    /\ job' = [job EXCEPT !.pc = "dead"]
    /\ \/ UNCHANGED dir
       \/ job.pc \in {"index", "rows"} /\ dir' = [dir EXCEPT !.torn = @ \cup {job.pc}]
    /\ UNCHANGED <<catalog, look>>
-----------------------------------------------------------------------------
(* aggregate_studies, for the directory of one seed.                        *)

LookUp ==
    /\ look.pc = "off" /\ dir.manifest # Missing
    /\ look' = [Asleep EXCEPT !.pc = "controller", !.manifest = dir.manifest]
    /\ UNCHANGED <<catalog, dir, job>>

Refusal == [status |-> "refused"]
Refuse == look' = [Asleep EXCEPT !.pc = "over", !.report = Refusal]

CheckController ==
    /\ look.pc = "controller"
    /\ IF look.manifest.controller \in {Missing, dir.controller}
       THEN look' = [look EXCEPT !.pc = "index"] ELSE Refuse
    /\ UNCHANGED <<catalog, dir, job>>

ReadIndex ==
    /\ look.pc = "index"
    /\ IF "index" \in dir.torn THEN Refuse ELSE look' = [look EXCEPT !.pc = "runs", !.raw = dir.raw]
    /\ UNCHANGED <<catalog, dir, job>>

Rows(raw, phase) == {i \in DOMAIN raw : raw[i].phase = phase}

\* The index of a run names the run file, once; evaluations are in the plan and not repeated.
Identified(raw) ==
    /\ \A i \in DOMAIN raw : \E k \in DOMAIN dir.runs : Row(dir.runs[k]) = raw[i]
    /\ \A i, k \in DOMAIN raw : raw[i].run = raw[k].run => i = k
    /\ \A i \in Rows(raw, "train") : raw[i].task \in Range(TrainPlan)
    /\ \A i, k \in Rows(raw, "evaluation") :
          raw[i].task = raw[k].task /\ raw[i].policy = raw[k].policy => i = k

\* reconcile_training_counters: the indexed runs are authoritative.
Reconciled(raw) ==
    LET failed == {i \in Rows(raw, "train") : raw[i].status # "completed"}
    IN IF /\ look.manifest.trained = Cardinality(Rows(raw, "train"))
          /\ look.manifest.failures = Cardinality(failed)
       THEN look.manifest.status
       ELSE IF look.manifest.status = "running" THEN "running" ELSE "partial"

Verdict(raw) ==
    LET found == {dir.runs[k] : k \in {k \in DOMAIN dir.runs :
                      \E i \in Rows(raw, "evaluation") : raw[i].run = dir.runs[k].id}}
    IN [status |-> IF Expected \subseteq Covered(found) /\ Reconciled(raw) = "complete"
                   THEN "complete" ELSE "partial",
        trained |-> Cardinality(Rows(raw, "train")), figures |-> Figures(found)]

Aggregate ==
    /\ look.pc = "runs"
    /\ IF Identified(look.raw)
       THEN look' = [Asleep EXCEPT !.pc = "over", !.report = Verdict(look.raw)]
       ELSE Refuse
    /\ UNCHANGED <<catalog, dir, job>>
-----------------------------------------------------------------------------
(* audit_studies and fit_supervised, for the directory of one seed.         *)

OpenAudit ==
    /\ look.pc = "off" /\ dir.manifest # Missing
    /\ look' = [Asleep EXCEPT !.pc = "rows", !.manifest = dir.manifest]
    /\ UNCHANGED <<catalog, dir, job>>

\* Episodes end where they say, and no episode runs into another task's.
Terminated(rows) ==
    /\ rows # <<>> => Last(rows).terminal
    /\ \A i \in 1..(Len(rows) - 1) : rows[i].task # rows[i + 1].task => rows[i].terminal

\* The manifest is final and counts the rows, of which there are some.
Audited(m, rows) == m.rows = {Len(rows)} /\ rows # <<>>

FitTransfer ==
    /\ look.pc = "rows"
    /\ look' = [Asleep EXCEPT !.pc = "over",
                 !.raw = dir.transitions,
                 !.report = IF /\ "rows" \notin dir.torn
                               /\ Audited(look.manifest, dir.transitions)
                               /\ Terminated(dir.transitions)
                            THEN [status |-> "fitted"] ELSE [status |-> "unfit"]]
    /\ UNCHANGED <<catalog, dir, job>>
-----------------------------------------------------------------------------
StudyInit ==
    /\ catalog \in Catalogs
    /\ dir = EmptyDir /\ job = Idle /\ look = Asleep

StudyNext ==
    \/ Open \/ TrainEpisode \/ EvalEpisode \/ SaveRun \/ IndexRun \/ AppendRow
    \/ Fit \/ SaveController \/ Freeze \/ Evaluated \/ Summarise \/ Close \/ Raises \/ Dies
    \/ LookUp \/ CheckController \/ ReadIndex \/ Aggregate
    \/ OpenAudit \/ FitTransfer

StudySpec == StudyInit /\ [][StudyNext]_svars
-----------------------------------------------------------------------------
(* Properties.                                                             *)

\* An aggregation says "complete" only of a study that ended by itself, with
\* every planned training episode and every policy on every task recorded,
\* though it reads the directory in four steps while the study writes it;
\* and its figures, taken from the run files, are the study's own.
CompleteIsTrue ==
    look.pc = "over" /\ look.report.status = "complete" =>
        /\ job.pc = "done" /\ ~job.stop
        /\ look.report.trained = Len(TrainPlan)
        /\ Len(dir.raw) = Len(TrainPlan) + Cardinality(Expected)
        /\ look.report.figures = dir.benchmark.figures

\* The study ended because its controller could not be written, and its last
\* manifest pins the hash of what it had in memory.
PinsNoFile ==
    /\ job.pc = "done" /\ job.stop
    /\ dir.controller = Missing /\ dir.manifest.controller = job.artifact
    /\ \A k \in DOMAIN dir.runs : dir.runs[k].phase = "train"

\* Reading a directory fails only if a line of its index was cut off, or if
\* the study ended at the write of its controller: otherwise the order of the
\* study's writes keeps every index row, and every controller a manifest
\* names, readable at every moment, also while the study runs.
RefusedForCut ==
    look.pc = "over" /\ look.report.status = "refused" => "index" \in dir.torn \/ PinsNoFile

\* The transfer controllers are fitted to whole training episodes only, each
\* from its first transition to its terminal one, none of them failed.
FittedWhole ==
    look.pc = "over" /\ look.report.status = "fitted" =>
        \A i \in DOMAIN look.raw : \E k \in DOMAIN dir.runs :
            LET r == dir.runs[k]
                mine == {j \in DOMAIN look.raw : look.raw[j].run = r.id}
            IN /\ r.id = look.raw[i].run /\ r.phase = "train" /\ r.status = "completed"
               /\ Cardinality(mine) = r.len
               /\ \A j \in mine : look.raw[j].terminal <=> mine \subseteq 1..j

\* Every evaluation was made with the controller that is on disk and that
\* the manifest pins, and that was fitted to the training rows on disk, none
\* of them of the evaluated task's family.
EvaluatedFrozen ==
    \A k \in DOMAIN dir.runs : dir.runs[k].phase = "evaluation" =>
        /\ \A i \in DOMAIN dir.transitions :
              dir.transitions[i].task.family # dir.runs[k].task.family
        /\ dir.runs[k].by = dir.controller
        /\ dir.manifest.controller = dir.controller
        /\ dir.controller = [fitted |-> dir.transitions]
=============================================================================
