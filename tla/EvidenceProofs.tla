---------------------------- MODULE EvidenceProofs ----------------------------
(***************************************************************************)
(* What the evidence on disk says, for every catalog, plan, number of      *)
(* processes, directories, edits and failures.                             *)
(*                                                                         *)
(* A study (SInv): the directory is at every step what one pass through    *)
(* the plan has written up to then, so that a file read later can disagree *)
(* with a file read earlier only where a kill tore one.  The campaigns     *)
(* (CInv): only the process that holds the lock writes, what it writes is  *)
(* the plan up to a row, and a directory whose last manifest is written    *)
(* never changes again; it was charged what its rows cost, whatever else   *)
(* others are charged meanwhile; and what a process imported is on disk    *)
(* until the tree is edited.                                               *)
(***************************************************************************)
EXTENDS Study, Campaign, TotalsProofs, FiniteSetTheorems

Task == [id : Nat, family : Nat, split : STRING]

\* Tasks are told apart by family and ID.
Distinct(S) == \A a, b \in S : a.family = b.family /\ a.id = b.id => a = b

InOrder(q) == \A i, k \in DOMAIN q : i < k => Earlier(q[i], q[k])

LEMMA FirstTask ==
    ASSUME NEW S \in SUBSET Task, S # {}, Distinct(S)
    PROVE  \E m \in S : \A t \in S \ {m} : Earlier(m, t)
<1> DEFINE F == {t.family : t \in S}
<1>1. F \in SUBSET Nat /\ F # {}
  BY DEF Task
<1>2. PICK f \in F : \A g \in F : f <= g
  <2> HIDE DEF F
  <2> QED BY <1>1, LeastNatural
<1> DEFINE I == {t.id : t \in {u \in S : u.family = f}}
<1>3. I \in SUBSET Nat /\ I # {}
  BY <1>2 DEF Task
<1>4. PICK i \in I : \A k \in I : i <= k
  <2> HIDE DEF I
  <2> QED BY <1>3, LeastNatural
<1>5. PICK m \in S : m.family = f /\ m.id = i
  BY <1>4
<1>6. ASSUME NEW t \in S \ {m} PROVE Earlier(m, t)
  <2>1. /\ m.family \in Nat /\ m.id \in Nat /\ t.family \in Nat /\ t.id \in Nat
        /\ m.family <= t.family /\ (t.family # m.family \/ t.id # m.id)
    <3>1. m.family \in Nat /\ m.id \in Nat /\ t.family \in Nat /\ t.id \in Nat
      BY DEF Task
    <3>2. m.family <= t.family
      BY <1>2, <1>5
    <3>3. t.family # m.family \/ t.id # m.id
      BY DEF Distinct
    <3> QED BY <3>1, <3>2, <3>3
  <2>2. t.family = m.family => m.id <= t.id
    BY <1>4, <1>5
  <2> QED BY <2>1, <2>2 DEF Earlier
<1> QED BY <1>6

\* Whatever the set, its tasks can be put in order.
LEMMA SortedExists ==
    ASSUME NEW S \in SUBSET Task, IsFiniteSet(S), Distinct(S)
    PROVE  \E q \in [1..Cardinality(S) -> S] : InOrder(q)
<1> DEFINE Sortable(T) == \E q \in [1..Cardinality(T) -> T] : InOrder(q)
           G == {n \in Nat : \A T \in SUBSET Task :
                    IsFiniteSet(T) /\ Distinct(T) /\ Cardinality(T) = n => Sortable(T)}
<1>1. 0 \in G
  <2> SUFFICES ASSUME NEW T \in SUBSET Task, IsFiniteSet(T), Cardinality(T) = 0
               PROVE  Sortable(T)
    OBVIOUS
  <2>1. T = {}
    BY FS_EmptySet
  <2> DEFINE q == [k \in {} |-> k]
  <2>2. q \in [{} -> T] /\ InOrder(q)
    BY DEF InOrder
  <2>3. 1..0 = {}
    OBVIOUS
  <2>4. q \in [1..Cardinality(T) -> T]
    BY <2>2, <2>3, Zenon
  <2> HIDE DEF q
  <2> QED BY <2>2, <2>4, Zenon
<1>2. ASSUME NEW n \in Nat, n \in G PROVE n + 1 \in G
  <2> SUFFICES ASSUME NEW T \in SUBSET Task, IsFiniteSet(T), Distinct(T), Cardinality(T) = n + 1
               PROVE  Sortable(T)
    OBVIOUS
  <2>1. T # {}
    BY FS_EmptySet
  <2>2. PICK m \in T : \A t \in T \ {m} : Earlier(m, t)
    BY <2>1, FirstTask
  <2> DEFINE R == T \ {m}
  <2>3. IsFiniteSet(R) /\ Cardinality(R) = n
    <3>1. IsFiniteSet(R) /\ Cardinality(R) = Cardinality(T) - 1
      BY FS_RemoveElement
    <3> QED BY <3>1
  <2>4. R \in SUBSET Task /\ Distinct(R)
    BY DEF Distinct
  <2>5. Sortable(R)
    <3> HIDE DEF R, Sortable
    <3> QED BY <1>2, <2>3, <2>4
  <2>6. PICK q \in [1..n -> R] : InOrder(q)
    BY <2>3, <2>5
  <2> DEFINE p == [k \in 1..(n+1) |-> IF k = 1 THEN m ELSE q[k-1]]
  <2>7. p \in [1..(n+1) -> T]
    <3> SUFFICES ASSUME NEW k \in 1..(n+1) PROVE (IF k = 1 THEN m ELSE q[k-1]) \in T
      OBVIOUS
    <3>1. k # 1 => k - 1 \in 1..n
      OBVIOUS
    <3> QED BY <3>1
  <2>8. InOrder(p)
    <3> SUFFICES ASSUME NEW i \in 1..(n+1), NEW k \in 1..(n+1), i < k
                 PROVE  Earlier(p[i], p[k])
      BY DEF InOrder
    <3>1. k - 1 \in 1..n /\ p[k] = q[k-1] /\ p[k] \in R
      OBVIOUS
    <3>2. CASE i = 1
      BY <2>2, <3>1, <3>2
    <3>3. CASE i # 1
      <4>1. i - 1 \in 1..n /\ p[i] = q[i-1] /\ i - 1 < k - 1
        BY <3>3
      <4> QED BY <2>6, <3>1, <4>1 DEF InOrder
    <3> QED BY <3>2, <3>3
  <2> QED BY <2>7, <2>8
<1>3. \A n \in Nat : n \in G
  <2> HIDE DEF G
  <2> QED BY <1>1, <1>2, SetInduction
<1>4. Cardinality(S) \in Nat
  BY FS_CardinalityType
<1> QED BY <1>3, <1>4

LEMMA SortedIs ==
    ASSUME NEW S \in SUBSET Task, IsFiniteSet(S), Distinct(S)
    PROVE  /\ Sorted(S) \in Seq(S) /\ IsInjective(Sorted(S))
           /\ Len(Sorted(S)) \in Nat /\ DOMAIN Sorted(S) = 1..Len(Sorted(S))
<1>1. Cardinality(S) \in Nat
  BY FS_CardinalityType
<1>2. Sorted(S) \in [1..Cardinality(S) -> S] /\ InOrder(Sorted(S))
  BY SortedExists DEF Sorted, InOrder
<1>3. Sorted(S) \in Seq(S) /\ Len(Sorted(S)) \in Nat /\ DOMAIN Sorted(S) = 1..Len(Sorted(S))
  BY <1>1, <1>2
<1>4. ASSUME NEW i \in DOMAIN Sorted(S), NEW k \in DOMAIN Sorted(S), Sorted(S)[i] = Sorted(S)[k]
      PROVE  i = k
  <2>1. Sorted(S)[i] \in Task
    BY <1>3
  <2>2. ~Earlier(Sorted(S)[i], Sorted(S)[i])
    BY <2>1 DEF Earlier, Task
  <2>3. ~(i < k) /\ ~(k < i)
    BY <1>2, <1>4, <2>2 DEF InOrder
  <2> QED BY <1>3, <2>3
<1> QED BY <1>3, <1>4 DEF IsInjective

-----------------------------------------------------------------------------
(* The plan.                                                               *)

LEMMA CatalogTasks ==
    ASSUME catalog \in Catalogs, ValidSplits(catalog), NEW training \in BOOLEAN
    PROVE  /\ Tasks(training) \in SUBSET Task /\ IsFiniteSet(Tasks(training))
           /\ Distinct(Tasks(training))
<1>1. catalog \in Seq(Task)
  BY StudyPlanAssumption DEF Task
<1>2. Range(catalog) \in SUBSET Task
  BY <1>1 DEF Range
<1>3. IsFiniteSet(Range(catalog))
  <2>1. IsFiniteSet(1..Len(catalog)) /\ DOMAIN catalog = 1..Len(catalog)
    BY <1>1, FS_Interval
  <2>2. catalog \in Surjection(1..Len(catalog), Range(catalog))
    BY <1>1, <2>1 DEF Surjection, Range
  <2> QED BY <2>1, <2>2, FS_Surjection
<1>4. Tasks(training) \in SUBSET Range(catalog)
  BY DEF Tasks
<1>5. IsFiniteSet(Tasks(training))
  BY <1>3, <1>4, FS_Subset
<1>6. Distinct(Tasks(training))
  BY <1>4 DEF Distinct, Range, ValidSplits
<1> QED BY <1>2, <1>4, <1>5, <1>6

LEMMA Selected ==
    ASSUME catalog \in Catalogs, ValidSplits(catalog), NEW training \in BOOLEAN
    PROVE  LET ids == SelectTasks(Tasks(training))
           IN /\ ids \in Seq(Tasks(training)) /\ IsInjective(ids)
              /\ Len(ids) \in Nat /\ DOMAIN ids = 1..Len(ids)
              /\ \A k \in 1..Len(ids) : ids[k] \in Tasks(training)
<1> DEFINE all == Tasks(training)
           S == {t \in all : Cardinality({u \in all : u.family = t.family /\ u.id < t.id})
                             < PerFamily}
<1>1. S \in SUBSET all /\ all \in SUBSET Task /\ IsFiniteSet(all) /\ Distinct(all)
  BY CatalogTasks
<1> HIDE DEF all
<1>2. SelectTasks(all) = Sorted(S)
  BY DEF SelectTasks
<1> HIDE DEF S
<1>3. S \in SUBSET Task /\ IsFiniteSet(S) /\ Distinct(S)
  BY <1>1, FS_Subset DEF Distinct
<1>4. /\ Sorted(S) \in Seq(S) /\ IsInjective(Sorted(S))
      /\ Len(Sorted(S)) \in Nat /\ DOMAIN Sorted(S) = 1..Len(Sorted(S))
  BY <1>3, SortedIs
<1>5. Sorted(S) \in Seq(all) /\ \A k \in 1..Len(Sorted(S)) : Sorted(S)[k] \in all
  BY <1>1, <1>4
<1> QED BY <1>2, <1>4, <1>5 DEF all

\* A row and a column, counted row by row.
LEMMA Grid ==
    ASSUME NEW n \in Nat, NEW w \in Nat \ {0}, NEW k \in 1..(n * w)
    PROVE  /\ ((k - 1) \div w) + 1 \in 1..n /\ ((k - 1) % w) + 1 \in 1..w
           /\ k - 1 = w * ((k - 1) \div w) + ((k - 1) % w)
<1> DEFINE q == (k - 1) \div w
           r == (k - 1) % w
<1>1. k - 1 \in Nat /\ k - 1 < n * w
  OBVIOUS
<1>2. q \in Nat /\ r \in Nat /\ r < w /\ k - 1 = w * q + r
  BY <1>1
<1>3. q < n
  <2>1. SUFFICES ASSUME n <= q PROVE FALSE
    BY <1>2
  <2>2. n * w <= q * w
    BY <1>2, <2>1
  <2> QED BY <1>1, <1>2, <2>2
<1> QED BY <1>2, <1>3

Pair == [task : Tasks(FALSE), policy : Range(Arms)]

LEMMA Arms_ ==
    Len(Arms) \in Nat /\ DOMAIN Arms = 1..Len(Arms) /\ Range(Arms) \subseteq STRING
    /\ \A k \in 1..Len(Arms) : Arms[k] \in Range(Arms)
BY StudyPlanAssumption DEF Range

LEMMA AsSequence ==
    ASSUME NEW S, NEW n \in Nat, NEW f \in [1..n -> S]
    PROVE  f \in Seq(S) /\ Len(f) = n /\ DOMAIN f = 1..n
OBVIOUS

\* The training plan names training tasks.
LEMMA TrainPlanIs ==
    ASSUME catalog \in Catalogs, ValidSplits(catalog)
    PROVE  /\ TrainPlan \in Seq(Tasks(TRUE)) /\ Len(TrainPlan) \in Nat
           /\ \A k \in 1..Len(TrainPlan) : TrainPlan[k] \in Tasks(TRUE) /\ TrainPlan[k] \in Range(TrainPlan)
<1> DEFINE ids == SelectTasks(Tasks(TRUE))
           n == Len(ids) * Rollouts
<1>1. /\ Len(ids) \in Nat /\ \A k \in 1..Len(ids) : ids[k] \in Tasks(TRUE)
  BY Selected
<1>2. Rollouts \in Nat \ {0}
  BY StudyPlanAssumption
<1> HIDE DEF ids
<1>3. n \in Nat
  BY <1>1, <1>2
<1>4. TrainPlan = [k \in 1..n |-> ids[((k - 1) \div Rollouts) + 1]]
  BY DEF TrainPlan, ids
<1>5. \A k \in 1..n : ((k - 1) \div Rollouts) + 1 \in 1..Len(ids)
  BY <1>1, <1>2, Grid
<1> HIDE DEF n
<1>6. TrainPlan \in [1..n -> Tasks(TRUE)]
  BY <1>1, <1>4, <1>5
<1>7. TrainPlan \in Seq(Tasks(TRUE)) /\ Len(TrainPlan) = n /\ DOMAIN TrainPlan = 1..n
  BY <1>3, <1>6, AsSequence
<1> QED BY <1>3, <1>6, <1>7 DEF Range

\* The evaluation plan names each task that is not for training with each
\* policy, once.
LEMMA EvalPlanIs ==
    ASSUME catalog \in Catalogs, ValidSplits(catalog)
    PROVE  /\ EvalPlan \in Seq(Pair) /\ Len(EvalPlan) \in Nat /\ IsInjective(EvalPlan)
           /\ DOMAIN EvalPlan = 1..Len(EvalPlan)
           /\ \A k \in 1..Len(EvalPlan) : EvalPlan[k] \in Pair
<1> DEFINE ids == SelectTasks(Tasks(FALSE))
           w == Len(Arms)
           n == Len(ids) * w
           row(k) == ((k - 1) \div w) + 1
           col(k) == ((k - 1) % w) + 1
<1>1. /\ Len(ids) \in Nat /\ \A k \in 1..Len(ids) : ids[k] \in Tasks(FALSE)
      /\ IsInjective(ids) /\ DOMAIN ids = 1..Len(ids)
  BY Selected
<1>2. w \in Nat /\ IsInjective(Arms) /\ DOMAIN Arms = 1..w
      /\ \A k \in 1..w : Arms[k] \in Range(Arms)
  BY StudyPlanAssumption, Arms_
<1>3. EvalPlan = [k \in 1..n |-> [task |-> ids[row(k)], policy |-> Arms[col(k)]]]
  BY DEF EvalPlan
<1> HIDE DEF ids, w
<1>4. n \in Nat
  BY <1>1, <1>2
<1>5. ASSUME NEW k \in 1..n
      PROVE  row(k) \in 1..Len(ids) /\ col(k) \in 1..w
             /\ k - 1 = w * (row(k) - 1) + (col(k) - 1)
  <2>1. w # 0
    <3> SUFFICES ASSUME w = 0 PROVE FALSE
      OBVIOUS
    <3>1. n = 0
      BY <1>1
    <3> QED BY <3>1
  <2>2. /\ row(k) \in 1..Len(ids) /\ col(k) \in 1..w
        /\ k - 1 = w * ((k - 1) \div w) + ((k - 1) % w)
    BY <1>1, <1>2, <2>1, Grid
  <2>3. row(k) - 1 = (k - 1) \div w /\ col(k) - 1 = (k - 1) % w
    BY <1>2, <2>1
  <2> HIDE DEF row, col, n
  <2> QED BY <2>2, <2>3, Zenon
<1> HIDE DEF row, col, n
<1>6. EvalPlan \in [1..n -> Pair]
  BY <1>1, <1>2, <1>3, <1>5 DEF Pair
<1>7. EvalPlan \in Seq(Pair) /\ Len(EvalPlan) = n /\ DOMAIN EvalPlan = 1..n
  BY <1>4, <1>6
<1>8. ASSUME NEW i \in 1..n, NEW k \in 1..n, EvalPlan[i] = EvalPlan[k]
      PROVE  i = k
  <2>1. ids[row(i)] = ids[row(k)] /\ Arms[col(i)] = Arms[col(k)]
    BY <1>3, <1>8
  <2>2. row(i) = row(k) /\ col(i) = col(k)
    BY <1>1, <1>2, <1>5, <2>1 DEF IsInjective
  <2>3. i - 1 = k - 1
    BY <1>5, <2>2, Zenon
  <2> QED BY <2>3
<1> QED BY <1>4, <1>6, <1>7, <1>8 DEF IsInjective

-----------------------------------------------------------------------------
(* The inductive invariant: of the writer and its directory, then of the   *)
(* readers.                                                                *)

Policies == Range(Arms) \cup {"exploration"}
Phases == {"train", "evaluation"}
TransitionRow == [run : Nat, task : Task, terminal : BOOLEAN]
Controllers == {Missing} \cup [fitted : Seq(TransitionRow)]
RunFile == [id : Nat, phase : Phases, task : Task, policy : Policies, status : Statuses,
            len : Nat \ {0}, by : Controllers]
IndexRow == [run : Nat, phase : Phases, task : Task, policy : Policies, status : Statuses]
Manifests == [status : {"running", "complete", "partial"}, controller : Controllers,
              trained : Nat, failures : Nat, rows : SUBSET Nat]
Benchmarks == [status : {"complete", "partial"}, figures : {Figures(R) : R \in SUBSET RunFile}]

Jobs == [pc : {"off", "train", "file", "index", "rows", "control", "freeze", "eval", "report", "close",
               "done", "dead"},
         ids : Nat, at : Nat \ {0}, held : {Missing} \cup RunFile, rows : Seq(TransitionRow),
         runs : SUBSET RunFile, trained : Nat, failures : Nat, artifact : Controllers,
         stop : BOOLEAN]
Directories == [manifest : {Missing} \cup Manifests, controller : Controllers,
                benchmark : {Missing} \cup Benchmarks, transitions : Seq(TransitionRow),
                raw : Seq(IndexRow), runs : Seq(RunFile), torn : SUBSET {"index", "rows"}]

Typed == catalog \in Catalogs /\ job \in Jobs /\ dir \in Directories

Training == job.pc \in {"train", "rows"} \/ (job.pc \in {"file", "index"} /\ job.held.phase = "train")
Evaluating == job.pc = "eval" \/ (job.pc \in {"file", "index"} /\ job.held.phase = "evaluation")

Begun ==
    /\ job.pc = "off" => job = Idle /\ dir = EmptyDir
    /\ job.pc # "off" => ValidSplits(catalog) /\ dir.manifest # Missing

\* The episode that is being recorded is the planned one.
Held ==
    /\ job.pc \in {"file", "index", "rows"} =>
         /\ job.held # Missing /\ job.held.id = job.ids
         /\ job.held.phase = "train" =>
               job.at \in 1..Len(TrainPlan) /\ job.held.task = TrainPlan[job.at]
         /\ job.held.phase = "evaluation" =>
               /\ job.at \in 1..Len(EvalPlan) /\ job.held.by = job.artifact
               /\ EvalPlan[job.at] = [task |-> job.held.task, policy |-> job.held.policy]
    /\ job.pc = "rows" => job.held.phase = "train" /\ job.held.status = "completed"

\* The controller is not written yet, or the study ended there.
Unsaved ==
    /\ dir.controller = Missing
    /\ \/ job.pc \in {"control", "dead"}
       \/ job.pc \in {"report", "close", "done"} /\ job.stop

\* The controller is fitted once, to all that is on disk then, and on disk
\* and pinned before an evaluation.
Pinned ==
    /\ dir.controller = job.artifact \/ Unsaved
    /\ job.artifact # Missing => job.artifact = [fitted |-> dir.transitions] /\ ~Training
    /\ Training => job.rows = dir.transitions
    /\ job.pc \in {"control", "freeze"} \/ Evaluating => job.artifact # Missing
    /\ job.pc = "control" => dir.controller = Missing
    /\ dir.manifest # Missing =>
          /\ dir.manifest.controller \in {Missing, job.artifact}
          /\ job.pc # "done" => dir.manifest.controller \in {Missing, dir.controller}
    /\ Evaluating \/ (\E k \in DOMAIN dir.runs : dir.runs[k].phase = "evaluation") =>
          /\ dir.manifest.controller = job.artifact /\ dir.controller = job.artifact
          /\ job.artifact # Missing

\* What is on disk was planned; run files have their own IDs.
OnDisk ==
    /\ \A i \in DOMAIN dir.transitions : dir.transitions[i].task \in Tasks(TRUE)
    /\ \A k \in DOMAIN dir.runs :
          /\ dir.runs[k].id <= job.ids
          /\ dir.runs[k].phase = "evaluation" =>
                dir.runs[k].task \in Tasks(FALSE) /\ dir.runs[k].by = job.artifact
    /\ \A k, l \in DOMAIN dir.runs : dir.runs[k].id = dir.runs[l].id => k = l
    /\ job.pc = "file" => \A k \in DOMAIN dir.runs : dir.runs[k].id < job.ids
    /\ job.pc \in {"index", "rows"} => \E k \in DOMAIN dir.runs : dir.runs[k] = job.held

PairOf(r) == [task |-> r.task, policy |-> r.policy]

\* An index row follows its run file; evaluations follow their plan.
Indexed ==
    /\ \A i \in DOMAIN dir.raw : \E k \in DOMAIN dir.runs : Row(dir.runs[k]) = dir.raw[i]
    /\ \A i, k \in DOMAIN dir.raw : dir.raw[i].run = dir.raw[k].run => i = k
    /\ job.pc \in {"file", "index"} => \A i \in DOMAIN dir.raw : dir.raw[i].run < job.ids
    /\ \A i \in DOMAIN dir.raw :
          IF dir.raw[i].phase = "train" THEN dir.raw[i].task \in Range(TrainPlan)
          ELSE /\ ~Training /\ job.pc \notin {"control", "freeze"}
               /\ \E m \in 1..Len(EvalPlan) :
                     EvalPlan[m] = PairOf(dir.raw[i]) /\ (Evaluating => m < job.at)
    /\ \A i, k \in Rows(dir.raw, "evaluation") :
          PairOf(dir.raw[i]) = PairOf(dir.raw[k]) => i = k

Mine(rows, id) == {j \in DOMAIN rows : rows[j].run = id}
Whole(rows, r) ==
    /\ Cardinality(Mine(rows, r.id)) = r.len
    /\ \A j \in Mine(rows, r.id) : rows[j].terminal <=> Mine(rows, r.id) \subseteq 1..j
Begins(rows, r) ==
    /\ Cardinality(Mine(rows, r.id)) < r.len
    /\ \A j \in Mine(rows, r.id) : ~rows[j].terminal

\* Training episodes lie whole on disk, but the last one perhaps.
Episodes ==
    /\ \A i \in DOMAIN dir.transitions : \E k \in DOMAIN dir.runs :
          LET r == dir.runs[k]
          IN /\ r.id = dir.transitions[i].run /\ r.phase = "train" /\ r.status = "completed"
             /\ \/ Whole(dir.transitions, r)
                \/ /\ Begins(dir.transitions, r)
                   /\ dir.transitions[Len(dir.transitions)].run = r.id
                   /\ Training => job.pc = "rows" /\ r.id = job.held.id
    /\ job.pc = "rows" => Begins(dir.transitions, job.held)
    /\ job.pc = "index" => \A i \in DOMAIN dir.transitions : dir.transitions[i].run # job.ids

IndexedRuns(raw) ==
    {dir.runs[k] : k \in {k \in DOMAIN dir.runs :
        \E i \in Rows(raw, "evaluation") : raw[i].run = dir.runs[k].id}}

\* What a study that nothing stopped has counted.
Counts ==
    ~job.stop /\ job.pc \notin {"off", "dead"} =>
        /\ job.runs = IndexedRuns(dir.raw)
        /\ Training =>
              /\ job.at <= Len(TrainPlan) + 1 /\ Len(dir.raw) = job.trained
              /\ job.trained = IF job.pc = "rows" THEN job.at ELSE job.at - 1
        /\ ~Training => job.trained = Len(TrainPlan)
        /\ job.pc \in {"control", "freeze"} => Len(dir.raw) = Len(TrainPlan)
        /\ Evaluating =>
              /\ job.at <= Len(EvalPlan) + 1
              /\ Len(dir.raw) = Len(TrainPlan) + job.at - 1
        /\ job.pc \in {"report", "close", "done"} => Len(dir.raw) = Len(TrainPlan) + Len(EvalPlan)

\* Only the last manifest is final.
Closed ==
    /\ job.pc # "done" /\ dir.manifest # Missing =>
          dir.manifest.status = "running" /\ dir.manifest.rows = {}
    /\ job.pc = "done" => dir.manifest = Manifest(Outcome)
    /\ job.pc \in {"close", "done"} =>
          dir.benchmark # Missing /\ dir.benchmark.figures = Figures(job.runs)

WInv == Typed /\ Begun /\ Held /\ Pinned /\ OnDisk /\ Indexed /\ Episodes /\ Counts /\ Closed

IsFinal(m) == m.status # "running" \/ m.rows # {}

\* What a reader holds is still true of the directory.
Reading ==
    /\ look.pc \in {"controller", "index", "runs", "rows"} =>
          /\ look.manifest \in Manifests
          /\ IsFinal(look.manifest) => job.pc = "done" /\ look.manifest = dir.manifest
    /\ look.pc = "controller" =>
          look.manifest.controller \in {Missing, dir.controller} \/ PinsNoFile
    /\ look.pc = "runs" =>
          /\ look.raw \in Seq(IndexRow) /\ DOMAIN look.raw \subseteq DOMAIN dir.raw
          /\ \A i \in DOMAIN look.raw : look.raw[i] = dir.raw[i]
          /\ IsFinal(look.manifest) => look.raw = dir.raw

LookTyped == DOMAIN look = {"pc", "manifest", "raw", "report"}

RInv == LookTyped /\ Reading /\ CompleteIsTrue /\ RefusedForCut /\ FittedWhole

SInv == WInv /\ RInv

-----------------------------------------------------------------------------
LEMMA PlanStays ==
    ASSUME catalog' = catalog
    PROVE  /\ TrainPlan' = TrainPlan /\ EvalPlan' = EvalPlan
           /\ Tasks(TRUE)' = Tasks(TRUE) /\ Tasks(FALSE)' = Tasks(FALSE)
           /\ ValidSplits(catalog)' = ValidSplits(catalog) /\ Expected' = Expected
<1>1. Tasks(TRUE)' = Tasks(TRUE) /\ Tasks(FALSE)' = Tasks(FALSE)
  BY DEF Tasks
<1>2. TrainPlan' = TrainPlan /\ EvalPlan' = EvalPlan
  BY <1>1 DEF TrainPlan, EvalPlan
<1>3. ValidSplits(catalog)' = ValidSplits(catalog)
  BY DEF ValidSplits
<1>4. Expected' = Expected
  BY <1>2 DEF Expected
<1> QED BY <1>1, <1>2, <1>3, <1>4

LEMMA Appended ==
    ASSUME NEW S, NEW s \in Seq(S), NEW e \in S
    PROVE  /\ Append(s, e) \in Seq(S) /\ Len(s) \in Nat /\ Len(Append(s, e)) = Len(s) + 1
           /\ DOMAIN s = 1..Len(s) /\ DOMAIN Append(s, e) = 1..(Len(s) + 1)
           /\ \A i \in 1..Len(s) : Append(s, e)[i] = s[i]
           /\ Append(s, e)[Len(s) + 1] = e
           /\ Len(s) + 1 \in DOMAIN Append(s, e) /\ DOMAIN s \subseteq DOMAIN Append(s, e)
OBVIOUS

\* The fields of the two records, and what every step keeps.
LEMMA Fields ==
    ASSUME Typed
    PROVE  /\ job.ids \in Nat /\ job.at \in Nat \ {0} /\ job.trained \in Nat /\ job.stop \in BOOLEAN
           /\ job.held \in {Missing} \cup RunFile /\ job.rows \in Seq(TransitionRow)
           /\ job.runs \in SUBSET RunFile /\ job.artifact \in Controllers
           /\ dir.manifest \in {Missing} \cup Manifests /\ dir.controller \in Controllers
           /\ dir.transitions \in Seq(TransitionRow) /\ dir.raw \in Seq(IndexRow)
           /\ dir.runs \in Seq(RunFile) /\ dir.torn \in SUBSET {"index", "rows"}
BY DEF Typed, Jobs, Directories

LEMMA Elements ==
    ASSUME Typed
    PROVE  /\ DOMAIN dir.runs = 1..Len(dir.runs) /\ Len(dir.runs) \in Nat
           /\ DOMAIN dir.raw = 1..Len(dir.raw) /\ Len(dir.raw) \in Nat
           /\ DOMAIN dir.transitions = 1..Len(dir.transitions) /\ Len(dir.transitions) \in Nat
           /\ \A k \in DOMAIN dir.runs : dir.runs[k] \in RunFile /\ dir.runs[k].id \in Nat
           /\ \A i \in DOMAIN dir.raw : dir.raw[i] \in IndexRow /\ dir.raw[i].run \in Nat
           /\ \A i \in DOMAIN dir.transitions :
                 dir.transitions[i] \in TransitionRow /\ dir.transitions[i].run \in Nat
<1>1. dir.runs \in Seq(RunFile) /\ dir.raw \in Seq(IndexRow) /\ dir.transitions \in Seq(TransitionRow)
  BY Fields
<1>2. /\ \A k \in DOMAIN dir.runs : dir.runs[k] \in RunFile
      /\ \A i \in DOMAIN dir.raw : dir.raw[i] \in IndexRow
      /\ \A i \in DOMAIN dir.transitions : dir.transitions[i] \in TransitionRow
  BY <1>1
<1>3. (\A r \in RunFile : r.id \in Nat) /\ (\A r \in IndexRow : r.run \in Nat)
      /\ (\A r \in TransitionRow : r.run \in Nat)
  BY DEF RunFile, IndexRow, TransitionRow
<1>5. /\ DOMAIN dir.runs = 1..Len(dir.runs) /\ Len(dir.runs) \in Nat
      /\ DOMAIN dir.raw = 1..Len(dir.raw) /\ Len(dir.raw) \in Nat
      /\ DOMAIN dir.transitions = 1..Len(dir.transitions) /\ Len(dir.transitions) \in Nat
  BY <1>1
<1> QED BY <1>2, <1>3, <1>5

LEMMA SameIndex ==
    ASSUME dir'.runs = dir.runs, dir'.raw = dir.raw
    PROVE  IndexedRuns(dir.raw)' = IndexedRuns(dir.raw)
BY DEF IndexedRuns, Rows

LEMMA IdsIndexed ==
    ASSUME OnDisk, Indexed
    PROVE  \A i \in DOMAIN dir.raw : dir.raw[i].run <= job.ids
<1> SUFFICES ASSUME NEW i \in DOMAIN dir.raw PROVE dir.raw[i].run <= job.ids
  OBVIOUS
<1>1. PICK k \in DOMAIN dir.runs : Row(dir.runs[k]) = dir.raw[i]
  BY DEF Indexed
<1>2. Row(dir.runs[k]).run = dir.runs[k].id
  BY DEF Row
<1>3. dir.raw[i].run = dir.runs[k].id
  BY <1>1, <1>2, Zenon
<1>4. dir.runs[k].id <= job.ids
  BY DEF OnDisk
<1> QED BY <1>3, <1>4

LEMMA EpisodesStay ==
    ASSUME Episodes, dir'.transitions = dir.transitions,
           \A k \in DOMAIN dir.runs : k \in DOMAIN dir'.runs /\ dir'.runs[k] = dir.runs[k],
           Training' => Training /\ job.pc # "rows",
           job'.pc = "rows" => Begins(dir.transitions, job'.held),
           job'.pc = "index" => \A i \in DOMAIN dir.transitions : dir.transitions[i].run # job'.ids
    PROVE  Episodes'
<1> SUFFICES ASSUME NEW i \in DOMAIN dir.transitions
             PROVE  \E k \in DOMAIN dir'.runs :
                       LET r == dir'.runs[k]
                       IN /\ r.id = dir.transitions[i].run /\ r.phase = "train"
                          /\ r.status = "completed"
                          /\ \/ Whole(dir.transitions, r)
                             \/ /\ Begins(dir.transitions, r)
                                /\ dir.transitions[Len(dir.transitions)].run = r.id
                                /\ Training' => job'.pc = "rows" /\ r.id = job'.held.id
  BY DEF Episodes
<1>1. PICK k \in DOMAIN dir.runs :
         LET r == dir.runs[k]
         IN /\ r.id = dir.transitions[i].run /\ r.phase = "train"
            /\ r.status = "completed"
            /\ \/ Whole(dir.transitions, r)
               \/ /\ Begins(dir.transitions, r)
                  /\ dir.transitions[Len(dir.transitions)].run = r.id
                  /\ Training => job.pc = "rows" /\ r.id = job.held.id
  BY DEF Episodes
<1>2. k \in DOMAIN dir'.runs /\ dir'.runs[k] = dir.runs[k]
  OBVIOUS
<1> QED BY <1>1, <1>2

\* An episode begins, or ends in memory; a study ends, stops or dies: the
\* directory stays.
LEMMA EpisodeStep ==
    ASSUME WInv, TrainEpisode \/ EvalEpisode
    PROVE  WInv'
<1> USE DEF WInv
<1>0. ValidSplits(catalog) /\ catalog \in Catalogs /\ job \in Jobs
      /\ job.pc \in {"train", "eval"} /\ UNCHANGED <<catalog, dir>>
  BY DEF TrainEpisode, EvalEpisode, Episode, Begun, Typed
<1>1. /\ \A k \in 1..Len(TrainPlan) : TrainPlan[k] \in Task /\ TrainPlan[k] \in Tasks(TRUE)
      /\ \A k \in 1..Len(EvalPlan) : /\ EvalPlan[k].task \in Task /\ EvalPlan[k].policy \in Policies
                                     /\ EvalPlan[k].task \in Tasks(FALSE)
                                     /\ EvalPlan[k] = PairOf(EvalPlan[k])
      /\ Len(TrainPlan) \in Nat /\ Len(EvalPlan) \in Nat
  BY <1>0, TrainPlanIs, EvalPlanIs, CatalogTasks DEF Pair, PairOf, Policies
<1> DEFINE New(r) == /\ job' = [job EXCEPT !.pc = "file", !.ids = job.ids + 1, !.held = r]
                     /\ r.id = job.ids + 1 /\ r.by = job.artifact
<1>2. ASSUME NEW phase \in Phases, NEW task \in Task, NEW policy \in Policies,
             Episode(phase, task, policy)
      PROVE  \E r \in RunFile : New(r) /\ r.phase = phase /\ r.task = task /\ r.policy = policy
  <2>1. PICK status \in Statuses, n \in Lengths :
           job' = [job EXCEPT !.pc = "file", !.ids = @ + 1,
                     !.held = [id |-> job.ids + 1, phase |-> phase, task |-> task,
                               policy |-> policy, status |-> status, len |-> n,
                               by |-> job.artifact]]
    BY <1>2 DEF Episode
  <2> DEFINE r == [id |-> job.ids + 1, phase |-> phase, task |-> task,
                   policy |-> policy, status |-> status, len |-> n, by |-> job.artifact]
  <2>2. r \in RunFile
    BY Fields, StudyPlanAssumption DEF RunFile
  <2>3. New(r) /\ r.phase = phase /\ r.task = task /\ r.policy = policy
    BY <2>1
  <2> HIDE DEF r, New
  <2> QED BY <2>2, <2>3
<1>3. PICK r \in RunFile :
         /\ New(r)
         /\ \/ /\ job.pc = "train" /\ r.phase = "train"
               /\ job.at \in 1..Len(TrainPlan) /\ r.task = TrainPlan[job.at]
            \/ /\ job.pc = "eval" /\ r.phase = "evaluation"
               /\ job.at \in 1..Len(EvalPlan) /\ PairOf(r) = EvalPlan[job.at]
  <2> HIDE DEF New
  <2>2. CASE TrainEpisode
    <3>1. job.pc = "train" /\ job.at \in 1..Len(TrainPlan)
          /\ Episode("train", TrainPlan[job.at], "exploration")
      BY <2>2, Fields, <1>1 DEF TrainEpisode
    <3>2. TrainPlan[job.at] \in Task /\ "train" \in Phases /\ "exploration" \in Policies
      BY <3>1, <1>1 DEF Phases, Policies
    <3>3. \E r \in RunFile : New(r) /\ r.phase = "train" /\ r.task = TrainPlan[job.at]
      BY <3>1, <3>2, <1>2
    <3> QED BY <3>1, <3>3
  <2>3. CASE EvalEpisode
    <3>1. job.pc = "eval" /\ job.at \in 1..Len(EvalPlan)
          /\ Episode("evaluation", EvalPlan[job.at].task, EvalPlan[job.at].policy)
      BY <2>3, Fields, <1>1 DEF EvalEpisode
    <3>2. /\ EvalPlan[job.at].task \in Task /\ "evaluation" \in Phases
          /\ EvalPlan[job.at].policy \in Policies /\ EvalPlan[job.at] = PairOf(EvalPlan[job.at])
      BY <3>1, <1>1 DEF Phases
    <3>3. PICK r \in RunFile :
             /\ New(r) /\ r.phase = "evaluation" /\ r.task = EvalPlan[job.at].task
             /\ r.policy = EvalPlan[job.at].policy
      BY <3>1, <3>2, <1>2
    <3>4. PairOf(r) = EvalPlan[job.at]
      BY <3>2, <3>3 DEF PairOf
    <3> QED BY <3>1, <3>3, <3>4
  <2> QED BY <2>2, <2>3
<1>31. /\ job' \in Jobs /\ job'.pc = "file" /\ job'.ids = job.ids + 1 /\ job'.held = r
      /\ job'.at = job.at /\ job'.rows = job.rows /\ job'.runs = job.runs
      /\ job'.trained = job.trained /\ job'.artifact = job.artifact /\ job'.stop = job.stop
      /\ r.id = job.ids + 1 /\ r.by = job.artifact
  <2>1. job.ids + 1 \in Nat
    BY Fields
  <2>2. \A n \in Nat : [job EXCEPT !.pc = "file", !.ids = n, !.held = r] \in Jobs
    BY <1>0 DEF Jobs
  <2> QED BY <1>0, <1>3, <2>1, <2>2 DEF Jobs
<1>4. /\ TrainPlan' = TrainPlan /\ EvalPlan' = EvalPlan
      /\ Tasks(TRUE)' = Tasks(TRUE) /\ Tasks(FALSE)' = Tasks(FALSE)
      /\ ValidSplits(catalog)' = ValidSplits(catalog)
  BY <1>0, PlanStays
<1>5. /\ Training' <=> Training
      /\ Evaluating' <=> Evaluating
      /\ Training <=> job.pc = "train"
      /\ Evaluating <=> job.pc = "eval"
  BY <1>0, <1>3, <1>31 DEF Training, Evaluating
<1>6. Typed'
  BY <1>0, <1>31 DEF Typed
<1>7. Begun'
  BY <1>0, <1>31, <1>4 DEF Begun
<1>8. Held'
  <2>1. r # Missing
    BY DEF RunFile, Missing
  <2> QED BY <1>3, <1>31, <1>4, <2>1 DEF Held, PairOf
<1>9. Pinned'
  BY <1>0, <1>31, <1>5 DEF Pinned, Unsaved
<1>10. OnDisk'
  <2>1. \A k \in DOMAIN dir.runs : dir.runs[k].id <= job'.ids /\ dir.runs[k].id < job'.ids
    <3>1. job.ids \in Nat /\ \A k \in DOMAIN dir.runs : dir.runs[k].id \in Nat /\ dir.runs[k].id <= job.ids
      BY Fields, Elements DEF OnDisk
    <3> QED BY <1>31, <3>1
  <2> QED BY <1>0, <1>31, <1>4, <2>1 DEF OnDisk
<1>11. Indexed'
  <2>1. \A i \in DOMAIN dir.raw : dir.raw[i].run <= job.ids
    BY IdsIndexed
  <2>2. \A i \in DOMAIN dir.raw : dir.raw[i].run < job'.ids
    <3>1. job.ids \in Nat /\ \A i \in DOMAIN dir.raw : dir.raw[i].run \in Nat
      BY Fields, Elements
    <3> QED BY <1>31, <2>1, <3>1
  <2> QED BY <1>0, <1>31, <1>4, <1>5, <2>2 DEF Indexed, Rows
<1>12. Episodes'
  BY <1>0, <1>31, <1>5, EpisodesStay DEF Training
<1>13. Counts'
  BY <1>0, <1>31, <1>4, <1>5, SameIndex DEF Counts
<1>14. Closed'
  BY <1>0, <1>31 DEF Closed
<1> QED BY <1>6, <1>7, <1>8, <1>9, <1>10, <1>11, <1>12, <1>13, <1>14

\* What is there is not missing.
LEMMA Present ==
    /\ \A m \in Manifests : m # Missing
    /\ \A r \in RunFile : r # Missing
    /\ \A b \in Benchmarks : b # Missing
    /\ \A f : [fitted |-> f] # Missing
<1>1. \A m \in Manifests : m # Missing
  BY DEF Manifests, Missing
<1>2. \A r \in RunFile : r # Missing
  BY DEF RunFile, Missing
<1>3. \A b \in Benchmarks : b # Missing
  BY DEF Benchmarks, Missing
<1>4. \A f : [fitted |-> f] # Missing
  BY DEF Missing
<1> QED BY <1>1, <1>2, <1>3, <1>4

LEMMA OpenStep ==
    ASSUME WInv, Open
    PROVE  WInv'
<1> USE DEF WInv
<1>1. /\ dir = EmptyDir /\ ValidSplits(catalog) /\ catalog' = catalog /\ catalog \in Catalogs
      /\ job' = [Idle EXCEPT !.pc = "train", !.ids = job.ids]
      /\ dir' = [dir EXCEPT !.manifest = [status |-> "running", controller |-> Missing,
                                          trained |-> 0, failures |-> 0, rows |-> {}]]
      /\ job.ids \in Nat
  BY Fields DEF Open, Typed
<1>2. /\ job'.pc = "train" /\ job'.ids = job.ids /\ job'.at = 1 /\ job'.held = Missing
      /\ job'.rows = <<>> /\ job'.runs = {} /\ job'.trained = 0 /\ job'.artifact = Missing
      /\ job'.stop = FALSE /\ job' \in Jobs
  <2>1. Idle \in Jobs
    <3>1. <<>> \in Seq(TransitionRow) /\ {} \in SUBSET RunFile
      OBVIOUS
    <3> QED BY <3>1 DEF Idle, Jobs, Controllers
  <2>2. \A k \in Nat : [Idle EXCEPT !.pc = "train", !.ids = k] \in Jobs
    BY <2>1 DEF Jobs
  <2> QED BY <1>1, <2>2 DEF Idle
<1>3. /\ dir'.manifest = [status |-> "running", controller |-> Missing,
                          trained |-> 0, failures |-> 0, rows |-> {}]
      /\ dir'.controller = Missing /\ dir'.benchmark = Missing /\ dir'.transitions = <<>>
      /\ dir'.raw = <<>> /\ dir'.runs = <<>> /\ dir'.torn = {}
      /\ DOMAIN dir' = DOMAIN EmptyDir
  BY <1>1 DEF EmptyDir
<1>4. dir' \in Directories
  <2>1. [status |-> "running", controller |-> Missing, trained |-> 0, failures |-> 0, rows |-> {}]
           \in Manifests
    BY DEF Manifests, Controllers
  <2>2. EmptyDir \in Directories
    BY DEF EmptyDir, Directories, Controllers
  <2>3. \A m \in Manifests : [dir EXCEPT !.manifest = m] \in Directories
    BY <1>1, <2>2 DEF Directories
  <2> QED BY <1>1, <2>1, <2>3
<1>5. /\ Training' /\ ~Evaluating' /\ Len(TrainPlan) \in Nat
      /\ TrainPlan' = TrainPlan /\ ValidSplits(catalog)'
  BY <1>1, <1>2, PlanStays, TrainPlanIs DEF Training, Evaluating
<1>6. DOMAIN <<>> = {} /\ Len(<<>>) = 0
  OBVIOUS
<1>7. dir'.manifest # Missing /\ dir'.manifest.controller = Missing
      /\ dir'.manifest.status = "running" /\ dir'.manifest.rows = {}
  <2>1. dir'.manifest \in Manifests
    BY <1>3 DEF Manifests, Controllers
  <2>2. dir'.manifest # Missing
    BY <2>1, Present, Zenon
  <2> QED BY <1>3, <2>2
<1>8. Typed'
  BY <1>1, <1>2, <1>4 DEF Typed
<1>9. Begun' /\ Held' /\ Pinned' /\ Closed'
  BY <1>2, <1>3, <1>5, <1>6, <1>7 DEF Begun, Held, Pinned, Closed
<1>10. OnDisk' /\ Episodes'
  BY <1>2, <1>3, <1>6 DEF OnDisk, Episodes
<1>11. Indexed'
  BY <1>2, <1>3, <1>6 DEF Indexed, Rows
<1>12. Counts'
  <2>1. IndexedRuns(dir.raw)' = {}
    BY <1>3, <1>6 DEF IndexedRuns
  <2> QED BY <1>2, <1>3, <1>5, <1>6, <2>1 DEF Counts
<1> QED BY <1>8, <1>9, <1>10, <1>11, <1>12

LEMMA SaveRunStep ==
    ASSUME WInv, SaveRun
    PROVE  WInv'
<1> USE DEF WInv
<1>0. /\ catalog' = catalog /\ catalog \in Catalogs /\ ValidSplits(catalog) /\ job.pc = "file"
      /\ dir' = [dir EXCEPT !.runs = Append(@, job.held)] /\ job' = [job EXCEPT !.pc = "index"]
      /\ job \in Jobs /\ dir \in Directories /\ job.held \in RunFile /\ job.held.id = job.ids
      /\ dir.runs \in Seq(RunFile)
  BY Fields DEF SaveRun, Typed, Held, Begun
<1>1. /\ job' \in Jobs /\ job'.pc = "index" /\ job'.ids = job.ids /\ job'.held = job.held
      /\ job'.at = job.at /\ job'.rows = job.rows /\ job'.runs = job.runs
      /\ job'.trained = job.trained /\ job'.artifact = job.artifact /\ job'.stop = job.stop
  BY <1>0 DEF Jobs
<1> DEFINE n == Len(dir.runs)
<1>2. /\ dir'.runs = Append(dir.runs, job.held)
      /\ dir'.runs \in Seq(RunFile) /\ n \in Nat /\ DOMAIN dir.runs = 1..n
      /\ DOMAIN dir'.runs = 1..(n + 1) /\ \A k \in 1..n : dir'.runs[k] = dir.runs[k]
      /\ dir'.runs[n + 1] = job.held
      /\ dir'.manifest = dir.manifest /\ dir'.controller = dir.controller
      /\ dir'.transitions = dir.transitions /\ dir'.raw = dir.raw /\ dir'.torn = dir.torn
      /\ dir'.benchmark = dir.benchmark /\ dir' \in Directories
  <2>1. dir'.runs = Append(dir.runs, job.held) /\ Append(dir.runs, job.held) \in Seq(RunFile)
    BY <1>0, Appended DEF Directories
  <2>2. \A s \in Seq(RunFile) : [dir EXCEPT !.runs = s] \in Directories
    BY <1>0 DEF Directories
  <2>3. dir' \in Directories
    BY <1>0, <2>1, <2>2
  <2>4. /\ dir'.manifest = dir.manifest /\ dir'.controller = dir.controller
        /\ dir'.transitions = dir.transitions /\ dir'.raw = dir.raw /\ dir'.torn = dir.torn
        /\ dir'.benchmark = dir.benchmark
    BY <1>0 DEF Directories
  <2> QED BY <1>0, <2>1, <2>3, <2>4, Appended
<1> HIDE DEF n
<1>3. \A k \in 1..(n + 1) : k \in 1..n \/ k = n + 1
  BY <1>2
<1>4. /\ Training' <=> Training
      /\ Evaluating' <=> Evaluating
  BY <1>0, <1>1 DEF Training, Evaluating
<1>5. /\ TrainPlan' = TrainPlan /\ EvalPlan' = EvalPlan
      /\ Tasks(TRUE)' = Tasks(TRUE) /\ Tasks(FALSE)' = Tasks(FALSE)
      /\ ValidSplits(catalog)' = ValidSplits(catalog)
  BY <1>0, PlanStays
<1>6. Typed'
  BY <1>0, <1>1, <1>2 DEF Typed
<1>7. Begun' /\ Held' /\ Closed'
  BY <1>0, <1>1, <1>2, <1>5 DEF Begun, Held, Closed
<1>8. Pinned'
  <2>1. job.held.phase = "evaluation" => Evaluating
    BY <1>0 DEF Evaluating
  <2>2. (\E k \in DOMAIN dir'.runs : dir'.runs[k].phase = "evaluation") =>
            Evaluating \/ \E k \in DOMAIN dir.runs : dir.runs[k].phase = "evaluation"
    BY <1>2, <1>3, <2>1
  <2> QED BY <1>0, <1>1, <1>2, <1>4, <2>2 DEF Pinned, Unsaved
<1>9. OnDisk'
  <2>1. job.held.phase = "evaluation" => job.held.task \in Tasks(FALSE) /\ job.held.by = job.artifact
    <3>1. ASSUME job.held.phase = "evaluation"
          PROVE  EvalPlan[job.at].task \in Tasks(FALSE) /\ EvalPlan[job.at].task = job.held.task
                 /\ job.held.by = job.artifact
      <4>1. job.at \in 1..Len(EvalPlan) /\ job.held.by = job.artifact
            /\ EvalPlan[job.at] = [task |-> job.held.task, policy |-> job.held.policy]
        BY <1>0, <3>1 DEF Held
      <4>2. EvalPlan[job.at] \in Pair
        BY <1>0, <4>1, EvalPlanIs
      <4>3. EvalPlan[job.at].task \in Tasks(FALSE)
        BY <4>2 DEF Pair
      <4>4. [task |-> job.held.task, policy |-> job.held.policy].task = job.held.task
        OBVIOUS
      <4> QED BY <4>1, <4>3, <4>4, Zenon
    <3> QED BY <3>1
  <2>2. job.ids \in Nat /\ \A k \in 1..n : dir.runs[k].id < job.ids /\ dir.runs[k].id \in Nat
    BY <1>0, <1>2, Fields, Elements DEF OnDisk
  <2>3. \A k, l \in DOMAIN dir'.runs : dir'.runs[k].id = dir'.runs[l].id => k = l
    BY <1>0, <1>2, <1>3, <2>2 DEF OnDisk
  <2>4. n + 1 \in DOMAIN dir'.runs
    BY <1>2
  <2>5. \A k \in DOMAIN dir'.runs : dir'.runs[k].id <= job'.ids
    BY <1>0, <1>1, <1>2, <1>3, <2>2
  <2>6. \A k \in DOMAIN dir'.runs : dir'.runs[k].phase = "evaluation" =>
            dir'.runs[k].task \in Tasks(FALSE)' /\ dir'.runs[k].by = job'.artifact
    <3> SUFFICES ASSUME NEW k \in DOMAIN dir'.runs, dir'.runs[k].phase = "evaluation"
                 PROVE  dir'.runs[k].task \in Tasks(FALSE) /\ dir'.runs[k].by = job.artifact
      BY <1>1, <1>5
    <3>1. CASE k \in 1..n
      <4>1. k \in DOMAIN dir.runs /\ dir'.runs[k] = dir.runs[k]
        BY <1>2, <3>1
      <4> QED BY <4>1 DEF OnDisk
    <3>2. CASE k = n + 1
      BY <1>2, <2>1, <3>2
    <3> QED BY <1>2, <1>3, <3>1, <3>2
  <2>7. \E k \in DOMAIN dir'.runs : dir'.runs[k] = job'.held
    BY <1>1, <1>2, <2>4
  <2>8. \A i \in DOMAIN dir'.transitions : dir'.transitions[i].task \in Tasks(TRUE)'
    BY <1>2, <1>5 DEF OnDisk
  <2> QED BY <1>1, <2>3, <2>5, <2>6, <2>7, <2>8 DEF OnDisk
<1>10. \A k \in DOMAIN dir.runs : k \in DOMAIN dir'.runs /\ dir'.runs[k] = dir.runs[k]
  BY <1>2
<1>11. Indexed'
  <2>1. \A i \in DOMAIN dir.raw : \E k \in DOMAIN dir'.runs : Row(dir'.runs[k]) = dir.raw[i]
    <3> SUFFICES ASSUME NEW i \in DOMAIN dir.raw
                 PROVE  \E k \in DOMAIN dir'.runs : Row(dir'.runs[k]) = dir.raw[i]
      OBVIOUS
    <3>1. PICK k \in DOMAIN dir.runs : Row(dir.runs[k]) = dir.raw[i]
      BY DEF Indexed
    <3> QED BY <1>10, <3>1, Zenon
  <2> QED BY <1>0, <1>1, <1>2, <1>4, <1>5, <2>1 DEF Indexed, Rows
<1>12. Episodes'
  <2>1. ASSUME NEW i \in DOMAIN dir.transitions PROVE dir.transitions[i].run # job.ids
    <3>1. PICK k \in DOMAIN dir.runs : dir.runs[k].id = dir.transitions[i].run
      BY DEF Episodes
    <3>2. job.ids \in Nat /\ dir.runs[k].id < job.ids
      BY <1>0, Fields DEF OnDisk
    <3> QED BY <3>1, <3>2
  <2> QED BY <1>0, <1>1, <1>2, <1>4, <1>10, <2>1, EpisodesStay
<1>13. Counts'
  <2>1. IndexedRuns(dir.raw)' = IndexedRuns(dir.raw)
    <3>1. \A i \in DOMAIN dir.raw : dir.raw[i].run # dir'.runs[n + 1].id
      BY <1>0, <1>2, Elements DEF Indexed
    <3>2. IndexedRuns(dir.raw)' \subseteq IndexedRuns(dir.raw)
      BY <1>2, <1>3, <3>1 DEF IndexedRuns, Rows
    <3>3. IndexedRuns(dir.raw) \subseteq IndexedRuns(dir.raw)'
      BY <1>2, <1>10 DEF IndexedRuns, Rows
    <3> QED BY <3>2, <3>3
  <2> QED BY <1>0, <1>1, <1>2, <1>4, <1>5, <2>1 DEF Counts
<1> QED BY <1>6, <1>7, <1>8, <1>9, <1>11, <1>12, <1>13

\* A step that records no episode, of a writer that is past its training.
LEMMA Quiet ==
    ASSUME WInv, catalog' = catalog, job.pc # "off",
           dir'.runs = dir.runs, dir'.raw = dir.raw, dir'.transitions = dir.transitions,
           job'.pc \in {"control", "freeze", "eval", "report", "close", "done", "dead"},
           job'.ids = job.ids, job'.artifact = job.artifact \/ job.artifact = Missing,
           job'.pc = "control" => job.pc = "train", job'.pc = "freeze" => job.pc = "control",
           job'.pc = "eval" => job.pc = "freeze"
    PROVE  /\ Held' /\ OnDisk' /\ Indexed' /\ Episodes' /\ ~Training'
           /\ Evaluating' <=> job'.pc = "eval"
           /\ IndexedRuns(dir.raw)' = IndexedRuns(dir.raw)
           /\ TrainPlan' = TrainPlan /\ EvalPlan' = EvalPlan
           /\ ValidSplits(catalog)' /\ Expected' = Expected
           /\ Len(TrainPlan) \in Nat /\ Len(EvalPlan) \in Nat
<1> USE DEF WInv
<1>1. ValidSplits(catalog) /\ catalog \in Catalogs
  BY DEF Begun, Typed
<1>2. /\ TrainPlan' = TrainPlan /\ EvalPlan' = EvalPlan
      /\ Tasks(TRUE)' = Tasks(TRUE) /\ Tasks(FALSE)' = Tasks(FALSE)
      /\ ValidSplits(catalog)' /\ Expected' = Expected
      /\ Len(TrainPlan) \in Nat /\ Len(EvalPlan) \in Nat
  BY <1>1, PlanStays, TrainPlanIs, EvalPlanIs
<1>3. ~Training' /\ (Evaluating' <=> job'.pc = "eval")
  BY DEF Training, Evaluating
<1>4. Held'
  BY DEF Held
<1>5. OnDisk'
  <2>1. \A k \in DOMAIN dir.runs : dir.runs[k].phase = "evaluation" => job'.artifact = job.artifact
    BY DEF Pinned
  <2>2. \A k \in DOMAIN dir.runs : dir.runs[k].phase = "evaluation" =>
            dir.runs[k].task \in Tasks(FALSE)' /\ dir.runs[k].by = job'.artifact
    BY <1>2, <2>1 DEF OnDisk
  <2> QED BY <1>2, <2>2 DEF OnDisk
<1>6. Indexed'
  <2>1. \A i \in DOMAIN dir.raw :
          IF dir.raw[i].phase = "train" THEN dir.raw[i].task \in Range(TrainPlan)
          ELSE /\ job'.pc \notin {"control", "freeze", "eval"}
               /\ \E m \in 1..Len(EvalPlan) : EvalPlan[m] = PairOf(dir.raw[i])
    <3> SUFFICES ASSUME NEW i \in DOMAIN dir.raw
                 PROVE  IF dir.raw[i].phase = "train" THEN dir.raw[i].task \in Range(TrainPlan)
                        ELSE /\ job'.pc \notin {"control", "freeze", "eval"}
                             /\ \E m \in 1..Len(EvalPlan) : EvalPlan[m] = PairOf(dir.raw[i])
      OBVIOUS
    <3>1. job.pc = "train" => Training
      BY DEF Training
    <3> QED BY <3>1 DEF Indexed
  <2> QED BY <1>2, <1>3, <2>1 DEF Indexed, Rows
<1>7. Episodes'
  BY <1>3, EpisodesStay
<1> QED BY <1>2, <1>3, <1>4, <1>5, <1>6, <1>7, SameIndex

LEMMA FitStep ==
    ASSUME WInv, Fit
    PROVE  WInv'
<1> USE DEF WInv
<1>0. /\ catalog' = catalog /\ catalog \in Catalogs /\ job.pc = "train" /\ Training
      /\ job \in Jobs /\ dir \in Directories /\ job.rows \in Seq(TransitionRow)
      /\ job.at > Len(TrainPlan)
      /\ job' = [job EXCEPT !.pc = "control", !.artifact = [fitted |-> job.rows]]
      /\ dir' = dir
  BY Fields DEF Fit, Typed, Training
<1>1. [fitted |-> job.rows] \in Controllers /\ [fitted |-> job.rows] # Missing
  BY <1>0, Present DEF Controllers
<1>2. /\ job' \in Jobs /\ job'.pc = "control" /\ job'.ids = job.ids /\ job'.rows = job.rows
      /\ job'.artifact = [fitted |-> job.rows]
      /\ job'.runs = job.runs /\ job'.trained = job.trained /\ job'.stop = job.stop
  <2>1. \A c \in Controllers : [job EXCEPT !.pc = "control", !.artifact = c] \in Jobs
    BY <1>0 DEF Jobs
  <2> QED BY <1>0, <1>1, <2>1 DEF Jobs
<1>4. job.artifact = Missing /\ job.rows = dir.transitions /\ dir.controller = Missing
  BY <1>0 DEF Pinned, Unsaved
<1>5. /\ Held' /\ OnDisk' /\ Indexed' /\ Episodes' /\ ~Training' /\ ~Evaluating'
      /\ IndexedRuns(dir.raw)' = IndexedRuns(dir.raw)
      /\ TrainPlan' = TrainPlan /\ EvalPlan' = EvalPlan /\ ValidSplits(catalog)'
      /\ Len(TrainPlan) \in Nat
  BY <1>0, <1>2, <1>4, Quiet
<1>6. Typed' /\ Begun'
  BY <1>0, <1>2, <1>5 DEF Typed, Begun
<1>7. Pinned'
  <2>1. Unsaved'
    BY <1>0, <1>2, <1>4 DEF Unsaved
  <2> QED BY <1>0, <1>1, <1>2, <1>4, <1>5, <2>1 DEF Pinned
<1>8. Counts'
  <2>1. ~job.stop => job.runs = IndexedRuns(dir.raw) /\ job.trained = Len(TrainPlan)
                     /\ Len(dir.raw) = Len(TrainPlan)
    BY <1>0, <1>5, Fields DEF Counts
  <2> QED BY <1>0, <1>2, <1>5, <2>1 DEF Counts
<1>9. Closed'
  BY <1>0, <1>2 DEF Closed
<1> QED BY <1>5, <1>6, <1>7, <1>8, <1>9

LEMMA SaveControllerStep ==
    ASSUME WInv, SaveController
    PROVE  WInv'
<1> USE DEF WInv
<1>0. /\ catalog' = catalog /\ catalog \in Catalogs /\ job.pc = "control"
      /\ job \in Jobs /\ dir \in Directories /\ job.artifact \in Controllers
      /\ job' = [job EXCEPT !.pc = "freeze"]
      /\ dir' = [dir EXCEPT !.controller = job.artifact]
  BY Fields DEF SaveController, Typed
<1>1. ~Training /\ ~Evaluating /\ job.artifact # Missing /\ dir.controller = Missing
  BY <1>0 DEF Training, Evaluating, Pinned
<1>2. /\ job' \in Jobs /\ job'.pc = "freeze" /\ job'.ids = job.ids /\ job'.rows = job.rows
      /\ job'.artifact = job.artifact
      /\ job'.runs = job.runs /\ job'.trained = job.trained /\ job'.stop = job.stop
  BY <1>0 DEF Jobs
<1>3. /\ dir' \in Directories /\ dir'.controller = job.artifact
      /\ dir'.manifest = dir.manifest /\ dir'.transitions = dir.transitions
      /\ dir'.raw = dir.raw /\ dir'.runs = dir.runs /\ dir'.benchmark = dir.benchmark
  <2>1. \A c \in Controllers : [dir EXCEPT !.controller = c] \in Directories
    BY <1>0 DEF Directories
  <2> QED BY <1>0, <2>1 DEF Directories
<1>5. /\ Held' /\ OnDisk' /\ Indexed' /\ Episodes' /\ ~Training' /\ ~Evaluating'
      /\ IndexedRuns(dir.raw)' = IndexedRuns(dir.raw)
      /\ TrainPlan' = TrainPlan /\ EvalPlan' = EvalPlan /\ ValidSplits(catalog)'
      /\ Len(TrainPlan) \in Nat
  BY <1>0, <1>2, <1>3, Quiet
<1>6. Typed' /\ Begun'
  BY <1>0, <1>2, <1>3, <1>5 DEF Typed, Begun
<1>7. Pinned'
  BY <1>0, <1>1, <1>2, <1>3, <1>5 DEF Pinned
<1>8. Counts'
  <2>1. ~job.stop => job.runs = IndexedRuns(dir.raw) /\ job.trained = Len(TrainPlan)
                     /\ Len(dir.raw) = Len(TrainPlan)
    BY <1>0, <1>1 DEF Counts
  <2> QED BY <1>2, <1>3, <1>5, <2>1 DEF Counts
<1>9. Closed'
  BY <1>0, <1>2, <1>3 DEF Closed
<1> QED BY <1>5, <1>6, <1>7, <1>8, <1>9

LEMMA FreezeStep ==
    ASSUME WInv, Freeze
    PROVE  WInv'
<1> USE DEF WInv
<1>0. /\ catalog' = catalog /\ catalog \in Catalogs /\ job.pc = "freeze"
      /\ job \in Jobs /\ dir \in Directories /\ job.artifact \in Controllers
      /\ job.trained \in Nat /\ job.failures \in Nat
      /\ job' = [job EXCEPT !.pc = "eval", !.at = 1]
      /\ dir' = [dir EXCEPT !.manifest = Manifest("running")]
  BY Fields DEF Freeze, Typed, Jobs
<1>1. /\ Manifest("running") \in Manifests /\ Manifest("running") # Missing
      /\ Manifest("running").status = "running" /\ Manifest("running").rows = {}
      /\ Manifest("running").controller = job.artifact
  <2>1. Manifest("running") = [status |-> "running", controller |-> job.artifact,
             trained |-> job.trained, failures |-> job.failures, rows |-> {}]
    BY DEF Manifest
  <2>2. Manifest("running") \in Manifests
    BY <1>0, <2>1 DEF Manifests
  <2> QED BY <2>1, <2>2, Present
<1>2. /\ job' \in Jobs /\ job'.pc = "eval" /\ job'.ids = job.ids /\ job'.rows = job.rows
      /\ job'.artifact = job.artifact /\ job'.at = 1
      /\ job'.runs = job.runs /\ job'.trained = job.trained /\ job'.stop = job.stop
  <2>1. \A k \in Nat \ {0} : [job EXCEPT !.pc = "eval", !.at = k] \in Jobs
    BY <1>0 DEF Jobs
  <2>2. 1 \in Nat \ {0} /\ job' = [job EXCEPT !.pc = "eval", !.at = 1]
    BY <1>0
  <2>3. job' \in Jobs
    BY <2>1, <2>2, Zenon
  <2> QED BY <1>0, <2>3 DEF Jobs
<1>3. /\ dir' \in Directories /\ dir'.manifest = Manifest("running")
      /\ dir'.controller = dir.controller /\ dir'.transitions = dir.transitions
      /\ dir'.raw = dir.raw /\ dir'.runs = dir.runs /\ dir'.benchmark = dir.benchmark
  <2> HIDE DEF Manifest
  <2>1. \A m \in Manifests : [dir EXCEPT !.manifest = m] \in Directories
    BY <1>0 DEF Directories
  <2> QED BY <1>0, <1>1, <2>1 DEF Directories
<1>4. job.artifact # Missing
  BY <1>0 DEF Pinned
<1>5. /\ Held' /\ OnDisk' /\ Indexed' /\ Episodes' /\ ~Training' /\ Evaluating'
      /\ IndexedRuns(dir.raw)' = IndexedRuns(dir.raw)
      /\ TrainPlan' = TrainPlan /\ EvalPlan' = EvalPlan /\ ValidSplits(catalog)'
      /\ Len(TrainPlan) \in Nat /\ Len(EvalPlan) \in Nat
  BY <1>0, <1>2, <1>3, Quiet
<1>6. Typed' /\ Begun'
  BY <1>0, <1>1, <1>2, <1>3, <1>5 DEF Typed, Begun
<1>7. Pinned'
  BY <1>0, <1>1, <1>2, <1>3, <1>4, <1>5 DEF Pinned, Unsaved
<1>8. Counts'
  <2>1. ~job.stop => job.runs = IndexedRuns(dir.raw) /\ job.trained = Len(TrainPlan)
                     /\ Len(dir.raw) = Len(TrainPlan)
    BY <1>0 DEF Counts, Training
  <2>2. Len(TrainPlan) = Len(TrainPlan) + 1 - 1 /\ 1 <= Len(EvalPlan) + 1
    BY <1>5
  <2> QED BY <1>2, <1>3, <1>5, <2>1, <2>2 DEF Counts
<1>9. Closed'
  BY <1>1, <1>2, <1>3 DEF Closed
<1> QED BY <1>5, <1>6, <1>7, <1>8, <1>9

LEMMA EvaluatedStep ==
    ASSUME WInv, Evaluated
    PROVE  WInv'
<1> USE DEF WInv
<1>0. /\ catalog' = catalog /\ catalog \in Catalogs /\ job.pc = "eval" /\ Evaluating
      /\ ~Training /\ job \in Jobs /\ dir \in Directories /\ job.at > Len(EvalPlan)
      /\ job.at \in Nat /\ job' = [job EXCEPT !.pc = "report"] /\ dir' = dir
  BY Fields DEF Evaluated, Typed, Evaluating, Training
<1>2. /\ job' \in Jobs /\ job'.pc = "report" /\ job'.ids = job.ids /\ job'.rows = job.rows
      /\ job'.artifact = job.artifact
      /\ job'.runs = job.runs /\ job'.trained = job.trained /\ job'.stop = job.stop
  BY <1>0 DEF Jobs
<1>5. /\ Held' /\ OnDisk' /\ Indexed' /\ Episodes' /\ ~Training' /\ ~Evaluating'
      /\ IndexedRuns(dir.raw)' = IndexedRuns(dir.raw)
      /\ TrainPlan' = TrainPlan /\ EvalPlan' = EvalPlan /\ ValidSplits(catalog)'
      /\ Len(TrainPlan) \in Nat /\ Len(EvalPlan) \in Nat
  BY <1>0, <1>2, Quiet
<1>6. Typed' /\ Begun' /\ Pinned' /\ Closed'
  BY <1>0, <1>2, <1>5 DEF Typed, Begun, Pinned, Closed
<1>8. Counts'
  <2>1. ~job.stop => job.runs = IndexedRuns(dir.raw) /\ job.trained = Len(TrainPlan)
                     /\ Len(dir.raw) = Len(TrainPlan) + job.at - 1 /\ job.at <= Len(EvalPlan) + 1
    BY <1>0 DEF Counts
  <2>2. ~job.stop => Len(dir.raw) = Len(TrainPlan) + Len(EvalPlan)
    BY <1>0, <1>5, <2>1
  <2> QED BY <1>0, <1>2, <1>5, <2>1, <2>2 DEF Counts
<1> QED BY <1>5, <1>6, <1>8

LEMMA OutcomeIs == Outcome \in {"complete", "partial"}
BY DEF Outcome

LEMMA SummariseStep ==
    ASSUME WInv, Summarise
    PROVE  WInv'
<1> USE DEF WInv
<1> DEFINE b == [status |-> Outcome, figures |-> Figures(job.runs)]
<1>0. /\ catalog' = catalog /\ catalog \in Catalogs /\ job.pc = "report"
      /\ ~Training /\ ~Evaluating /\ job \in Jobs /\ dir \in Directories
      /\ job' = [job EXCEPT !.pc = "close"] /\ dir' = [dir EXCEPT !.benchmark = b]
  BY Fields DEF Summarise, Typed, Evaluating, Training
<1>1. b \in Benchmarks /\ b # Missing /\ b.figures = Figures(job.runs)
  <2>1. b \in Benchmarks
    BY Fields, OutcomeIs DEF Benchmarks
  <2> QED BY <2>1, Present
<1> HIDE DEF b
<1>2. /\ job' \in Jobs /\ job'.pc = "close" /\ job'.ids = job.ids /\ job'.rows = job.rows
      /\ job'.artifact = job.artifact
      /\ job'.runs = job.runs /\ job'.trained = job.trained /\ job'.stop = job.stop
  BY <1>0 DEF Jobs
<1>3. /\ dir' \in Directories /\ dir'.benchmark = b /\ dir'.manifest = dir.manifest
      /\ dir'.controller = dir.controller /\ dir'.transitions = dir.transitions
      /\ dir'.raw = dir.raw /\ dir'.runs = dir.runs
  <2>1. \A x \in Benchmarks : [dir EXCEPT !.benchmark = x] \in Directories
    BY <1>0 DEF Directories
  <2> QED BY <1>0, <1>1, <2>1 DEF Directories
<1>5. /\ Held' /\ OnDisk' /\ Indexed' /\ Episodes' /\ ~Training' /\ ~Evaluating'
      /\ IndexedRuns(dir.raw)' = IndexedRuns(dir.raw)
      /\ TrainPlan' = TrainPlan /\ EvalPlan' = EvalPlan /\ ValidSplits(catalog)'
  BY <1>0, <1>2, <1>3, Quiet
<1>6. Typed' /\ Begun' /\ Pinned'
  BY <1>0, <1>2, <1>3, <1>5 DEF Typed, Begun, Pinned, Unsaved
<1>7. Counts'
  BY <1>0, <1>2, <1>3, <1>5 DEF Counts
<1>8. Closed'
  BY <1>0, <1>1, <1>2, <1>3 DEF Closed
<1> QED BY <1>5, <1>6, <1>7, <1>8

LEMMA CloseStep ==
    ASSUME WInv, Close
    PROVE  WInv'
<1> USE DEF WInv
<1>0. /\ catalog' = catalog /\ catalog \in Catalogs /\ job.pc = "close"
      /\ ~Training /\ ~Evaluating /\ job \in Jobs /\ dir \in Directories
      /\ job.artifact \in Controllers /\ job.trained \in Nat /\ job.failures \in Nat
      /\ Len(job.rows) \in Nat
      /\ job' = [job EXCEPT !.pc = "done"] /\ dir' = [dir EXCEPT !.manifest = Manifest(Outcome)]
  BY Fields DEF Close, Typed, Jobs, Evaluating, Training
<1>1. /\ Manifest(Outcome) \in Manifests /\ Manifest(Outcome) # Missing
      /\ Manifest(Outcome).controller = job.artifact
  <2>1. Manifest(Outcome) = [status |-> Outcome, controller |-> job.artifact,
             trained |-> job.trained, failures |-> job.failures, rows |-> {Len(job.rows)}]
    BY OutcomeIs DEF Manifest
  <2>2. Manifest(Outcome) \in Manifests
    BY <1>0, <2>1, OutcomeIs DEF Manifests
  <2>3. Manifest(Outcome) # Missing
    BY <2>2, Present, Zenon
  <2>4. [status |-> Outcome, controller |-> job.artifact, trained |-> job.trained,
         failures |-> job.failures, rows |-> {Len(job.rows)}].controller = job.artifact
    OBVIOUS
  <2> QED BY <2>1, <2>2, <2>3, <2>4, Zenon
<1>2. /\ job' \in Jobs /\ job'.pc = "done" /\ job'.ids = job.ids /\ job'.rows = job.rows
      /\ job'.artifact = job.artifact /\ job'.failures = job.failures
      /\ job'.runs = job.runs /\ job'.trained = job.trained /\ job'.stop = job.stop
  BY <1>0 DEF Jobs
<1>3. /\ dir' \in Directories /\ dir'.manifest = Manifest(Outcome)
      /\ dir'.controller = dir.controller /\ dir'.transitions = dir.transitions
      /\ dir'.raw = dir.raw /\ dir'.runs = dir.runs /\ dir'.benchmark = dir.benchmark
  <2>1. \A m \in Manifests : [dir EXCEPT !.manifest = m] \in Directories
    BY <1>0 DEF Directories
  <2> QED BY <1>0, <1>1, <2>1 DEF Directories
<1>5. /\ Held' /\ OnDisk' /\ Indexed' /\ Episodes' /\ ~Training' /\ ~Evaluating'
      /\ IndexedRuns(dir.raw)' = IndexedRuns(dir.raw)
      /\ TrainPlan' = TrainPlan /\ EvalPlan' = EvalPlan /\ ValidSplits(catalog)'
      /\ Expected' = Expected
  BY <1>0, <1>2, <1>3, Quiet
<1>6. Typed' /\ Begun'
  BY <1>0, <1>1, <1>2, <1>3, <1>5 DEF Typed, Begun
<1>7. Pinned'
  <2>1. (\E k \in DOMAIN dir.runs : dir.runs[k].phase = "evaluation") => job.artifact # Missing
    BY DEF Pinned
  <2> QED BY <1>0, <1>1, <1>2, <1>3, <1>5, <2>1 DEF Pinned, Unsaved
<1>8. Counts'
  BY <1>0, <1>2, <1>3, <1>5 DEF Counts
<1>9. Closed'
  <2>1. Outcome' = Outcome
    BY <1>2, <1>5 DEF Outcome
  <2>2. Manifest(Outcome)' = Manifest(Outcome)
    BY <1>2, <2>1 DEF Manifest
  <2> QED BY <1>0, <1>2, <1>3, <2>2 DEF Closed
<1> QED BY <1>5, <1>6, <1>7, <1>8, <1>9

\* The index row of the run that was just filed.
LEMMA RowGrows ==
    ASSUME WInv, job.pc = "index", catalog' = catalog,
           dir' = [dir EXCEPT !.raw = Append(@, Row(job.held))],
           job'.ids = job.ids, job'.held = job.held, job'.artifact = job.artifact,
           job'.pc \in {"train", "rows", "eval", "report"},
           job'.pc = "train" => job.held.phase = "train",
           job'.pc = "rows" => /\ job.held.phase = "train" /\ job.held.status = "completed"
                               /\ job'.at = job.at,
           job'.pc = "eval" => job.held.phase = "evaluation" /\ job'.at = job.at + 1
    PROVE  /\ Held' /\ OnDisk' /\ Indexed' /\ Episodes' /\ dir' \in Directories
           /\ dir'.manifest = dir.manifest /\ dir'.controller = dir.controller
           /\ dir'.benchmark = dir.benchmark /\ dir'.runs = dir.runs
           /\ dir'.transitions = dir.transitions /\ Len(dir'.raw) = Len(dir.raw) + 1
           /\ Training' <=> job'.pc \in {"train", "rows"}
           /\ Evaluating' <=> job'.pc = "eval"
           /\ IndexedRuns(dir.raw)' = IndexedRuns(dir.raw) \cup
                  (IF job.held.phase = "evaluation" THEN {job.held} ELSE {})
<1> USE DEF WInv
<1>0. /\ ValidSplits(catalog) /\ catalog \in Catalogs /\ dir \in Directories
      /\ job.held \in RunFile /\ job.held.id = job.ids /\ job.ids \in Nat
      /\ job.held.phase \in Phases /\ job.held.len \in Nat \ {0} /\ job.at \in Nat
  <2>1. job.held \in RunFile
    BY Fields DEF Held
  <2> QED BY <2>1, Fields DEF Begun, Typed, Held, RunFile
<1> DEFINE n == Len(dir.raw)
           row == Row(job.held)
<1>1. row \in IndexRow /\ row.run = job.ids /\ row.phase = job.held.phase
      /\ row.task = job.held.task /\ row.policy = job.held.policy
      /\ PairOf(row) = PairOf(job.held)
  BY <1>0 DEF Row, IndexRow, RunFile, PairOf
<1>2. /\ dir'.raw \in Seq(IndexRow) /\ n \in Nat /\ DOMAIN dir.raw = 1..n
      /\ DOMAIN dir'.raw = 1..(n + 1) /\ \A i \in 1..n : dir'.raw[i] = dir.raw[i]
      /\ dir'.raw[n + 1] = row /\ Len(dir'.raw) = n + 1
  <2>1. dir.raw \in Seq(IndexRow) /\ dir'.raw = Append(dir.raw, row)
    BY <1>0, Fields DEF Directories
  <2> HIDE DEF row
  <2> QED BY <1>1, <2>1, Appended
<1>3. /\ dir'.manifest = dir.manifest /\ dir'.controller = dir.controller
      /\ dir'.benchmark = dir.benchmark /\ dir'.runs = dir.runs
      /\ dir'.transitions = dir.transitions /\ dir' \in Directories
  <2>1. \A s \in Seq(IndexRow) : [dir EXCEPT !.raw = s] \in Directories
    BY <1>0 DEF Directories
  <2>2. dir' = [dir EXCEPT !.raw = dir'.raw]
    BY <1>0 DEF Directories
  <2>3. dir' \in Directories
    BY <1>2, <2>1, <2>2, Zenon
  <2> QED BY <1>0, <2>3 DEF Directories
<1> HIDE DEF n, row
<1>4. \A i \in 1..(n + 1) : i \in 1..n \/ i = n + 1
  BY <1>2
<1>5. /\ TrainPlan' = TrainPlan /\ EvalPlan' = EvalPlan
      /\ Tasks(TRUE)' = Tasks(TRUE) /\ Tasks(FALSE)' = Tasks(FALSE)
  BY PlanStays
<1>6. /\ Training' <=> job'.pc \in {"train", "rows"}
      /\ Evaluating' <=> job'.pc = "eval"
      /\ Training <=> job.held.phase = "train"
      /\ Evaluating <=> job.held.phase = "evaluation"
  BY DEF Training, Evaluating
<1>7. Held'
  BY <1>5 DEF Held
<1>8. OnDisk'
  <2>1. \A i \in DOMAIN dir.transitions : dir.transitions[i].task \in Tasks(TRUE)
    BY DEF OnDisk
  <2>2. \A k \in DOMAIN dir.runs :
          /\ dir.runs[k].id <= job.ids
          /\ dir.runs[k].phase = "evaluation" =>
                dir.runs[k].task \in Tasks(FALSE) /\ dir.runs[k].by = job.artifact
    BY DEF OnDisk
  <2>3. \A k, l \in DOMAIN dir.runs : dir.runs[k].id = dir.runs[l].id => k = l
    BY DEF OnDisk
  <2>4. (\E k \in DOMAIN dir.runs : dir.runs[k] = job.held) /\ job'.pc # "file"
    BY DEF OnDisk
  <2>5. \A i \in DOMAIN dir'.transitions : dir'.transitions[i].task \in Tasks(TRUE)'
    BY <1>3, <1>5, <2>1
  <2>6. \A k \in DOMAIN dir'.runs :
          /\ dir'.runs[k].id <= job'.ids
          /\ dir'.runs[k].phase = "evaluation" =>
                dir'.runs[k].task \in Tasks(FALSE)' /\ dir'.runs[k].by = job'.artifact
    BY <1>3, <1>5, <2>2, Zenon
  <2>7. \A k, l \in DOMAIN dir'.runs : dir'.runs[k].id = dir'.runs[l].id => k = l
    BY <1>3, <2>3
  <2>8. \E k \in DOMAIN dir'.runs : dir'.runs[k] = job'.held
    BY <1>3, <2>4, Zenon
  <2> QED BY <2>4, <2>5, <2>6, <2>7, <2>8, Zenon DEF OnDisk
<1>9. PICK here \in DOMAIN dir.runs : dir.runs[here] = job.held
  BY DEF OnDisk
<1>10. Indexed'
  <2>1. \A i \in DOMAIN dir'.raw : \E k \in DOMAIN dir'.runs : Row(dir'.runs[k]) = dir'.raw[i]
    <3> SUFFICES ASSUME NEW i \in DOMAIN dir'.raw
                 PROVE  \E k \in DOMAIN dir.runs : Row(dir.runs[k]) = dir'.raw[i]
      BY <1>3
    <3>1. CASE i \in 1..n
      BY <1>2, <3>1 DEF Indexed
    <3>2. CASE i = n + 1
      <4>1. Row(dir.runs[here]) = dir'.raw[i]
        BY <1>2, <1>9, <3>2 DEF row
      <4> QED BY <4>1
    <3> QED BY <1>2, <1>4, <3>1, <3>2
  <2>2. \A i, k \in DOMAIN dir'.raw : dir'.raw[i].run = dir'.raw[k].run => i = k
    <3>1. \A i \in 1..n : dir.raw[i].run # job.ids
      <4>1. \A i \in 1..n : dir.raw[i].run < job.ids /\ dir.raw[i].run \in Nat
        BY <1>2, Elements DEF Indexed
      <4> QED BY <1>0, <4>1
    <3>2. \A i, k \in 1..n : dir.raw[i].run = dir.raw[k].run => i = k
      BY <1>2 DEF Indexed
    <3> QED BY <1>1, <1>2, <1>4, <3>1, <3>2
  <2>3. ASSUME NEW i \in 1..n
        PROVE  IF dir.raw[i].phase = "train" THEN dir.raw[i].task \in Range(TrainPlan)
               ELSE /\ job.held.phase = "evaluation"
                    /\ \E m \in 1..Len(EvalPlan) :
                          EvalPlan[m] = PairOf(dir.raw[i]) /\ m < job.at
    BY <1>0, <1>2, <1>6 DEF Indexed, Phases
  <2>4. job.held.phase = "evaluation" =>
          job.at \in 1..Len(EvalPlan) /\ EvalPlan[job.at] = PairOf(row)
    BY <1>1 DEF Held, PairOf
  <2>5. \A i \in DOMAIN dir'.raw :
          IF dir'.raw[i].phase = "train" THEN dir'.raw[i].task \in Range(TrainPlan)'
          ELSE /\ ~Training' /\ job'.pc # "freeze"
               /\ \E m \in 1..Len(EvalPlan)' :
                     EvalPlan'[m] = PairOf(dir'.raw[i]) /\ (Evaluating' => m < job'.at)
    <3> SUFFICES ASSUME NEW i \in DOMAIN dir'.raw
                 PROVE  IF dir'.raw[i].phase = "train" THEN dir'.raw[i].task \in Range(TrainPlan)
                        ELSE /\ job.held.phase = "evaluation"
                             /\ \E m \in 1..Len(EvalPlan) :
                                   EvalPlan[m] = PairOf(dir'.raw[i]) /\ m <= job.at
      <4>1. Evaluating' => job'.at = job.at + 1
        BY <1>6
      <4>2. \A m \in 1..Len(EvalPlan) : m <= job.at /\ Evaluating' => m < job'.at
        BY <1>0, <4>1
      <4>3. job.held.phase = "evaluation" => ~Training' /\ job'.pc # "freeze"
        BY <1>6
      <4> QED BY <1>5, <4>2, <4>3
    <3>1. CASE i \in 1..n
      <4>1. dir'.raw[i] = dir.raw[i]
        BY <1>2, <3>1
      <4>2. CASE dir.raw[i].phase = "train"
        BY <2>3, <3>1, <4>1, <4>2
      <4>3. CASE dir.raw[i].phase # "train"
        <5>1. PICK m \in 1..Len(EvalPlan) : EvalPlan[m] = PairOf(dir.raw[i]) /\ m < job.at
          BY <2>3, <3>1, <4>3
        <5>2. m <= job.at
          BY <1>0, <5>1
        <5> QED BY <2>3, <3>1, <4>1, <4>3, <5>1, <5>2
      <4> QED BY <4>2, <4>3
    <3>2. CASE i = n + 1
      <4>1. dir'.raw[i] = row
        BY <1>2, <3>2
      <4>2. CASE job.held.phase = "train"
        <5>1. job.at \in 1..Len(TrainPlan) /\ job.held.task = TrainPlan[job.at]
          BY <4>2 DEF Held
        <5>2. job.held.task \in Range(TrainPlan)
          BY <1>0, <5>1, TrainPlanIs
        <5> QED BY <1>1, <4>1, <4>2, <5>2
      <4>3. CASE job.held.phase = "evaluation"
        <5>1. job.at <= job.at
          BY <1>0
        <5> QED BY <1>1, <2>4, <4>1, <4>3, <5>1
      <4> QED BY <1>0, <4>2, <4>3 DEF Phases
    <3> QED BY <1>2, <1>4, <3>1, <3>2
  <2>6. \A i, k \in Rows(dir'.raw, "evaluation") :
          PairOf(dir'.raw[i]) = PairOf(dir'.raw[k]) => i = k
    <3>1. \A i, k \in 1..n : dir.raw[i].phase = "evaluation" /\ dir.raw[k].phase = "evaluation"
                             /\ PairOf(dir.raw[i]) = PairOf(dir.raw[k]) => i = k
      BY <1>2 DEF Indexed, Rows
    <3>2. ASSUME NEW i \in 1..n, dir.raw[i].phase = "evaluation", row.phase = "evaluation"
          PROVE  PairOf(dir.raw[i]) # PairOf(row)
      <4>1. PICK m \in 1..Len(EvalPlan) : EvalPlan[m] = PairOf(dir.raw[i]) /\ m < job.at
        BY <2>3, <3>2
      <4>2. m # job.at /\ job.at \in 1..Len(EvalPlan) /\ EvalPlan[job.at] = PairOf(row)
        BY <1>0, <1>1, <2>4, <3>2, <4>1
      <4>3. EvalPlan[m] # EvalPlan[job.at]
        BY <1>0, <4>2, EvalPlanIs DEF IsInjective
      <4> QED BY <4>1, <4>2, <4>3
    <3> QED BY <1>2, <1>4, <3>1, <3>2 DEF Rows
  <2>7. job'.pc \notin {"file", "index"}
    OBVIOUS
  <2> QED BY <2>1, <2>2, <2>5, <2>6, <2>7 DEF Indexed
<1>11. Episodes'
  <2>1. Mine(dir.transitions, job.held.id) = {}
    BY <1>0 DEF Episodes, Mine
  <2>2. Begins(dir.transitions, job.held)
    <3>1. Cardinality({}) = 0
      BY FS_EmptySet
    <3> QED BY <1>0, <2>1, <3>1 DEF Begins
  <2> QED BY <1>3, <1>6, <2>2, EpisodesStay
<1>12. IndexedRuns(dir.raw)' = IndexedRuns(dir.raw) \cup
          (IF job.held.phase = "evaluation" THEN {job.held} ELSE {})
  <2> DEFINE named(k) == \E i \in 1..n : dir.raw[i].phase = "evaluation" /\ dir.raw[i].run = dir.runs[k].id
  <2>1. IndexedRuns(dir.raw) = {dir.runs[k] : k \in {k \in DOMAIN dir.runs : named(k)}}
    BY <1>2 DEF IndexedRuns, Rows
  <2>2. \A k \in DOMAIN dir.runs :
          (\E i \in Rows(dir'.raw, "evaluation") : dir'.raw[i].run = dir.runs[k].id)
            <=> named(k) \/ (job.held.phase = "evaluation" /\ dir.runs[k].id = job.ids)
    <3>1. \A i \in 1..n : i \in DOMAIN dir'.raw
      BY <1>2
    <3>2. n + 1 \in DOMAIN dir'.raw
      BY <1>2
    <3>3. \A k \in DOMAIN dir.runs :
            (\E i \in DOMAIN dir'.raw : dir'.raw[i].phase = "evaluation" /\ dir'.raw[i].run = dir.runs[k].id)
              <=> named(k) \/ (row.phase = "evaluation" /\ row.run = dir.runs[k].id)
      BY <1>2, <1>4, <3>1, <3>2
    <3> HIDE DEF named
    <3> QED BY <1>1, <3>3 DEF Rows
  <2>3. \A k \in DOMAIN dir.runs : dir.runs[k].id = job.ids <=> k = here
    BY <1>0, <1>9 DEF OnDisk
  <2> HIDE DEF named
  <2>4. IndexedRuns(dir.raw)' =
          {dir.runs[k] : k \in {k \in DOMAIN dir.runs :
              named(k) \/ (job.held.phase = "evaluation" /\ k = here)}}
    <3>1. IndexedRuns(dir.raw)' =
            {dir.runs[k] : k \in {k \in DOMAIN dir.runs :
                \E i \in Rows(dir'.raw, "evaluation") : dir'.raw[i].run = dir.runs[k].id}}
      BY <1>3 DEF IndexedRuns, Rows
    <3>2. {k \in DOMAIN dir.runs :
                \E i \in Rows(dir'.raw, "evaluation") : dir'.raw[i].run = dir.runs[k].id}
          = {k \in DOMAIN dir.runs : named(k) \/ (job.held.phase = "evaluation" /\ k = here)}
      BY <2>2, <2>3
    <3> QED BY <3>1, <3>2, Zenon
  <2> QED BY <1>9, <2>1, <2>4
<1> QED BY <1>2, <1>3, <1>6, <1>7, <1>8, <1>10, <1>11, <1>12 DEF n

\* The next transition of the episode that is being recorded.
LEMMA TransitionGrows ==
    ASSUME WInv, job.pc = "rows", catalog' = catalog,
           dir' = [dir EXCEPT !.transitions = Append(@, Transition)],
           job'.ids = job.ids, job'.held = job.held, job'.artifact = job.artifact,
           job'.pc \in {"train", "rows", "report"},
           job'.pc = "train" => Transition.terminal,
           job'.pc = "rows" => ~Transition.terminal /\ job'.at = job.at
    PROVE  /\ Held' /\ OnDisk' /\ Indexed' /\ Episodes' /\ dir' \in Directories
           /\ dir'.manifest = dir.manifest /\ dir'.controller = dir.controller
           /\ dir'.benchmark = dir.benchmark /\ dir'.runs = dir.runs /\ dir'.raw = dir.raw
           /\ dir'.transitions = Append(dir.transitions, Transition)
           /\ Training' <=> job'.pc \in {"train", "rows"}
           /\ ~Evaluating' /\ Transition \in TransitionRow
<1> USE DEF WInv
<1>0. /\ ValidSplits(catalog) /\ catalog \in Catalogs /\ dir \in Directories /\ Training
      /\ job.held \in RunFile /\ job.held.id = job.ids /\ job.ids \in Nat
      /\ job.held.phase = "train" /\ job.held.status = "completed"
      /\ job.held.len \in Nat \ {0} /\ job.rows = dir.transitions
      /\ job.held.task \in Task /\ job.held.task \in Tasks(TRUE)
  <2>1. job.held \in RunFile /\ job.held.phase = "train" /\ job.held.status = "completed"
    BY Fields DEF Held
  <2>2. Training /\ job.rows = dir.transitions
    BY DEF Training, Pinned
  <2>3. catalog \in Catalogs /\ ValidSplits(catalog)
    BY DEF Begun, Typed
  <2>4. job.held.task \in Tasks(TRUE)
    BY <2>1, <2>3, TrainPlanIs DEF Held
  <2> QED BY <2>1, <2>2, <2>3, <2>4, Fields DEF Typed, Held, RunFile
<1> DEFINE n == Len(dir.transitions)
           M == Mine(dir.transitions, job.held.id)
           c == Cardinality(M)
           T == Transition
<1>1. /\ T \in TransitionRow /\ T.run = job.held.id /\ T.task = job.held.task
      /\ T.terminal = (c + 1 = job.held.len)
  <2>1. T = [run |-> job.held.id, task |-> job.held.task, terminal |-> c + 1 = job.held.len]
    BY <1>0 DEF Transition, Mine
  <2>2. (c + 1 = job.held.len) \in BOOLEAN
    OBVIOUS
  <2> HIDE DEF c, T
  <2> QED BY <1>0, <2>1, <2>2 DEF TransitionRow
<1>2. /\ dir'.transitions \in Seq(TransitionRow) /\ n \in Nat /\ DOMAIN dir.transitions = 1..n
      /\ DOMAIN dir'.transitions = 1..(n + 1)
      /\ \A i \in 1..n : dir'.transitions[i] = dir.transitions[i]
      /\ dir'.transitions[n + 1] = T /\ Len(dir'.transitions) = n + 1
      /\ dir'.transitions = Append(dir.transitions, T)
  <2>1. dir.transitions \in Seq(TransitionRow) /\ dir'.transitions = Append(dir.transitions, T)
    BY <1>0, Fields DEF Directories
  <2> HIDE DEF T
  <2> QED BY <1>1, <2>1, Appended
<1>3. /\ dir'.manifest = dir.manifest /\ dir'.controller = dir.controller
      /\ dir'.benchmark = dir.benchmark /\ dir'.runs = dir.runs /\ dir'.raw = dir.raw
      /\ dir' \in Directories
  <2>1. \A s \in Seq(TransitionRow) : [dir EXCEPT !.transitions = s] \in Directories
    BY <1>0 DEF Directories
  <2>2. dir' = [dir EXCEPT !.transitions = dir'.transitions]
    BY <1>0 DEF Directories
  <2>3. dir' \in Directories
    BY <1>2, <2>1, <2>2, Zenon
  <2> QED BY <1>0, <2>3 DEF Directories
<1>4. \A i \in 1..(n + 1) : i \in 1..n \/ i = n + 1
  BY <1>2
<1>5. M \subseteq 1..n /\ IsFiniteSet(M) /\ c \in Nat
  <2>1. M \subseteq 1..n
    BY <1>2 DEF Mine
  <2>2. IsFiniteSet(1..n)
    <3> HIDE DEF n, T
    <3>1. n \in Int /\ 1 \in Int
      BY <1>2
    <3> QED BY <3>1, FS_Interval
  <2>3. IsFiniteSet(M)
    BY <2>1, <2>2, FS_Subset
  <2> QED BY <2>1, <2>3, FS_CardinalityType
<1> HIDE DEF n, T
<1>6. Mine(dir'.transitions, job.held.id) = M \cup {n + 1}
  BY <1>1, <1>2, <1>4 DEF Mine
<1>7. \A id : id # job.held.id => Mine(dir'.transitions, id) = Mine(dir.transitions, id)
  BY <1>1, <1>2, <1>4 DEF Mine
<1>8. Cardinality(M \cup {n + 1}) = c + 1
  <2>1. n + 1 \notin M
    BY <1>2, <1>5
  <2> HIDE DEF M
  <2> QED BY <1>5, <2>1, FS_AddElement
<1>9. c < job.held.len /\ \A j \in M : ~dir.transitions[j].terminal
  BY DEF Episodes, Begins
<1>10. \A j \in M : ~dir'.transitions[j].terminal
  BY <1>2, <1>5, <1>9
<1>11. T.terminal => Whole(dir'.transitions, job.held)
  <2> HIDE DEF M, c
  <2>1. \A j \in M : ~(M \cup {n + 1} \subseteq 1..j)
    BY <1>2, <1>5
  <2>2. M \cup {n + 1} \subseteq 1..(n + 1)
    BY <1>2, <1>5
  <2>3. ASSUME T.terminal PROVE Cardinality(M \cup {n + 1}) = job.held.len
    BY <1>1, <1>8, <2>3
  <2> QED BY <1>2, <1>6, <1>10, <2>1, <2>2, <2>3 DEF Whole
<1>12. ~T.terminal => Begins(dir'.transitions, job.held)
  <2> HIDE DEF M, c
  <2>1. ASSUME ~T.terminal PROVE Cardinality(M \cup {n + 1}) < job.held.len
    <3>1. c + 1 # job.held.len
      BY <1>1, <2>1, Zenon
    <3> QED BY <1>0, <1>5, <1>8, <1>9, <3>1
  <2> QED BY <1>2, <1>6, <1>10, <2>1 DEF Begins
<1>13. \A r : r.id # job.held.id /\ Whole(dir.transitions, r) => Whole(dir'.transitions, r)
  <2> SUFFICES ASSUME NEW r, r.id # job.held.id, Whole(dir.transitions, r)
               PROVE  Whole(dir'.transitions, r)
    OBVIOUS
  <2>1. Mine(dir'.transitions, r.id) = Mine(dir.transitions, r.id)
    BY <1>7
  <2>2. \A j \in Mine(dir.transitions, r.id) : dir'.transitions[j] = dir.transitions[j]
    BY <1>2 DEF Mine
  <2> QED BY <2>1, <2>2 DEF Whole
<1> HIDE DEF M, c
<1>14. /\ TrainPlan' = TrainPlan /\ EvalPlan' = EvalPlan
       /\ Tasks(TRUE)' = Tasks(TRUE) /\ Tasks(FALSE)' = Tasks(FALSE)
  BY PlanStays
<1>15. (Training' <=> job'.pc \in {"train", "rows"}) /\ ~Evaluating'
  BY DEF Training, Evaluating
<1>16. Held'
  BY <1>14 DEF Held
<1>17. PICK here \in DOMAIN dir.runs : dir.runs[here] = job.held
  BY DEF OnDisk
<1>18. OnDisk'
  <2>1. \A i \in DOMAIN dir'.transitions : dir'.transitions[i].task \in Tasks(TRUE)'
    <3>1. \A i \in 1..n : dir.transitions[i].task \in Tasks(TRUE)
      BY <1>2 DEF OnDisk
    <3>2. \A i \in 1..n : dir'.transitions[i].task \in Tasks(TRUE)
      BY <1>2, <3>1
    <3>3. dir'.transitions[n + 1].task \in Tasks(TRUE)
      BY <1>0, <1>1, <1>2
    <3> QED BY <1>2, <1>4, <1>14, <3>2, <3>3
  <2>2. \A k \in DOMAIN dir.runs :
          /\ dir.runs[k].id <= job.ids
          /\ dir.runs[k].phase = "evaluation" =>
                dir.runs[k].task \in Tasks(FALSE) /\ dir.runs[k].by = job.artifact
    BY DEF OnDisk
  <2>3. \A k, l \in DOMAIN dir.runs : dir.runs[k].id = dir.runs[l].id => k = l
    BY DEF OnDisk
  <2>4. \A k \in DOMAIN dir'.runs :
          /\ dir'.runs[k].id <= job'.ids
          /\ dir'.runs[k].phase = "evaluation" =>
                dir'.runs[k].task \in Tasks(FALSE)' /\ dir'.runs[k].by = job'.artifact
    <3>1. dir'.runs = dir.runs
      BY <1>3
    <3> QED BY <1>14, <2>2, <3>1
  <2>5. \A k, l \in DOMAIN dir'.runs : dir'.runs[k].id = dir'.runs[l].id => k = l
    BY <1>3, <2>3
  <2>6. (\E k \in DOMAIN dir'.runs : dir'.runs[k] = job'.held) /\ job'.pc # "file"
    BY <1>3, <1>17
  <2> QED BY <2>1, <2>4, <2>5, <2>6, Zenon DEF OnDisk
<1>19. Indexed'
  <2>1. \A i \in DOMAIN dir.raw : dir.raw[i].phase = "train" /\ dir.raw[i].task \in Range(TrainPlan)
    BY <1>0 DEF Indexed
  <2> QED BY <1>3, <1>14, <2>1 DEF Indexed, Rows
<1>20. Episodes'
  <2>1. ASSUME NEW i \in DOMAIN dir'.transitions
        PROVE  \E k \in DOMAIN dir.runs :
                  LET r == dir.runs[k]
                  IN /\ r.id = dir'.transitions[i].run /\ r.phase = "train"
                     /\ r.status = "completed"
                     /\ \/ Whole(dir'.transitions, r)
                        \/ /\ Begins(dir'.transitions, r)
                           /\ dir'.transitions[n + 1].run = r.id
                           /\ Training' => job'.pc = "rows" /\ r.id = job'.held.id
    <3>1. CASE dir'.transitions[i].run = job.held.id
      <4>1. CASE T.terminal
        BY <1>0, <1>11, <1>17, <3>1, <4>1
      <4>2. CASE ~T.terminal
        <5>1. Training' => job'.pc = "rows"
          BY <1>15, <4>2 DEF T
        <5> QED BY <1>0, <1>1, <1>2, <1>12, <1>17, <3>1, <4>2, <5>1
      <4> QED BY <4>1, <4>2
    <3>2. CASE dir'.transitions[i].run # job.held.id
      <4>1. i \in DOMAIN dir.transitions /\ dir'.transitions[i] = dir.transitions[i]
        BY <1>1, <1>2, <1>4, <3>2
      <4>2. PICK k \in DOMAIN dir.runs :
              LET r == dir.runs[k]
              IN /\ r.id = dir.transitions[i].run /\ r.phase = "train"
                 /\ r.status = "completed"
                 /\ \/ Whole(dir.transitions, r)
                    \/ r.id = job.held.id
        BY <1>0, <4>1 DEF Episodes
      <4>3. Whole(dir'.transitions, dir.runs[k])
        BY <1>13, <3>2, <4>1, <4>2
      <4> QED BY <4>1, <4>2, <4>3
    <3> QED BY <3>1, <3>2
  <2>2. job'.pc = "rows" => Begins(dir'.transitions, job'.held)
    BY <1>12 DEF T
  <2>3. job'.pc # "index"
    OBVIOUS
  <2> HIDE DEF Training
  <2> QED BY <1>2, <1>3, <2>1, <2>2, <2>3 DEF Episodes
<1> QED BY <1>1, <1>2, <1>3, <1>15, <1>16, <1>18, <1>19, <1>20 DEF T

Stages == {"off", "train", "file", "index", "rows", "control", "freeze", "eval", "report", "close",
           "done", "dead"}

\* What the steps below change of the writer's memory.
Became(pc, at, rows, runs, trained, failures, stop) ==
    job' = [job EXCEPT !.pc = pc, !.at = at, !.rows = rows, !.runs = runs,
                       !.trained = trained, !.failures = failures, !.stop = stop]

LEMMA JobIs ==
    ASSUME job \in Jobs, NEW pc \in Stages, NEW at \in Nat \ {0}, NEW rows \in Seq(TransitionRow),
           NEW runs \in SUBSET RunFile, NEW trained \in Nat, NEW failures \in Nat,
           NEW stop \in BOOLEAN, Became(pc, at, rows, runs, trained, failures, stop)
    PROVE  /\ job' \in Jobs /\ job'.pc = pc /\ job'.at = at /\ job'.rows = rows
           /\ job'.runs = runs /\ job'.trained = trained /\ job'.failures = failures
           /\ job'.stop = stop /\ job'.ids = job.ids /\ job'.held = job.held
           /\ job'.artifact = job.artifact
BY DEF Jobs, Stages, Became

LEMMA IndexRunStep ==
    ASSUME WInv, IndexRun
    PROVE  WInv'
<1> USE DEF WInv
<1>0. /\ catalog' = catalog /\ catalog \in Catalogs /\ ValidSplits(catalog) /\ job.pc = "index"
      /\ job \in Jobs /\ job.held \in RunFile /\ job.held.phase \in Phases
      /\ job.held.status \in Statuses
      /\ dir' = [dir EXCEPT !.raw = Append(@, Row(job.held))] /\ job' = Counted(job)
      /\ job.at \in Nat \ {0} /\ job.rows \in Seq(TransitionRow) /\ job.runs \in SUBSET RunFile
      /\ job.trained \in Nat /\ job.failures \in Nat /\ job.stop \in BOOLEAN
  <2>1. job.held \in RunFile
    BY Fields DEF IndexRun, Held
  <2> QED BY <2>1, Fields DEF IndexRun, Typed, Begun, Jobs, RunFile
<1>1. /\ Training <=> job.held.phase = "train"
      /\ Evaluating <=> job.held.phase = "evaluation"
  BY <1>0 DEF Training, Evaluating
<1>2. \/ /\ job.held.phase = "evaluation"
         /\ Became("eval", job.at + 1, job.rows, job.runs \cup {job.held}, job.trained,
                   job.failures, job.stop)
      \/ /\ job.held.phase = "evaluation"
         /\ Became("report", job.at, job.rows, job.runs \cup {job.held}, job.trained,
                   job.failures, TRUE)
      \/ /\ job.held.phase = "train" /\ job.held.status = "completed"
         /\ Became("rows", job.at, job.rows, job.runs, job.trained + 1, job.failures, job.stop)
      \/ /\ job.held.phase = "train"
         /\ Became("train", job.at + 1, job.rows, job.runs, job.trained + 1,
                   job.failures + 1, job.stop)
      \/ /\ job.held.phase = "train"
         /\ Became("report", job.at, job.rows, job.runs, job.trained + 1,
                   job.failures + 1, TRUE)
  <2>1. CASE job.held.phase = "evaluation" /\ job.held.status # "budget_exhausted"
    BY <1>0, <2>1 DEF Counted, GoOn, Became, Jobs
  <2>2. CASE job.held.phase = "evaluation" /\ job.held.status = "budget_exhausted"
    BY <1>0, <2>2 DEF Counted, GoOn, Became, Jobs
  <2>3. CASE job.held.phase = "train" /\ job.held.status = "completed"
    BY <1>0, <2>3 DEF Counted, GoOn, Became, Jobs
  <2>4. CASE job.held.phase = "train" /\ job.held.status = "failed"
    BY <1>0, <2>4 DEF Counted, GoOn, Became, Jobs
  <2>5. CASE job.held.phase = "train" /\ job.held.status = "budget_exhausted"
    BY <1>0, <2>5 DEF Counted, GoOn, Became, Jobs
  <2> QED BY <1>0, <2>1, <2>2, <2>3, <2>4, <2>5 DEF Phases, Statuses
<1>3. /\ job' \in Jobs /\ job'.ids = job.ids /\ job'.held = job.held
      /\ job'.artifact = job.artifact /\ job'.rows = job.rows
      /\ \/ /\ job.held.phase = "evaluation" /\ job'.runs = job.runs \cup {job.held}
            /\ job'.trained = job.trained
            /\ \/ job'.pc = "eval" /\ job'.at = job.at + 1 /\ job'.stop = job.stop
               \/ job'.pc = "report" /\ job'.stop = TRUE
         \/ /\ job.held.phase = "train" /\ job'.runs = job.runs /\ job'.trained = job.trained + 1
            /\ \/ /\ job'.pc = "rows" /\ job.held.status = "completed" /\ job'.at = job.at
                  /\ job'.stop = job.stop
               \/ job'.pc = "train" /\ job'.at = job.at + 1 /\ job'.stop = job.stop
               \/ job'.pc = "report" /\ job'.stop = TRUE
  <2>1. job.at + 1 \in Nat \ {0} /\ job.trained + 1 \in Nat /\ job.failures + 1 \in Nat
        /\ TRUE \in BOOLEAN /\ job.runs \cup {job.held} \in SUBSET RunFile
        /\ {"eval", "report", "rows", "train"} \subseteq Stages
    BY <1>0 DEF Stages
  <2>2. CASE /\ job.held.phase = "evaluation"
             /\ Became("eval", job.at + 1, job.rows, job.runs \cup {job.held}, job.trained,
                       job.failures, job.stop)
    BY <1>0, <2>1, <2>2, JobIs
  <2>3. CASE /\ job.held.phase = "evaluation"
             /\ Became("report", job.at, job.rows, job.runs \cup {job.held}, job.trained,
                       job.failures, TRUE)
    BY <1>0, <2>1, <2>3, JobIs
  <2>4. CASE /\ job.held.phase = "train" /\ job.held.status = "completed"
             /\ Became("rows", job.at, job.rows, job.runs, job.trained + 1, job.failures, job.stop)
    BY <1>0, <2>1, <2>4, JobIs
  <2>5. CASE /\ job.held.phase = "train"
             /\ Became("train", job.at + 1, job.rows, job.runs, job.trained + 1,
                       job.failures + 1, job.stop)
    BY <1>0, <2>1, <2>5, JobIs
  <2>6. CASE /\ job.held.phase = "train"
             /\ Became("report", job.at, job.rows, job.runs, job.trained + 1,
                       job.failures + 1, TRUE)
    BY <1>0, <2>1, <2>6, JobIs
  <2> QED BY <1>2, <2>2, <2>3, <2>4, <2>5, <2>6
<1>4. /\ Held' /\ OnDisk' /\ Indexed' /\ Episodes' /\ dir' \in Directories
      /\ dir'.manifest = dir.manifest /\ dir'.controller = dir.controller
      /\ dir'.benchmark = dir.benchmark /\ dir'.runs = dir.runs
      /\ dir'.transitions = dir.transitions /\ Len(dir'.raw) = Len(dir.raw) + 1
      /\ Training' <=> job'.pc \in {"train", "rows"}
      /\ Evaluating' <=> job'.pc = "eval"
      /\ IndexedRuns(dir.raw)' = IndexedRuns(dir.raw) \cup
             (IF job.held.phase = "evaluation" THEN {job.held} ELSE {})
  BY <1>0, <1>3, RowGrows
<1>5. /\ TrainPlan' = TrainPlan /\ EvalPlan' = EvalPlan /\ ValidSplits(catalog)'
      /\ Len(TrainPlan) \in Nat /\ Len(EvalPlan) \in Nat
  BY <1>0, PlanStays, TrainPlanIs, EvalPlanIs
<1>6. Typed' /\ Begun'
  BY <1>0, <1>3, <1>4, <1>5 DEF Typed, Begun
<1>7. Pinned'
  <2>1. (Training' => Training) /\ (Evaluating' => Evaluating) /\ (job'.pc # "freeze")
    BY <1>1, <1>3, <1>4
  <2>2. job.artifact # Missing => ~Training'
    BY <2>1 DEF Pinned
  <2> QED BY <1>0, <1>3, <1>4, <2>1, <2>2 DEF Pinned, Unsaved
<1>8. Closed'
  BY <1>0, <1>3, <1>4 DEF Closed
<1>9. Counts'
  <2> SUFFICES ASSUME ~job'.stop
               PROVE  /\ job'.runs = IndexedRuns(dir.raw)'
                      /\ Training' =>
                            /\ job'.at <= Len(TrainPlan) + 1 /\ Len(dir'.raw) = job'.trained
                            /\ job'.trained = IF job'.pc = "rows" THEN job'.at ELSE job'.at - 1
                      /\ ~Training' => job'.trained = Len(TrainPlan)
                      /\ Evaluating' =>
                            /\ job'.at <= Len(EvalPlan) + 1
                            /\ Len(dir'.raw) = Len(TrainPlan) + job'.at - 1
                      /\ job'.pc \in {"train", "rows", "eval"}
    BY <1>5 DEF Counts
  <2>1. Len(dir.raw) \in Nat
    BY Fields
  <2>2. CASE job.held.phase = "evaluation"
    <3>1. /\ job'.pc = "eval" /\ job'.at = job.at + 1 /\ ~job.stop
          /\ job'.runs = job.runs \cup {job.held} /\ job'.trained = job.trained
      BY <1>3, <2>2
    <3>2. /\ job.runs = IndexedRuns(dir.raw) /\ job.trained = Len(TrainPlan)
          /\ Len(dir.raw) = Len(TrainPlan) + job.at - 1
      BY <1>0, <1>1, <2>2, <3>1 DEF Counts
    <3>3. job.at \in 1..Len(EvalPlan)
      BY <1>0, <2>2 DEF Held
    <3>4. job'.at <= Len(EvalPlan) + 1
      BY <1>0, <1>5, <3>1, <3>3
    <3>5. Len(dir'.raw) = Len(TrainPlan) + job.at - 1 + 1
      BY <1>4, <3>2
    <3>6. Len(dir'.raw) = Len(TrainPlan) + job'.at - 1
      BY <1>0, <1>5, <3>1, <3>5
    <3> QED BY <1>4, <2>2, <3>1, <3>2, <3>4, <3>6
  <2>3. CASE job.held.phase = "train"
    <3>1. /\ job'.runs = job.runs /\ job'.trained = job.trained + 1 /\ ~job.stop
          /\ \/ job'.pc = "rows" /\ job'.at = job.at
             \/ job'.pc = "train" /\ job'.at = job.at + 1
      BY <1>3, <2>3
    <3>2. /\ job.runs = IndexedRuns(dir.raw) /\ Len(dir.raw) = job.trained
          /\ job.trained = job.at - 1
      BY <1>0, <1>1, <2>3, <3>1 DEF Counts
    <3>3. job.at \in 1..Len(TrainPlan)
      BY <1>0, <2>3 DEF Held
    <3>4. /\ job'.at <= Len(TrainPlan) + 1 /\ Len(dir'.raw) = job'.trained
          /\ job'.trained = IF job'.pc = "rows" THEN job'.at ELSE job'.at - 1
      BY <1>0, <1>4, <1>5, <2>1, <3>1, <3>2, <3>3
    <3> QED BY <1>4, <2>3, <3>1, <3>2, <3>4
  <2> QED BY <1>0, <2>2, <2>3 DEF Phases
<1> QED BY <1>4, <1>6, <1>7, <1>8, <1>9

LEMMA AppendRowStep ==
    ASSUME WInv, AppendRow
    PROVE  WInv'
<1> USE DEF WInv
<1>0. /\ catalog' = catalog /\ catalog \in Catalogs /\ ValidSplits(catalog) /\ job.pc = "rows"
      /\ job \in Jobs /\ Training /\ ~Evaluating
      /\ job.held.phase = "train" /\ job.held.status = "completed"
      /\ dir' = [dir EXCEPT !.transitions = Append(@, Transition)]
      /\ job.at \in Nat \ {0} /\ job.rows \in Seq(TransitionRow) /\ job.runs \in SUBSET RunFile
      /\ job.trained \in Nat /\ job.failures \in Nat /\ job.stop \in BOOLEAN
      /\ job.rows = dir.transitions /\ job.artifact = Missing
  <2>1. Training /\ ~Evaluating
    BY DEF AppendRow, Training, Evaluating
  <2>2. job.rows = dir.transitions /\ job.artifact = Missing
    BY <2>1 DEF Pinned
  <2> QED BY <2>1, <2>2, Fields DEF AppendRow, Typed, Begun, Held, Jobs
<1>1. Transition \in TransitionRow
  <2>1. job.held \in RunFile
    BY <1>0, Fields DEF Held
  <2>2. \A i : (i = job.held.len) \in BOOLEAN
    OBVIOUS
  <2> QED BY <2>1, <2>2 DEF Transition, TransitionRow, RunFile
<1> DEFINE rows == Append(job.rows, Transition)
<1>2. rows \in Seq(TransitionRow)
  <2> HIDE DEF Transition
  <2> QED BY <1>0, <1>1, Appended
<1>3. \/ /\ Transition.terminal
         /\ Became("train", job.at + 1, rows, job.runs, job.trained, job.failures, job.stop)
      \/ /\ ~Transition.terminal
         /\ Became("rows", job.at, rows, job.runs, job.trained, job.failures, job.stop)
  <2>1. job' = IF Transition.terminal THEN GoOn([job EXCEPT !.rows = rows])
               ELSE [job EXCEPT !.rows = rows]
    BY DEF AppendRow
  <2> HIDE DEF rows
  <2>2. GoOn([job EXCEPT !.rows = rows]) =
          [job EXCEPT !.pc = "train", !.at = job.at + 1, !.rows = rows, !.runs = job.runs,
                      !.trained = job.trained, !.failures = job.failures, !.stop = job.stop]
    BY <1>0 DEF GoOn, Jobs
  <2>3. [job EXCEPT !.rows = rows] =
          [job EXCEPT !.pc = "rows", !.at = job.at, !.rows = rows, !.runs = job.runs,
                      !.trained = job.trained, !.failures = job.failures, !.stop = job.stop]
    BY <1>0 DEF Jobs
  <2> QED BY <2>1, <2>2, <2>3 DEF Became
<1> HIDE DEF rows
<1>4. /\ job' \in Jobs /\ job'.ids = job.ids /\ job'.held = job.held
      /\ job'.artifact = job.artifact /\ job'.rows = rows /\ job'.runs = job.runs
      /\ job'.trained = job.trained /\ job'.stop = job.stop
      /\ \/ Transition.terminal /\ job'.pc = "train" /\ job'.at = job.at + 1
         \/ ~Transition.terminal /\ job'.pc = "rows" /\ job'.at = job.at
  <2>1. job.at + 1 \in Nat \ {0} /\ {"rows", "train"} \subseteq Stages
    BY <1>0 DEF Stages
  <2>2. CASE /\ Transition.terminal
             /\ Became("train", job.at + 1, rows, job.runs, job.trained, job.failures, job.stop)
    BY <1>0, <1>2, <2>1, <2>2, JobIs
  <2>3. CASE /\ ~Transition.terminal
             /\ Became("rows", job.at, rows, job.runs, job.trained, job.failures, job.stop)
    BY <1>0, <1>2, <2>1, <2>3, JobIs
  <2> QED BY <1>3, <2>2, <2>3
<1>5. /\ Held' /\ OnDisk' /\ Indexed' /\ Episodes' /\ dir' \in Directories
      /\ dir'.manifest = dir.manifest /\ dir'.controller = dir.controller
      /\ dir'.benchmark = dir.benchmark /\ dir'.runs = dir.runs /\ dir'.raw = dir.raw
      /\ dir'.transitions = Append(dir.transitions, Transition)
      /\ Training' <=> job'.pc \in {"train", "rows"}
      /\ ~Evaluating'
  BY <1>0, <1>4, TransitionGrows
<1>6. /\ TrainPlan' = TrainPlan /\ EvalPlan' = EvalPlan /\ ValidSplits(catalog)'
      /\ Len(TrainPlan) \in Nat
  BY <1>0, PlanStays, TrainPlanIs
<1>7. Typed' /\ Begun'
  BY <1>0, <1>4, <1>5, <1>6 DEF Typed, Begun
<1>8. Pinned'
  <2>1. job'.rows = dir'.transitions
    BY <1>0, <1>4, <1>5 DEF rows
  <2>2. job'.pc # "freeze"
    BY <1>4
  <2>3. \A k \in DOMAIN dir.runs : dir.runs[k].phase # "evaluation"
    BY <1>0 DEF Pinned
  <2> QED BY <1>0, <1>4, <1>5, <2>1, <2>2, <2>3 DEF Pinned, Unsaved
<1>9. Closed'
  BY <1>0, <1>4, <1>5 DEF Closed
<1>10. Counts'
  <2>1. IndexedRuns(dir.raw)' = IndexedRuns(dir.raw)
    BY <1>5, SameIndex
  <2>2. job.at \in 1..Len(TrainPlan)
    BY <1>0 DEF Held
  <2>3. Training'
    BY <1>4, <1>5
  <2>4. ASSUME ~job.stop
        PROVE  /\ job.runs = IndexedRuns(dir.raw) /\ Len(dir.raw) = job.trained
               /\ job.trained = job.at
    BY <1>0, <2>4 DEF Counts
  <2>5. job'.at <= Len(TrainPlan) + 1
    BY <1>4, <1>6, <2>2
  <2>6. job.at = IF job'.pc = "rows" THEN job'.at ELSE job'.at - 1
    BY <1>0, <1>4
  <2> QED BY <1>4, <1>5, <1>6, <2>1, <2>3, <2>4, <2>5, <2>6 DEF Counts
<1> QED BY <1>5, <1>7, <1>8, <1>9, <1>10

LEMMA RaisesStep ==
    ASSUME WInv, Raises
    PROVE  WInv'
<1> USE DEF WInv
<1> DEFINE rows == IF job.pc = "rows" THEN Append(job.rows, Transition) ELSE job.rows
<1>0. /\ catalog' = catalog /\ catalog \in Catalogs /\ ValidSplits(catalog)
      /\ job.pc \in {"train", "eval", "file", "index", "rows", "control", "freeze"}
      /\ job \in Jobs /\ job' = [job EXCEPT !.pc = "report", !.stop = TRUE, !.rows = rows]
      /\ job.rows \in Seq(TransitionRow)
  BY Fields DEF Raises, Typed, Begun
<1>1. rows \in Seq(TransitionRow)
  <2>1. CASE job.pc = "rows"
    <3>1. job.held \in RunFile
      BY <2>1, Fields DEF Held
    <3>2. \A i : (i = job.held.len) \in BOOLEAN
      OBVIOUS
    <3>3. Transition \in TransitionRow
      BY <3>1, <3>2 DEF Transition, TransitionRow, RunFile
    <3> HIDE DEF Transition
    <3>4. Append(job.rows, Transition) \in Seq(TransitionRow)
      BY <1>0, <3>3, Appended
    <3> QED BY <2>1, <3>4
  <2>2. CASE job.pc # "rows"
    BY <1>0, <2>2
  <2> QED BY <2>1, <2>2
<1> HIDE DEF rows
<1>2. /\ job' \in Jobs /\ job'.pc = "report" /\ job'.ids = job.ids /\ job'.held = job.held
      /\ job'.artifact = job.artifact /\ job'.runs = job.runs /\ job'.stop = TRUE
  <2>1. \A q \in Seq(TransitionRow) :
          [job EXCEPT !.pc = "report", !.stop = TRUE, !.rows = q] \in Jobs
    BY <1>0 DEF Jobs
  <2>2. job' \in Jobs
    BY <1>0, <1>1, <2>1, Zenon
  <2> QED BY <1>0, <2>2 DEF Jobs
<1>3. /\ Held' /\ OnDisk' /\ Indexed' /\ Episodes' /\ ~Training' /\ ~Evaluating'
      /\ dir' \in Directories
      /\ dir'.manifest = dir.manifest /\ dir'.controller = dir.controller
      /\ dir'.benchmark = dir.benchmark /\ dir'.runs = dir.runs
      /\ job.artifact # Missing => dir'.transitions = dir.transitions
  <2>1. CASE dir' = dir
    <3>1. /\ Held' /\ OnDisk' /\ Indexed' /\ Episodes' /\ ~Training' /\ ~Evaluating'
      BY <1>0, <1>2, <2>1, Quiet
    <3> QED BY <2>1, <3>1 DEF Typed
  <2>2. CASE job.pc = "index" /\ dir' = [dir EXCEPT !.raw = Append(@, Row(job.held))]
    BY <1>0, <1>2, <2>2, RowGrows
  <2>4. CASE \E s \in {"index", "rows"} : dir' = [dir EXCEPT !.torn = @ \cup {s}]
    <3>1. /\ dir' \in Directories
          /\ dir'.manifest = dir.manifest /\ dir'.controller = dir.controller
          /\ dir'.benchmark = dir.benchmark /\ dir'.runs = dir.runs
          /\ dir'.transitions = dir.transitions /\ dir'.raw = dir.raw
      BY <2>4 DEF Typed, Directories
    <3>2. /\ Held' /\ OnDisk' /\ Indexed' /\ Episodes' /\ ~Training' /\ ~Evaluating'
      BY <1>0, <1>2, <3>1, Quiet
    <3> QED BY <3>1, <3>2
  <2>3. CASE job.pc = "rows" /\ dir' = [dir EXCEPT !.transitions = Append(@, Transition)]
    <3>1. job.artifact = Missing
      BY <2>3 DEF Pinned, Training
    <3> QED BY <1>0, <1>2, <2>3, <3>1, TransitionGrows
  <2> QED BY <2>1, <2>2, <2>3, <2>4 DEF Raises
<1>4. TrainPlan' = TrainPlan /\ EvalPlan' = EvalPlan /\ ValidSplits(catalog)'
  BY <1>0, PlanStays
<1>5. Typed' /\ Begun'
  BY <1>0, <1>2, <1>3, <1>4 DEF Typed, Begun
<1>6. Pinned'
  <2>1. dir.controller = job.artifact \/ (job.pc = "control" /\ dir.controller = Missing)
    BY <1>0 DEF Pinned, Unsaved
  <2>2. dir'.controller = job'.artifact \/ Unsaved'
    BY <1>2, <1>3, <2>1 DEF Unsaved
  <2>3. job.pc # "done"
    BY <1>0
  <2> QED BY <1>2, <1>3, <2>2, <2>3 DEF Pinned
<1>7. Counts'
  BY <1>2 DEF Counts
<1>8. Closed'
  BY <1>0, <1>2, <1>3 DEF Closed
<1> QED BY <1>3, <1>5, <1>6, <1>7, <1>8

LEMMA DiesStep ==
    ASSUME WInv, Dies
    PROVE  WInv'
<1> USE DEF WInv
<1>0. /\ catalog' = catalog /\ catalog \in Catalogs /\ job.pc \notin {"off", "dead", "done"}
      /\ job \in Jobs /\ dir \in Directories /\ job' = [job EXCEPT !.pc = "dead"]
  BY DEF Dies, Typed
<1>1. /\ job' \in Jobs /\ job'.pc = "dead" /\ job'.ids = job.ids
      /\ job'.artifact = job.artifact /\ job'.runs = job.runs
  BY <1>0 DEF Jobs
<1>2. /\ dir' \in Directories
      /\ dir'.manifest = dir.manifest /\ dir'.controller = dir.controller
      /\ dir'.benchmark = dir.benchmark /\ dir'.runs = dir.runs
      /\ dir'.transitions = dir.transitions /\ dir'.raw = dir.raw
  BY <1>0 DEF Dies, Directories
<1>3. /\ Held' /\ OnDisk' /\ Indexed' /\ Episodes' /\ ~Training' /\ ~Evaluating'
      /\ ValidSplits(catalog)'
  BY <1>0, <1>1, <1>2, Quiet
<1>4. Typed' /\ Begun'
  BY <1>0, <1>1, <1>2, <1>3 DEF Typed, Begun
<1>5. Pinned' /\ Counts' /\ Closed'
  BY <1>0, <1>1, <1>2, <1>3 DEF Pinned, Unsaved, Counts, Closed
<1> QED BY <1>3, <1>4, <1>5

Writes ==
    \/ Open \/ TrainEpisode \/ EvalEpisode \/ SaveRun \/ IndexRun \/ AppendRow
    \/ Fit \/ SaveController \/ Freeze \/ Evaluated \/ Summarise \/ Close \/ Raises \/ Dies
Reads == LookUp \/ CheckController \/ ReadIndex \/ Aggregate \/ OpenAudit \/ FitTransfer

LEMMA WriterStays ==
    ASSUME WInv, UNCHANGED <<catalog, dir, job>>
    PROVE  WInv'
<1> USE DEF WInv
<1>1. /\ catalog' = catalog /\ dir' = dir /\ job' = job
      /\ TrainPlan' = TrainPlan /\ EvalPlan' = EvalPlan
      /\ Tasks(TRUE)' = Tasks(TRUE) /\ Tasks(FALSE)' = Tasks(FALSE)
      /\ ValidSplits(catalog)' = ValidSplits(catalog) /\ Expected' = Expected
  BY PlanStays
<1>2. /\ Training' <=> Training
      /\ Evaluating' <=> Evaluating
      /\ IndexedRuns(dir.raw)' = IndexedRuns(dir.raw)
  BY <1>1, SameIndex DEF Training, Evaluating
<1>3. Typed' /\ Begun' /\ Held' /\ Pinned'
  BY <1>1, <1>2 DEF Typed, Begun, Held, Pinned, Unsaved
<1>4. OnDisk'
  BY <1>1 DEF OnDisk
<1>5. Indexed'
  BY <1>1, <1>2 DEF Indexed, Rows
<1>6. Episodes'
  BY <1>1, <1>2 DEF Episodes
<1>7. Counts'
  BY <1>1, <1>2 DEF Counts
<1>8. Closed'
  <2>1. Manifest(Outcome)' = Manifest(Outcome)
    BY <1>1 DEF Manifest, Outcome
  <2> QED BY <1>1, <2>1 DEF Closed
<1> QED BY <1>3, <1>4, <1>5, <1>6, <1>7, <1>8

LEMMA WriterStep ==
    ASSUME WInv, Writes \/ Reads \/ UNCHANGED svars
    PROVE  WInv'
<1>1. CASE Writes
  BY <1>1, OpenStep, EpisodeStep, SaveRunStep, IndexRunStep, AppendRowStep, FitStep, SaveControllerStep, FreezeStep,
     EvaluatedStep, SummariseStep, CloseStep, RaisesStep, DiesStep DEF Writes
<1>2. CASE Reads \/ UNCHANGED svars
  <2>1. UNCHANGED <<catalog, dir, job>>
    BY <1>2 DEF Reads, LookUp, CheckController, ReadIndex, Aggregate, OpenAudit, FitTransfer, svars
  <2> QED BY <2>1, WriterStays
<1> QED BY <1>1, <1>2

\* What the writer may do to a directory that is being read.
LEMMA Grows ==
    ASSUME WInv, Writes
    PROVE  /\ job.pc = "done" => FALSE
           /\ dir.torn \subseteq dir'.torn
           /\ \A k \in DOMAIN dir.runs : k \in DOMAIN dir'.runs /\ dir'.runs[k] = dir.runs[k]
           /\ \A i \in DOMAIN dir.raw : i \in DOMAIN dir'.raw /\ dir'.raw[i] = dir.raw[i]
           /\ dir.controller # Missing => dir'.controller = dir.controller
           /\ look' = look
<1> USE DEF WInv
<1>0. job \in Jobs /\ dir \in Directories
  BY DEF Typed
<1>1. look' = look /\ job.pc # "done"
  BY DEF Writes, Open, TrainEpisode, EvalEpisode, Episode, SaveRun, IndexRun, AppendRow, Fit, SaveController,
         Freeze, Evaluated, Summarise, Close, Raises, Dies
<1>2. \/ dir' = dir
      \/ dir = EmptyDir /\ \E m \in Manifests : dir' = [EmptyDir EXCEPT !.manifest = m]
      \/ \E r \in RunFile : dir' = [dir EXCEPT !.runs = Append(@, r)]
      \/ \E r \in IndexRow : dir' = [dir EXCEPT !.raw = Append(@, r)]
      \/ \E t : dir' = [dir EXCEPT !.transitions = t]
      \/ dir.controller = Missing /\ \E c : dir' = [dir EXCEPT !.controller = c]
      \/ \E m : dir' = [dir EXCEPT !.manifest = m]
      \/ \E b : dir' = [dir EXCEPT !.benchmark = b]
      \/ \E t \in SUBSET {"index", "rows"} : dir' = [dir EXCEPT !.torn = @ \cup t]
  <2>1. CASE Open
    <3>1. [status |-> "running", controller |-> Missing, trained |-> 0, failures |-> 0, rows |-> {}]
             \in Manifests
      BY DEF Manifests, Controllers
    <3> QED BY <2>1, <3>1 DEF Open
  <2>2. CASE TrainEpisode \/ EvalEpisode \/ Fit \/ Evaluated
    BY <2>2 DEF TrainEpisode, EvalEpisode, Episode, Fit, Evaluated
  <2>3. CASE SaveRun
    <3>1. job.held \in RunFile
      BY <2>3, Fields DEF SaveRun, Held
    <3> QED BY <2>3, <3>1 DEF SaveRun
  <2>4. job.held \in RunFile => Row(job.held) \in IndexRow
    BY DEF Row, RunFile, IndexRow
  <2>5. job.pc = "index" => job.held \in RunFile
    BY Fields DEF Held
  <2>6. CASE IndexRun
    BY <2>4, <2>5, <2>6 DEF IndexRun
  <2>7. CASE AppendRow
    <3>1. dir' = [dir EXCEPT !.transitions = Append(dir.transitions, Transition)]
      BY <2>7 DEF AppendRow
    <3> QED BY <3>1, Zenon
  <2>8. CASE SaveController
    <3>1. dir.controller = Missing /\ dir' = [dir EXCEPT !.controller = job.artifact]
      BY <2>8 DEF SaveController, Pinned
    <3> QED BY <3>1, Zenon
  <2>9. CASE Freeze
    <3>1. dir' = [dir EXCEPT !.manifest = Manifest("running")]
      BY <2>9 DEF Freeze
    <3> QED BY <3>1, Zenon
  <2>10. CASE Close
    <3>1. dir' = [dir EXCEPT !.manifest = Manifest(Outcome)]
      BY <2>10 DEF Close
    <3> QED BY <3>1, Zenon
  <2>11. CASE Summarise
    <3>1. dir' = [dir EXCEPT !.benchmark = [status |-> Outcome, figures |-> Figures(job.runs)]]
      BY <2>11 DEF Summarise
    <3> QED BY <3>1, Zenon
  <2>12. CASE Raises
    <3>1. \/ dir' = dir
          \/ job.pc = "index" /\ dir' = [dir EXCEPT !.raw = Append(@, Row(job.held))]
          \/ dir' = [dir EXCEPT !.transitions = Append(dir.transitions, Transition)]
          \/ \E t \in SUBSET {"index", "rows"} : dir' = [dir EXCEPT !.torn = @ \cup t]
      <4>1. job.pc \in {"index", "rows"} => {job.pc} \in SUBSET {"index", "rows"}
        OBVIOUS
      <4> QED BY <2>12, <4>1, Zenon DEF Raises
    <3> QED BY <2>4, <2>5, <3>1, Zenon
  <2>13. CASE Dies
    <3>1. job.pc \in {"index", "rows"} => {job.pc} \in SUBSET {"index", "rows"}
      OBVIOUS
    <3> QED BY <2>13, <3>1, Zenon DEF Dies
  <2> QED BY <2>1, <2>2, <2>3, <2>6, <2>7, <2>8, <2>9, <2>10, <2>11, <2>12, <2>13 DEF Writes
<1>3. CASE dir = EmptyDir /\ \E m \in Manifests : dir' = [EmptyDir EXCEPT !.manifest = m]
  <2>1. dir.runs = <<>> /\ dir.raw = <<>> /\ dir.controller = Missing /\ dir.torn = {}
    BY <1>3 DEF EmptyDir
  <2> QED BY <1>1, <2>1
<1>4. CASE \E r \in RunFile : dir' = [dir EXCEPT !.runs = Append(@, r)]
  <2>1. PICK r \in RunFile : dir'.runs = Append(dir.runs, r)
    BY <1>0, <1>4 DEF Directories
  <2>2. \A k \in DOMAIN dir.runs : k \in DOMAIN dir'.runs /\ dir'.runs[k] = dir.runs[k]
    BY <2>1, Fields, Appended
  <2> QED BY <1>0, <1>1, <1>4, <2>2 DEF Directories
<1>5. CASE \E r \in IndexRow : dir' = [dir EXCEPT !.raw = Append(@, r)]
  <2>1. PICK r \in IndexRow : dir'.raw = Append(dir.raw, r)
    BY <1>0, <1>5 DEF Directories
  <2>2. \A k \in DOMAIN dir.raw : k \in DOMAIN dir'.raw /\ dir'.raw[k] = dir.raw[k]
    BY <2>1, Fields, Appended
  <2> QED BY <1>0, <1>1, <1>5, <2>2 DEF Directories
<1>6. CASE dir.controller = Missing /\ \E c : dir' = [dir EXCEPT !.controller = c]
  BY <1>0, <1>1, <1>6 DEF Directories
<1>7. CASE \/ dir' = dir \/ \E t : dir' = [dir EXCEPT !.transitions = t]
           \/ \E m : dir' = [dir EXCEPT !.manifest = m]
           \/ \E b : dir' = [dir EXCEPT !.benchmark = b]
           \/ \E t \in SUBSET {"index", "rows"} : dir' = [dir EXCEPT !.torn = @ \cup t]
  BY <1>0, <1>1, <1>7 DEF Directories
<1> QED BY <1>2, <1>3, <1>4, <1>5, <1>6, <1>7

Fits(rows, i, r) ==
    r.id = rows[i].run /\ r.phase = "train" /\ r.status = "completed" /\ Whole(rows, r)

LEMMA ReadersKept ==
    ASSUME WInv, RInv, Writes
    PROVE  RInv'
<1> USE DEF RInv
<1>1. /\ look' = look /\ job.pc # "done" /\ dir.torn \subseteq dir'.torn /\ ~PinsNoFile
      /\ \A k \in DOMAIN dir.runs : k \in DOMAIN dir'.runs /\ dir'.runs[k] = dir.runs[k]
      /\ \A i \in DOMAIN dir.raw : i \in DOMAIN dir'.raw /\ dir'.raw[i] = dir.raw[i]
      /\ dir.controller # Missing => dir'.controller = dir.controller
  BY Grows DEF PinsNoFile
<1>2. LookTyped' /\ RefusedForCut' /\ CompleteIsTrue'
  BY <1>1 DEF LookTyped, RefusedForCut, CompleteIsTrue
<1>3. Reading'
  <2>1. look.pc \in {"controller", "index", "runs", "rows"} =>
          look.manifest \in Manifests /\ ~IsFinal(look.manifest)
    BY <1>1 DEF Reading
  <2>2. look.pc = "controller" => look.manifest.controller \in {Missing, dir'.controller}
    BY <1>1 DEF Reading
  <2>3. look.pc = "runs" =>
          /\ look.raw \in Seq(IndexRow) /\ DOMAIN look.raw \subseteq DOMAIN dir'.raw
          /\ \A i \in DOMAIN look.raw : look.raw[i] = dir'.raw[i]
    BY <1>1 DEF Reading
  <2>4. IsFinal(look.manifest)' <=> IsFinal(look.manifest)
    BY <1>1 DEF IsFinal
  <2> QED BY <1>1, <2>1, <2>2, <2>3, <2>4 DEF Reading
<1>4. FittedWhole'
  <2> SUFFICES ASSUME look.pc = "over", look.report.status = "fitted", NEW i \in DOMAIN look.raw
               PROVE  \E k \in DOMAIN dir'.runs : Fits(look.raw, i, dir'.runs[k])
    <3>1. look'.pc = look.pc /\ look'.report = look.report /\ look'.raw = look.raw
      BY <1>1
    <3>2. FittedWhole' <=> (look'.pc = "over" /\ look'.report.status = "fitted" =>
             \A i \in DOMAIN look'.raw : \E k \in DOMAIN dir'.runs : Fits(look'.raw, i, dir'.runs[k]))
      BY DEF FittedWhole, Fits, Whole, Mine
    <3> QED BY <3>1, <3>2
  <2>1. PICK k \in DOMAIN dir.runs : Fits(look.raw, i, dir.runs[k])
    BY DEF FittedWhole, Fits, Whole, Mine
  <2> QED BY <1>1, <2>1
<1> QED BY <1>2, <1>3, <1>4

\* What a finished study's directory says of it.
LEMMA Finished ==
    ASSUME WInv, IsFinal(dir.manifest), dir.manifest # Missing
    PROVE  job.pc = "done" /\ dir.manifest = Manifest(Outcome)
BY DEF WInv, Closed, IsFinal

LEMMA LookUpStep ==
    ASSUME WInv, RInv, LookUp \/ OpenAudit
    PROVE  RInv'
<1> USE DEF WInv, RInv
<1>1. /\ UNCHANGED <<catalog, dir, job>> /\ dir.manifest \in Manifests
      /\ look'.manifest = dir.manifest /\ look'.pc \in {"controller", "rows"}
      /\ DOMAIN look' = {"pc", "manifest", "raw", "report"}
  BY Fields DEF LookUp, OpenAudit, Asleep
<1>2. IsFinal(dir.manifest) => job.pc = "done"
  BY <1>1, Finished, Present
<1>3. dir.manifest.controller \in {Missing, dir.controller} \/ PinsNoFile
  <2> SUFFICES ASSUME dir.manifest.controller \notin {Missing, dir.controller}
               PROVE  PinsNoFile
    OBVIOUS
  <2>1. /\ dir.manifest.controller = job.artifact /\ job.pc = "done" /\ Unsaved
        /\ \A k \in DOMAIN dir.runs : dir.runs[k].phase # "evaluation"
    BY <1>1, Present DEF Pinned
  <2>2. \A k \in DOMAIN dir.runs : dir.runs[k].phase \in {"train", "evaluation"}
    <3>1. \A k \in DOMAIN dir.runs : dir.runs[k] \in RunFile
      BY Elements
    <3>2. \A r \in RunFile : r.phase \in {"train", "evaluation"}
      BY DEF RunFile, Phases
    <3> QED BY <3>1, <3>2, Zenon
  <2>3. \A k \in DOMAIN dir.runs : dir.runs[k].phase = "train"
    BY <2>1, <2>2
  <2>4. job.stop /\ dir.controller = Missing
    BY <2>1 DEF Unsaved
  <2> QED BY <2>1, <2>3, <2>4 DEF PinsNoFile
<1>4. Reading'
  <2>1. PinsNoFile => PinsNoFile'
    BY <1>1 DEF PinsNoFile
  <2> QED BY <1>1, <1>2, <1>3, <2>1 DEF Reading, IsFinal
<1>5. LookTyped' /\ CompleteIsTrue' /\ RefusedForCut' /\ FittedWhole'
  BY <1>1 DEF LookTyped, CompleteIsTrue, RefusedForCut, FittedWhole
<1> QED BY <1>4, <1>5

LEMMA CheckStep ==
    ASSUME WInv, RInv, CheckController \/ ReadIndex
    PROVE  RInv'
<1> USE DEF WInv, RInv
<1>1. UNCHANGED <<catalog, dir, job>>
  BY DEF CheckController, ReadIndex
<1>5. CASE CheckController /\ look.manifest.controller \notin {Missing, dir.controller}
  <2>1. /\ look'.pc = "over" /\ look'.report = Refusal /\ PinsNoFile
        /\ DOMAIN look' = {"pc", "manifest", "raw", "report"}
    BY <1>5 DEF CheckController, Reading, Refuse, Asleep
  <2>2. PinsNoFile'
    BY <1>1, <2>1 DEF PinsNoFile
  <2> QED BY <1>1, <2>1, <2>2
          DEF Reading, LookTyped, CompleteIsTrue, RefusedForCut, FittedWhole, Refusal
<1>2. CASE CheckController /\ look.manifest.controller \in {Missing, dir.controller}
  <2>1. look' = [look EXCEPT !.pc = "index"] /\ look.pc = "controller"
    BY <1>2 DEF CheckController, Reading
  <2>2. DOMAIN look' = DOMAIN look /\ look'.pc = "index" /\ look'.manifest = look.manifest
    BY <2>1 DEF LookTyped
  <2>3. Reading'
    BY <1>1, <2>1, <2>2 DEF Reading, IsFinal
  <2> QED BY <2>2, <2>3 DEF LookTyped, CompleteIsTrue, RefusedForCut, FittedWhole
<1>3. CASE ReadIndex /\ "index" \in dir.torn
  <2>1. /\ look'.pc = "over" /\ look'.report = Refusal
        /\ DOMAIN look' = {"pc", "manifest", "raw", "report"}
    BY <1>3 DEF ReadIndex, Refuse, Asleep
  <2> QED BY <1>1, <1>3, <2>1 DEF Reading, LookTyped, CompleteIsTrue, RefusedForCut, FittedWhole, Refusal
<1>4. CASE ReadIndex /\ "index" \notin dir.torn
  <2>1. look' = [look EXCEPT !.pc = "runs", !.raw = dir.raw] /\ look.pc = "index"
    BY <1>4 DEF ReadIndex
  <2>2. DOMAIN look' = DOMAIN look /\ look'.pc = "runs" /\ look'.manifest = look.manifest
        /\ look'.raw = dir.raw /\ dir.raw \in Seq(IndexRow)
    BY <2>1, Fields DEF LookTyped
  <2>3. Reading'
    BY <1>1, <2>1, <2>2 DEF Reading, IsFinal
  <2> QED BY <2>2, <2>3 DEF LookTyped, CompleteIsTrue, RefusedForCut, FittedWhole
<1> QED BY <1>2, <1>3, <1>4, <1>5

\* What was read of the index is in order.
LEMMA IndexInOrder ==
    ASSUME WInv, RInv, look.pc = "runs"
    PROVE  Identified(look.raw)
<1> USE DEF WInv, RInv
<1> DEFINE raw == look.raw
<1>1. /\ DOMAIN raw \subseteq DOMAIN dir.raw /\ \A i \in DOMAIN raw : raw[i] = dir.raw[i]
      /\ \A i \in DOMAIN raw : raw[i] \in IndexRow
  BY DEF Reading
<1> HIDE DEF raw
<1>2. \A i \in DOMAIN raw : \E k \in DOMAIN dir.runs : Row(dir.runs[k]) = raw[i]
  BY <1>1 DEF Indexed
<1>3. \A i, k \in DOMAIN raw : raw[i].run = raw[k].run => i = k
  BY <1>1 DEF Indexed
<1>4. \A i \in Rows(raw, "train") : raw[i].task \in Range(TrainPlan)
  BY <1>1 DEF Indexed, Rows
<1>5. \A i, k \in Rows(raw, "evaluation") :
         raw[i].task = raw[k].task /\ raw[i].policy = raw[k].policy => i = k
  <2>1. \A i, k \in Rows(dir.raw, "evaluation") : PairOf(dir.raw[i]) = PairOf(dir.raw[k]) => i = k
    BY DEF Indexed
  <2>2. \A i \in Rows(raw, "evaluation") : i \in Rows(dir.raw, "evaluation") /\ raw[i] = dir.raw[i]
    BY <1>1 DEF Rows
  <2>3. \A r, s : r.task = s.task /\ r.policy = s.policy => PairOf(r) = PairOf(s)
    BY DEF PairOf
  <2> QED BY <2>1, <2>2, <2>3
<1> QED BY <1>2, <1>3, <1>4, <1>5 DEF Identified, raw

LEMMA PlannedOnce ==
    ASSUME catalog \in Catalogs, ValidSplits(catalog)
    PROVE  Cardinality(Expected) = Len(EvalPlan)
<1> DEFINE n == Len(EvalPlan)
<1>1. n \in Nat /\ DOMAIN EvalPlan = 1..n /\ IsInjective(EvalPlan) /\ EvalPlan \in Seq(Pair)
  BY EvalPlanIs
<1> HIDE DEF n
<1>2. IsFiniteSet(1..n) /\ Cardinality(1..n) = n
  BY <1>1, FS_Interval
<1>3. EvalPlan \in Bijection(1..n, Expected)
  BY <1>1 DEF Expected, Range, IsInjective, Bijection, Injection, Surjection
<1>4. Cardinality(Expected) = n
  BY <1>2, <1>3, FS_Bijection DEF ExistsBijection
<1> QED BY <1>4 DEF n

LEMMA AggregateStep ==
    ASSUME WInv, RInv, Aggregate
    PROVE  RInv'
<1> USE DEF WInv, RInv
<1>1. /\ UNCHANGED <<catalog, dir, job>> /\ look.pc = "runs" /\ look'.pc = "over"
      /\ look'.report = Verdict(look.raw)
      /\ DOMAIN look' = {"pc", "manifest", "raw", "report"}
  BY IndexInOrder DEF Aggregate, Asleep
<1>2. LookTyped' /\ Reading'
  BY <1>1 DEF LookTyped, Reading
<1>3. /\ Verdict(look.raw).status \in {"complete", "partial"}
      /\ Verdict(look.raw).status = "complete" => Reconciled(look.raw) = "complete"
      /\ Verdict(look.raw).trained = Cardinality(Rows(look.raw, "train"))
      /\ Verdict(look.raw).figures = Figures(IndexedRuns(look.raw))
  BY DEF Verdict, IndexedRuns
<1>4. RefusedForCut' /\ FittedWhole'
  BY <1>1, <1>3 DEF RefusedForCut, FittedWhole
<1>5. CompleteIsTrue'
  <2> SUFFICES ASSUME Reconciled(look.raw) = "complete"
               PROVE  /\ job.pc = "done" /\ ~job.stop
                      /\ Cardinality(Rows(look.raw, "train")) = Len(TrainPlan)
                      /\ Len(dir.raw) = Len(TrainPlan) + Cardinality(Expected)
                      /\ Figures(IndexedRuns(look.raw)) = dir.benchmark.figures
    <3>1. TrainPlan' = TrainPlan /\ Expected' = Expected
      BY <1>1, PlanStays
    <3> QED BY <1>1, <1>3, <3>1 DEF CompleteIsTrue
  <2>1. /\ look.manifest.status = "complete"
        /\ look.manifest.trained = Cardinality(Rows(look.raw, "train"))
    BY DEF Reconciled
  <2>2. /\ job.pc = "done" /\ look.manifest = dir.manifest /\ look.raw = dir.raw
        /\ look.manifest # Missing
    BY <1>1, <2>1, Present DEF Reading, IsFinal
  <2>3. dir.manifest = Manifest(Outcome)
    BY <2>2 DEF Closed
  <2>4. dir.manifest.status = Outcome /\ dir.manifest.trained = job.trained
    BY <2>3 DEF Manifest
  <2>5. ~job.stop
    BY <2>1, <2>2, <2>4 DEF Outcome
  <2>6. /\ job.runs = IndexedRuns(dir.raw) /\ job.trained = Len(TrainPlan)
        /\ Len(dir.raw) = Len(TrainPlan) + Len(EvalPlan)
    BY <2>2, <2>5 DEF Counts, Training
  <2>7. Cardinality(Expected) = Len(EvalPlan)
    BY <2>2, PlannedOnce DEF Begun, Typed
  <2>8. dir.benchmark.figures = Figures(job.runs)
    BY <2>2 DEF Closed
  <2> QED BY <2>1, <2>2, <2>4, <2>5, <2>6, <2>7, <2>8
<1> QED BY <1>2, <1>4, <1>5

LEMMA FitTransferStep ==
    ASSUME WInv, RInv, FitTransfer
    PROVE  RInv'
<1> USE DEF WInv, RInv
<1> DEFINE rows == dir.transitions
<1>1. /\ UNCHANGED <<catalog, dir, job>> /\ look'.pc = "over" /\ look'.raw = rows
      /\ look'.report.status \in {"fitted", "unfit"}
      /\ look'.report.status = "fitted" => Terminated(rows)
      /\ DOMAIN look' = {"pc", "manifest", "raw", "report"}
  BY DEF FitTransfer, Asleep
<1>2. LookTyped' /\ Reading' /\ RefusedForCut' /\ CompleteIsTrue'
  BY <1>1 DEF LookTyped, Reading, RefusedForCut, CompleteIsTrue
<1>3. FittedWhole'
  <2> SUFFICES ASSUME Terminated(rows), NEW i \in DOMAIN rows
               PROVE  \E k \in DOMAIN dir.runs : Fits(rows, i, dir.runs[k])
    BY <1>1 DEF FittedWhole, Fits, Whole, Mine
  <2>1. PICK k \in DOMAIN dir.runs :
          LET r == dir.runs[k]
          IN /\ r.id = rows[i].run /\ r.phase = "train" /\ r.status = "completed"
             /\ \/ Whole(rows, r)
                \/ Begins(rows, r) /\ rows[Len(rows)].run = r.id
    BY DEF Episodes
  <2>2. DOMAIN rows = 1..Len(rows) /\ Len(rows) \in Nat
    BY Elements
  <2>3. Len(rows) \in DOMAIN rows
    BY <2>2
  <2>4. rows[Len(rows)].terminal
    <3>1. rows # <<>>
      BY <2>3
    <3> QED BY <3>1 DEF Terminated, Last
  <2>5. ~(Begins(rows, dir.runs[k]) /\ rows[Len(rows)].run = dir.runs[k].id)
    BY <2>3, <2>4 DEF Begins, Mine
  <2> QED BY <2>1, <2>5 DEF Fits
<1> QED BY <1>2, <1>3

LEMMA ReaderStep ==
    ASSUME SInv, Writes \/ Reads \/ UNCHANGED svars
    PROVE  RInv'
<1> USE DEF SInv
<1>1. CASE Writes
  BY <1>1, ReadersKept
<1>2. CASE Reads
  BY <1>2, LookUpStep, CheckStep, AggregateStep, FitTransferStep DEF Reads
<1>3. CASE UNCHANGED svars
  <2>1. /\ catalog' = catalog /\ dir' = dir /\ job' = job /\ look' = look
        /\ TrainPlan' = TrainPlan /\ Expected' = Expected
    BY <1>3, PlanStays DEF svars
  <2>2. LookTyped' /\ CompleteIsTrue' /\ RefusedForCut' /\ FittedWhole'
    BY <2>1 DEF RInv, LookTyped, CompleteIsTrue, RefusedForCut, FittedWhole, PinsNoFile
  <2>3. Reading'
    BY <2>1 DEF RInv, Reading, IsFinal, PinsNoFile
  <2> QED BY <2>2, <2>3 DEF RInv
<1> QED BY <1>1, <1>2, <1>3
-----------------------------------------------------------------------------
(* The theorems.                                                           *)

LEMMA InitSInv == StudyInit => SInv
<1> SUFFICES ASSUME StudyInit PROVE SInv
  OBVIOUS
<1>1. catalog \in Catalogs /\ dir = EmptyDir /\ job = Idle /\ look = Asleep
  BY DEF StudyInit
<1>2. /\ job.pc = "off" /\ job.artifact = Missing /\ job.runs = {} /\ job.rows = <<>>
      /\ dir.runs = <<>> /\ dir.raw = <<>> /\ dir.transitions = <<>>
      /\ dir.manifest = Missing /\ dir.controller = Missing
      /\ DOMAIN <<>> = {} /\ look.pc = "off" /\ DOMAIN look = {"pc", "manifest", "raw", "report"}
  BY <1>1 DEF Idle, EmptyDir, Asleep
<1>3. Typed
  <2>1. <<>> \in Seq(TransitionRow) /\ <<>> \in Seq(IndexRow) /\ <<>> \in Seq(RunFile)
        /\ {} \in SUBSET RunFile
    OBVIOUS
  <2> QED BY <1>1, <2>1 DEF Typed, Idle, EmptyDir, Jobs, Directories, Controllers
<1>4. ~Training /\ ~Evaluating
  BY <1>2 DEF Training, Evaluating
<1>5. Begun /\ Held /\ Pinned /\ OnDisk /\ Counts /\ Closed
  BY <1>1, <1>2, <1>4 DEF Begun, Held, Pinned, OnDisk, Counts, Closed
<1>6. Indexed /\ Episodes
  BY <1>2 DEF Indexed, Episodes, Rows
<1>7. RInv
  BY <1>2 DEF RInv, LookTyped, Reading, CompleteIsTrue, RefusedForCut, FittedWhole
<1> QED BY <1>3, <1>5, <1>6, <1>7 DEF SInv, WInv

LEMMA Inductive == StudySpec => []SInv
<1>1. SInv /\ [StudyNext]_svars => SInv'
  <2> SUFFICES ASSUME SInv, [StudyNext]_svars PROVE SInv'
    OBVIOUS
  <2>1. Writes \/ Reads \/ UNCHANGED svars
    BY DEF StudyNext, Writes, Reads
  <2>2. WInv'
    BY <2>1, WriterStep DEF SInv
  <2>3. RInv'
    BY <2>1, ReaderStep
  <2> QED BY <2>2, <2>3 DEF SInv
<1> QED BY <1>1, InitSInv, PTL DEF StudySpec

\* An aggregation says "complete" only of a study that ended by itself with
\* all of its plan on record, and reports that study's own figures.
THEOREM CompleteHolds == StudySpec => []CompleteIsTrue
<1>1. SInv => CompleteIsTrue
  BY DEF SInv, RInv
<1> QED BY <1>1, Inductive, PTL

\* Nothing makes a directory unreadable but an index line that was cut off,
\* and the end of a study at the write of its controller.
THEOREM RefusalsHold == StudySpec => []RefusedForCut
<1>1. SInv => RefusedForCut
  BY DEF SInv, RInv
<1> QED BY <1>1, Inductive, PTL

\* The transfer controllers are fitted to whole, completed training episodes.
THEOREM FittedHolds == StudySpec => []FittedWhole
<1>1. SInv => FittedWhole
  BY DEF SInv, RInv
<1> QED BY <1>1, Inductive, PTL

\* Every evaluation was made with the controller on disk, which was fitted to
\* the training rows on disk, none of the evaluated task's family.
THEOREM FrozenHolds == StudySpec => []EvaluatedFrozen
<1>1. SInv => EvaluatedFrozen
  <2> SUFFICES ASSUME SInv, NEW k \in DOMAIN dir.runs, dir.runs[k].phase = "evaluation"
               PROVE  /\ \A i \in DOMAIN dir.transitions :
                            dir.transitions[i].task.family # dir.runs[k].task.family
                      /\ dir.runs[k].by = dir.controller
                      /\ dir.manifest.controller = dir.controller
                      /\ dir.controller = [fitted |-> dir.transitions]
    BY DEF EvaluatedFrozen
  <2>1. dir.runs[k].task \in Tasks(FALSE) /\ dir.runs[k].by = job.artifact
    BY DEF SInv, WInv, OnDisk
  <2>2. /\ dir.controller = job.artifact /\ dir.manifest.controller = job.artifact
        /\ job.artifact = [fitted |-> dir.transitions]
    BY DEF SInv, WInv, Pinned
  <2>3. ValidSplits(catalog)
    <3>1. job.pc # "off"
      BY DEF SInv, WInv, Begun, EmptyDir
    <3> QED BY <3>1 DEF SInv, WInv, Begun
  <2>4. \A i \in DOMAIN dir.transitions : dir.transitions[i].task \in Tasks(TRUE)
    BY DEF SInv, WInv, OnDisk
  <2>5. \A s \in Tasks(TRUE), t \in Tasks(FALSE) : s.family # t.family
    BY <2>3 DEF Tasks, ValidSplits, Range
  <2> QED BY <2>1, <2>2, <2>4, <2>5
<1> QED BY <1>1, Inductive, PTL
-----------------------------------------------------------------------------
(* The campaigns: what the variables hold.                                 *)

Protocols == {"pilot", "replication", "reference"}
Tasksets == {s.catalog : s \in Sources}
AllCells == UNION {Range(Orders[p][c]) : p \in Protocols, c \in Tasksets}
Receipt == [catalog : Tasksets, image : Images, passed : BOOLEAN]
Document == [protocol : Protocols, receipt : Receipt \cup {Nothing}, catalog : Tasksets,
             source : Sources, sealed : BOOLEAN]
Ended == {"completed", "failed", "budget_exhausted", "interrupted"}
Snapshot == [own : Nat, research : Nat, public : Nat]
Record == [id : Nat, cell : AllCells, status : Ended, cost : {0, 1}, source : Sources,
           edited : BOOLEAN, image : Images \cup {Nothing}]
Process == [pc : {"off", "launched", "checked", "locked", "freeze", "manifest", "loop", "episode",
                  "cleared", "file", "index", "count", "final", "close"},
            script : {"none"} \cup Protocols, doc : Document \cup {Nothing},
            dir : Dirs \cup {Nothing}, image : Images \cup {Nothing},
            source : Sources \cup {Nothing}, edits : Nat, edited : BOOLEAN,
            start : Snapshot \cup {Nothing}, cap : Nat, at : Nat,
            held : Record \cup {Nothing}, results : Seq(Record), stop : BOOLEAN]
Note == [freeze : Document, status : {"running", "complete", "incomplete"}, completed : Nat,
         missing : SUBSET AllCells, start : Snapshot, end : Snapshot \cup {Nothing}, delta : Nat]
Account == [status : {"complete", "incomplete"}, runs : Seq(Record)]
Folder == [freeze : Document \cup {Nothing}, manifest : Note \cup {Nothing},
           report : Account \cup {Nothing}, opened : BOOLEAN, runs : Seq(Record),
           raw : Seq(Nat), events : SUBSET Nat, torn : BOOLEAN, broken : BOOLEAN]

\* What the ledger says is in integers, and never less than nothing.
LEMMA Snapshots ==
    ASSUME spent \in Nat, other \in [research : Nat, public : Nat]
    PROVE  Now \in Snapshot /\ Now.own = spent
BY DEF Now, Snapshot

LEMMA Money ==
    ASSUME NEW l \in Snapshot, NEW k \in Snapshot
    PROVE  /\ Spending(l, k) \in Nat /\ Charged(k) - Charged(l) \in Int
           /\ l.own \in Nat /\ l.research \in Nat /\ l.public \in Nat
           /\ Charged(k) - Charged(l) = (k.own - l.own) + OthersSince(l, k)
<1>1. /\ l.own \in Nat /\ l.research \in Nat /\ l.public \in Nat
      /\ k.own \in Nat /\ k.research \in Nat /\ k.public \in Nat
  BY DEF Snapshot
<1>2. Charged(k) - Charged(l) \in Int
  BY <1>1 DEF Charged
<1>3. Charged(k) - Charged(l) = (k.own - l.own) + OthersSince(l, k)
  BY <1>1 DEF Charged, OthersSince
<1>4. Spending(l, k) \in Nat
  BY <1>2 DEF Spending, AtLeast0
<1> QED BY <1>1, <1>2, <1>3, <1>4

LEMMA There ==
    /\ \A x \in Document : x # Nothing
    /\ \A x \in Note : x # Nothing
    /\ \A x \in Account : x # Nothing
<1>1. \A x \in Document : x # Nothing
  BY DEF Document, Nothing
<1>2. \A x \in Note : x # Nothing
  BY DEF Note, Nothing
<1>3. \A x \in Account : x # Nothing
  BY DEF Account, Nothing
<1> QED BY <1>1, <1>2, <1>3

\* The plan is a sequence of cells, each once.
LEMMA OrderIs ==
    ASSUME NEW doc \in Document
    PROVE  /\ Order(doc) \in Seq(AllCells) /\ IsInjective(Order(doc)) /\ Len(Order(doc)) \in Nat
           /\ DOMAIN Order(doc) = 1..Len(Order(doc))
           /\ \A i \in 1..Len(Order(doc)) : Order(doc)[i] \in AllCells
           /\ Range(Order(doc)) \subseteq AllCells
<1>1. PICK s \in Sources : doc.catalog = s.catalog
  BY DEF Document, Tasksets
<1>2. doc.protocol \in Protocols /\ doc.catalog \in Tasksets
  BY DEF Document
<1> DEFINE order == Orders[doc.protocol][doc.catalog]
<1>3. order \in Seq(Range(order)) /\ IsInjective(order)
  BY <1>1, <1>2, CampaignAssumption DEF Protocols
<1>4. Range(order) \subseteq AllCells
  BY <1>2 DEF AllCells
<1>5. Order(doc) = order
  BY DEF Order
<1> HIDE DEF order
<1>6. order \in Seq(AllCells) /\ Len(order) \in Nat /\ DOMAIN order = 1..Len(order)
  BY <1>3, <1>4
<1> QED BY <1>3, <1>4, <1>5, <1>6 DEF Range

LEMMA Records ==
    ASSUME NEW q \in Seq(Record)
    PROVE  /\ Len(q) \in Nat /\ DOMAIN q = 1..Len(q)
           /\ \A i \in 1..Len(q) : /\ q[i] \in Record /\ q[i].cost \in {0, 1} /\ q[i].id \in Nat
                                   /\ q[i].cell \in AllCells /\ q[i].status \in Ended
           /\ [i \in DOMAIN q |-> q[i].cost] \in [1..Len(q) -> Int]
<1>1. Len(q) \in Nat /\ DOMAIN q = 1..Len(q) /\ \A i \in 1..Len(q) : q[i] \in Record
  OBVIOUS
<1>2. \A r \in Record : /\ r.cost \in {0, 1} /\ r.id \in Nat /\ r.cell \in AllCells
                        /\ r.status \in Ended
  BY DEF Record
<1>3. \A i \in 1..Len(q) : q[i].cost \in Int
  BY <1>1, <1>2
<1> QED BY <1>1, <1>2, <1>3

LEMMA CostOfNone == CostOf(<<>>) = 0
<1> DEFINE f == [i \in DOMAIN <<>> |-> <<>>[i].cost]
<1>1. Len(<<>>) = 0 /\ DOMAIN <<>> = {} /\ 1..0 = {}
  OBVIOUS
<1>2. f \in [1..0 -> Int]
  BY <1>1
<1>3. Total(f, 0) = 0
  <2> HIDE DEF f
  <2>1. \A k \in 1..0 : f[k] = 0
    OBVIOUS
  <2> QED BY <1>2, <2>1, TotalZero
<1> QED BY <1>1, <1>3 DEF CostOf

LEMMA CostOfMore ==
    ASSUME NEW q \in Seq(Record), NEW r \in Record
    PROVE  CostOf(Append(q, r)) = CostOf(q) + r.cost /\ CostOf(q) \in Int
<1> DEFINE a == Append(q, r)
           n == Len(q)
           f == [i \in DOMAIN q |-> q[i].cost]
           g == [i \in DOMAIN a |-> a[i].cost]
<1>1. /\ a \in Seq(Record) /\ n \in Nat /\ Len(a) = n + 1 /\ DOMAIN q = 1..n
      /\ DOMAIN a = 1..(n + 1) /\ \A i \in 1..n : a[i] = q[i]
      /\ a[n + 1] = r /\ n + 1 \in DOMAIN a
  BY Appended
<1>2. f \in [1..n -> Int]
  BY Records
<1> HIDE DEF a, n
<1>3. g \in [1..(n + 1) -> Int]
  BY <1>1, Records
<1>4. \A k \in 1..n : g[k] = f[k]
  BY <1>1
<1>5. g[n + 1] = r.cost
  BY <1>1
<1> HIDE DEF f, g
<1>6. Total(g, n + 1) = Total(f, n) + g[n + 1] /\ Total(f, n) \in Int
  BY <1>1, <1>2, <1>3, <1>4, TotalAppend, TotalInt
<1>7. CostOf(q) = Total(f, n) /\ CostOf(a) = Total(g, n + 1)
  BY <1>1 DEF CostOf, f, g, n
<1> QED BY <1>5, <1>6, <1>7 DEF a

\* The first rows of a plan.
FirstOf(doc, q) ==
    /\ Len(q) <= Len(Order(doc))
    /\ \A i \in 1..Len(q) : q[i].cell = Order(doc)[i]

LEMMA FirstRows ==
    ASSUME NEW doc \in Document, NEW q \in Seq(Record), FirstOf(doc, q)
    PROVE  /\ IsInjective([i \in DOMAIN q |-> q[i].cell])
           /\ Cells(q) \subseteq Range(Order(doc))
           /\ MissingOf(doc, q) \in SUBSET AllCells
           /\ MissingOf(doc, q) = {} <=> Len(q) = Len(Order(doc))
           /\ Cells(q) = Range(Order(doc)) <=> Len(q) = Len(Order(doc))
<1> DEFINE order == Order(doc)
           n == Len(q)
           m == Len(order)
<1>1. /\ m \in Nat /\ DOMAIN order = 1..m /\ IsInjective(order)
      /\ Range(order) \subseteq AllCells /\ n \in Nat /\ DOMAIN q = 1..n
  BY OrderIs, Records
<1>2. n <= m /\ \A i \in 1..n : q[i].cell = order[i]
  BY DEF FirstOf
<1>3. Cells(q) = {q[i].cell : i \in 1..n} /\ Range(order) = {order[i] : i \in 1..m}
  BY <1>1 DEF Cells, Range
<1>4. MissingOf(doc, q) = Range(order) \ Cells(q)
  BY DEF MissingOf
<1> HIDE DEF order, n, m
<1>5. \A i \in 1..n : i \in 1..m
  BY <1>1, <1>2
<1>6. IsInjective([i \in DOMAIN q |-> q[i].cell])
  <2> DEFINE c == [i \in DOMAIN q |-> q[i].cell]
  <2>1. DOMAIN c = 1..n /\ \A i \in 1..n : c[i] = order[i]
    BY <1>1, <1>2
  <2> HIDE DEF c
  <2>2. \A i, k \in 1..n : c[i] = c[k] => i = k
    BY <1>1, <1>5, <2>1 DEF IsInjective
  <2>3. IsInjective(c)
    BY <2>1, <2>2 DEF IsInjective
  <2> QED BY <2>3 DEF c
<1>7. Cells(q) \subseteq Range(order)
  BY <1>2, <1>3, <1>5
<1>8. Range(order) \subseteq Cells(q) => n = m
  <2> SUFFICES ASSUME Range(order) \subseteq Cells(q), n # m PROVE FALSE
    OBVIOUS
  <2>1. m \in 1..m /\ m \notin 1..n
    BY <1>1, <1>2
  <2>2. PICK i \in 1..n : order[m] = q[i].cell
    BY <1>3, <2>1
  <2>3. order[m] = order[i] /\ i \in 1..m
    BY <1>2, <1>5, <2>2
  <2>4. m = i
    BY <1>1, <2>1, <2>3 DEF IsInjective
  <2> QED BY <2>1, <2>4
<1>9. n = m => Range(order) \subseteq Cells(q)
  BY <1>2, <1>3
<1> QED BY <1>1, <1>4, <1>6, <1>7, <1>8, <1>9 DEF order, n, m

\* Of a whole record, as many runs of a kind as are planned.
LEMMA AllAttempted ==
    ASSUME NEW doc \in Document, NEW q \in Seq(Record), FirstOf(doc, q),
           Len(q) = Len(Order(doc)), NEW split, NEW policy
    PROVE  Cardinality(Of(q, split, policy)) = Cardinality(Planned(doc, split, policy))
<1> DEFINE order == Order(doc)
           n == Len(q)
           I == Of(q, split, policy)
           C == Planned(doc, split, policy)
           f == [i \in I |-> order[i]]
<1>1. /\ DOMAIN order = 1..n /\ IsInjective(order) /\ n \in Nat /\ DOMAIN q = 1..n
      /\ \A i \in 1..n : q[i].cell = order[i]
  BY OrderIs, Records DEF FirstOf
<1>2. I = {i \in 1..n : order[i].split = split /\ order[i].policy = policy}
  BY <1>1 DEF Of
<1>3. C = {c \in {order[i] : i \in 1..n} : c.split = split /\ c.policy = policy}
  BY <1>1 DEF Planned, Range
<1> HIDE DEF order, n, I, C
<1>4. IsFiniteSet(I)
  <2>1. n \in Int /\ 1 \in Int
    BY <1>1
  <2>2. IsFiniteSet(1..n) /\ I \subseteq 1..n
    BY <1>2, <2>1, FS_Interval
  <2> QED BY <2>2, FS_Subset
<1>5. f \in [I -> C]
  BY <1>2, <1>3
<1>6. \A i, k \in I : f[i] = f[k] => i = k
  BY <1>1, <1>2 DEF IsInjective
<1>7. \A c \in C : \E i \in I : f[i] = c
  BY <1>2, <1>3
<1>8. f \in Bijection(I, C)
  <2> HIDE DEF f
  <2>1. f \in Injection(I, C)
    BY <1>5, <1>6 DEF Injection, IsInjective
  <2>2. f \in Surjection(I, C)
    BY <1>5, <1>7 DEF Surjection
  <2> QED BY <2>1, <2>2 DEF Bijection
<1>9. Cardinality(C) = Cardinality(I)
  BY <1>4, <1>8, FS_Bijection DEF ExistsBijection
<1> QED BY <1>9 DEF I, C

-----------------------------------------------------------------------------
(* The inductive invariant: a process that is past its verification, the   *)
(* directory it writes, every directory, and the analysis.                 *)

Before == {"launched", "checked", "locked"}
Past == {"freeze", "manifest", "loop", "episode", "cleared", "file", "index", "count", "final",
         "close"}

Stored ==
    /\ tree = [disk |-> tree.disk, commits |-> tree.commits, edits |-> tree.edits]
    /\ tree.disk \in Sources /\ tree.edits \in Nat /\ receipts \subseteq Receipt
    /\ docs \subseteq Document /\ \A x \in docs : x.receipt \in Receipt
    /\ desk # Nothing =>
          /\ desk = [protocol |-> desk.protocol, receipt |-> desk.receipt, source |-> desk.source]
          /\ desk.source \in Sources
          /\ desk.protocol # "none" => desk.protocol \in Protocols /\ desk.receipt \in Receipt
    /\ proc \in [Procs -> Process] /\ spent \in Nat /\ other \in [research : Nat, public : Nat]
    /\ evidence \in [Dirs -> Folder]

OneHolds == \A p, q \in Procs : Holding(p) /\ Holding(q) => p = q

\* A process has a directory and the source it imported; before its last
\* verification it has done nothing.
Chosen(j) ==
    /\ j.pc \in Before \cup Past
    /\ j.dir \in Dirs /\ j.source \in Sources /\ j.script \in Protocols
    /\ j.pc \in Past => j.doc \in Document
    /\ j.pc \notin Past => j.at = 1 /\ j.results = <<>> /\ j.stop = FALSE
    /\ j.pc \in {"checked", "locked"} =>
          /\ j.script = "pilot" => j.doc \in Document
          /\ j.script = "reference" => j.source.catalog = Published

\* What it imported is what is on disk, unless the tree was edited since.
Imported(j, t) == j.edits <= t.edits /\ (j.edits = t.edits => j.source = t.disk)

\* Of what a document names, what was run.
AsFrozen(doc, source, edited, image) ==
    /\ source.catalog = doc.catalog
    /\ edited = TRUE \/ source = doc.source
    /\ doc.protocol # "reference" =>
          /\ doc.sealed = TRUE /\ doc.receipt.passed = TRUE
          /\ doc.receipt.image = image /\ doc.receipt.catalog = doc.catalog

\* Verified, its directory its own.
Verified(j, e) ==
    /\ j.source \in Sources /\ AsFrozen(j.doc, j.source, j.edited, j.image)
    /\ e.opened = TRUE /\ e.torn = FALSE
    /\ e.broken = TRUE => j.doc.protocol # "reference" /\ j.pc = "final"

\* What it has written of the plan and of its end.
Announced(j, e) ==
    /\ e.freeze = IF j.pc = "freeze" THEN Nothing ELSE j.doc
    /\ j.pc \in {"freeze", "manifest"} => e.manifest = Nothing
    /\ e.manifest = Nothing \/ e.manifest.status = "running"
    /\ j.pc # "close" => e.report = Nothing
    /\ j.pc = "close" => j.doc.protocol = "reference"

\* The rows it has done, and the one in hand.
RowsDone(j, e) ==
    /\ Len(j.results) <= Len(e.runs)
    /\ \A i \in 1..Len(j.results) : j.results[i] = e.runs[i]
    /\ j.pc \in {"freeze", "manifest"} => e.runs = <<>>
    /\ e.broken = FALSE => e.runs = IF j.pc \in {"index", "count"}
                                    THEN Append(j.results, j.held) ELSE j.results
    /\ j.pc \notin {"final", "close"} =>
          j.at = Len(j.results) + 1 /\ j.at <= Len(Order(j.doc)) + 1
    /\ j.pc \in {"episode", "cleared", "file", "index", "count"} =>
          j.at <= Len(Order(j.doc)) /\ j.at \in e.events

InHand(j) ==
    j.pc \in {"file", "index", "count"} =>
        /\ j.held \in Record /\ j.held.id = j.at /\ j.held.cell = Order(j.doc)[j.at]
        /\ j.held.source = j.source /\ j.held.edited = j.edited /\ j.held.image = j.image
        /\ j.held.status = "interrupted" => j.stop = TRUE

Stops(j, e) ==
    /\ j.pc \in {"freeze", "manifest", "loop", "episode", "cleared"} => j.stop = FALSE
    /\ j.pc \in {"file", "index", "count"} /\ j.stop = TRUE => j.doc.protocol = "reference"
    /\ j.stop = FALSE => \A i \in DOMAIN e.runs : e.runs[i].status # "interrupted"

Listed(j, e) ==
    e.broken = FALSE =>
        /\ \A i \in DOMAIN e.raw : e.raw[i] = i
        /\ Len(e.runs) = IF j.pc = "index" THEN Len(e.raw) + 1 ELSE Len(e.raw)

\* What the ledger was charged since its start is what its rows cost.
Paid(j, s) ==
    /\ j.start \in Snapshot /\ j.start.own <= s
    /\ j.doc.protocol # "reference" =>
          (j.pc \notin {"final", "close"} \/ Len(j.results) = Len(Order(j.doc)) =>
              s - j.start.own = CostOf(j.results) +
                                IF j.pc \in {"file", "index", "count"} THEN j.held.cost ELSE 0)

Own(j, e, s) ==
    /\ Verified(j, e) /\ Announced(j, e) /\ RowsDone(j, e) /\ InHand(j) /\ Stops(j, e)
    /\ Listed(j, e) /\ Paid(j, s)

\* What a directory holds is the plan up to some row, as it was frozen.
Filed(e) ==
    /\ e.opened = FALSE => e = Untouched
    /\ e.freeze = Nothing => e.runs = <<>> /\ e.manifest = Nothing /\ e.report = Nothing /\ e.events = {}
    /\ e.freeze # Nothing =>
          /\ FirstOf(e.freeze, e.runs)
          /\ \A i \in DOMAIN e.runs :
                /\ e.runs[i].id = i /\ i \in e.events
                /\ AsFrozen(e.freeze, e.runs[i].source, e.runs[i].edited, e.runs[i].image)
                /\ e.runs[i].status = "interrupted" => e.freeze.protocol = "reference"
          /\ e.events \subseteq 1..Len(Order(e.freeze))

\* And what its final manifest says of it is so.
Told(m, e) ==
    /\ e.torn = FALSE
    /\ m.end \in Snapshot /\ m.start.own <= m.end.own /\ m.delta = Spending(m.start, m.end)
    /\ m.status = "complete" <=> m.missing = {}
    /\ m.status = "complete" =>
          Len(e.runs) = Len(Order(e.freeze)) /\ CostOf(e.runs) = m.end.own - m.start.own
    /\ e.broken = FALSE =>
          /\ m.completed = Len(e.runs) /\ m.missing = MissingOf(e.freeze, e.runs)
          /\ Len(e.raw) = Len(e.runs) /\ \A i \in DOMAIN e.raw : e.raw[i] = i

Noted(e) ==
    e.manifest # Nothing =>
        /\ e.manifest.freeze = e.freeze
        /\ e.manifest.status # "running" /\ e.freeze.protocol # "reference" => Told(e.manifest, e)

Reported(e) ==
    e.report # Nothing /\ e.report.status = "complete" =>
        /\ Cells(e.report.runs) = Range(Order(e.freeze))
        /\ \A i \in DOMAIN e.runs : e.runs[i].status # "interrupted"

Lies(e) == Filed(e) /\ Noted(e) /\ Reported(e)

Shaped(v) ==
    v = [pc |-> v.pc, dir |-> v.dir, manifest |-> v.manifest, status |-> v.status, runs |-> v.runs,
         summary |-> v.summary, compared |-> v.compared, effect |-> v.effect, ledger |-> v.ledger]

\* An analysis has read a manifest; a final one is there still.
Analysing(v, E) ==
    v.pc \in {"runs", "over"} =>
        /\ v.dir \in Dirs /\ v.manifest \in Note /\ v.manifest.freeze.protocol # "reference"
        /\ v.manifest.freeze = E[v.dir].freeze
        /\ v.manifest.status # "running" => E[v.dir].manifest = v.manifest

ARecord(v, E) ==
    LET e == E[v.dir]
        order == Order(e.freeze)
    IN /\ v.manifest.status # "running"
       /\ v.runs = e.runs
       /\ \A i \in DOMAIN e.runs : e.runs[i].cell = order[i]
       /\ v.status = "complete" <=> Len(e.runs) = Len(order)
       /\ v.status = "complete" =>
             /\ v.manifest.delta = AtLeast0(CostOf(e.runs) + OthersSince(v.manifest.start, v.manifest.end))
             /\ \A x \in DOMAIN v.summary : v.summary[x].attempted = v.summary[x].planned

ACause(v, E) ==
    LET e == E[v.dir]
        m == v.manifest
    IN \/ m.status = "running" \/ e.broken = TRUE
       \/ /\ m.freeze.protocol = "replication"
          /\ \/ m.status = "incomplete"
             \/ ~Undisturbed(m.start, m.end) \/ ~Undisturbed(m.start, v.ledger)
             \/ v.ledger.own # m.end.own
             \/ \E i \in DOMAIN e.runs : e.runs[i].status = "budget_exhausted"

Judged(v, E) ==
    v.pc = "over" => IF v.status = "refused" THEN ACause(v, E) ELSE ARecord(v, E)

Analysis(v, E) ==
    /\ Shaped(v) /\ v.pc \in {"off", "runs", "over"}
    /\ Analysing(v, E) /\ Judged(v, E)

CInv ==
    /\ Stored /\ OneHolds
    /\ \A p \in Procs : proc[p].pc # "off" => Chosen(proc[p])
    /\ \A p \in Procs : proc[p].pc \in Before => Imported(proc[p], tree)
    /\ \A p \in Procs : proc[p].pc \in Past => Own(proc[p], evidence[proc[p].dir], spent)
    /\ \A d \in Dirs : Lies(evidence[d])
    /\ Analysis(review, evidence)

-----------------------------------------------------------------------------
(* What does not disturb the invariant.                                    *)

\* Of a directory whose last manifest is not written an analysis knows nothing yet.
LEMMA AnalysisOn ==
    ASSUME NEW v, NEW E \in [Dirs -> Folder], Analysis(v, E), NEW d \in Dirs, NEW e \in Folder,
           E[d].manifest = Nothing \/ E[d].manifest.status = "running",
           E[d].freeze = Nothing \/ e.freeze = E[d].freeze
    PROVE  Analysis(v, [E EXCEPT ![d] = e])
<1> DEFINE F == [E EXCEPT ![d] = e]
<1>1. F[d] = e /\ \A x \in Dirs : x # d => F[x] = E[x]
  OBVIOUS
<1>2. Shaped(v) /\ v.pc \in {"off", "runs", "over"} /\ Analysing(v, E) /\ Judged(v, E)
  BY DEF Analysis
<1> HIDE DEF F
<1>3. CASE v.pc = "off"
  <2>1. Analysing(v, F) /\ Judged(v, F)
    BY <1>3 DEF Analysing, Judged
  <2> QED BY <1>2, <2>1 DEF Analysis, F
<1>4. CASE v.pc # "off"
  <2> DEFINE m == v.manifest
  <2>1. /\ v.dir \in Dirs /\ m \in Note /\ m.freeze.protocol # "reference"
        /\ m.freeze = E[v.dir].freeze
        /\ m.status # "running" => E[v.dir].manifest = m
    BY <1>2, <1>4 DEF Analysing
  <2>2. m.freeze \in Document
    BY <2>1 DEF Note
  <2> HIDE DEF m
  <2>3. m.freeze # Nothing /\ m # Nothing
    BY <2>1, <2>2, There, Zenon
  <2>4. m.status # "running" => v.dir # d
    BY <2>1, <2>3, Zenon
  <2>5. m.freeze = F[v.dir].freeze
    BY <1>1, <2>1, <2>3, Zenon
  <2>7. m.status # "running" => F[v.dir].manifest = m
    BY <1>1, <2>1, <2>4, Zenon
  <2>8. Analysing(v, F)
    BY <2>1, <2>5, <2>7, Zenon DEF Analysing, m
  <2>9. Judged(v, F)
    <3> SUFFICES ASSUME v.pc = "over"
                 PROVE  IF v.status = "refused" THEN ACause(v, F) ELSE ARecord(v, F)
      BY Zenon DEF Judged
    <3>1. IF v.status = "refused" THEN ACause(v, E) ELSE ARecord(v, E)
      BY <1>2, Zenon DEF Judged
    <3>2. CASE m.status = "running"
      <4>1. v.status = "refused"
        BY <3>1, <3>2, Zenon DEF ARecord, m
      <4>2. ACause(v, F)
        BY <3>2, Zenon DEF ACause, m
      <4> QED BY <4>1, <4>2, Zenon
    <3>3. CASE m.status # "running"
      <4>1. F[v.dir] = E[v.dir]
        BY <1>1, <2>1, <2>4, <3>3, Zenon
      <4>2. CASE v.status = "refused"
        <5>1. ACause(v, F)
          BY <3>1, <4>1, <4>2, Zenon DEF ACause
        <5> QED BY <4>2, <5>1, Zenon
      <4>3. CASE v.status # "refused"
        <5>1. ARecord(v, F)
          BY <3>1, <4>1, <4>3, Zenon DEF ARecord
        <5> QED BY <4>3, <5>1, Zenon
      <4> QED BY <4>2, <4>3, Zenon
    <3> QED BY <3>2, <3>3, Zenon
  <2> QED BY <1>2, <2>8, <2>9 DEF Analysis, F
<1> QED BY <1>3, <1>4

\* A process that has taken its step, and nobody else.
LEMMA Others ==
    ASSUME proc \in [Procs -> Process], NEW p \in Procs, NEW new \in Process,
           proc' = [proc EXCEPT ![p] = new]
    PROVE  /\ proc' \in [Procs -> Process] /\ proc'[p] = new
           /\ \A q \in Procs : q # p => proc'[q] = proc[q]
OBVIOUS

\* The process that holds the lock works on its directory.
LEMMA Progress ==
    ASSUME CInv, NEW p \in Procs, NEW new \in Process, NEW d \in Dirs, NEW e \in Folder, NEW s \in Nat,
           UNCHANGED <<tree, receipts, docs, desk, other, review>>,
           proc' = [proc EXCEPT ![p] = new], evidence' = [evidence EXCEPT ![d] = e],
           spent' = s, spent <= s, Holding(p),
           new.pc # "off" => Chosen(new), new.pc \notin Before,
           new.pc \in Past => new.dir = d /\ Own(new, e, s),
           Lies(e),
           evidence[d].manifest = Nothing \/ evidence[d].manifest.status = "running",
           evidence[d].freeze = Nothing \/ e.freeze = evidence[d].freeze
    PROVE  CInv'
<1>1. /\ Stored /\ OneHolds
      /\ \A q \in Procs : proc[q].pc # "off" => Chosen(proc[q])
      /\ \A q \in Procs : proc[q].pc \in Before => Imported(proc[q], tree)
      /\ \A q \in Procs : proc[q].pc \in Past => Own(proc[q], evidence[proc[q].dir], spent)
      /\ \A x \in Dirs : Lies(evidence[x])
      /\ Analysis(review, evidence)
  BY Zenon DEF CInv
<1>2. proc \in [Procs -> Process] /\ spent \in Nat /\ evidence \in [Dirs -> Folder]
  BY <1>1 DEF Stored
<1>3. /\ proc' \in [Procs -> Process] /\ proc'[p] = new
      /\ \A q \in Procs : q # p => proc'[q] = proc[q]
  BY <1>2, Others
<1>4. /\ evidence' \in [Dirs -> Folder] /\ evidence'[d] = e
      /\ \A x \in Dirs : x # d => evidence'[x] = evidence[x]
  BY <1>2
<1>5. Stored'
  BY <1>1, <1>3, <1>4 DEF Stored
<1>6. \A q \in Procs : q # p => ~Holding(q) /\ ~Holding(q)' /\ proc'[q].pc \notin Past
  <2> SUFFICES ASSUME NEW q \in Procs, q # p
               PROVE  ~Holding(q) /\ ~Holding(q)' /\ proc'[q].pc \notin Past
    OBVIOUS
  <2>1. ~Holding(q)
    BY <1>1, Zenon DEF OneHolds
  <2>2. proc'[q] = proc[q]
    BY <1>3
  <2> QED BY <2>1, <2>2 DEF Holding, Past
<1>7. OneHolds'
  BY <1>6, Zenon DEF OneHolds
<1>8. \A q \in Procs : proc'[q].pc # "off" => Chosen(proc'[q])
  BY <1>1, <1>3, Zenon
<1>9. \A q \in Procs : proc'[q].pc \in Past => Own(proc'[q], evidence'[proc'[q].dir], spent')
  BY <1>3, <1>4, <1>6, Zenon
<1>10. \A x \in Dirs : Lies(evidence'[x])
  <2> SUFFICES ASSUME NEW x \in Dirs PROVE Lies(evidence'[x])
    OBVIOUS
  <2>1. CASE x = d
    BY <1>4, <2>1, Zenon
  <2>2. CASE x # d
    BY <1>1, <1>4, <2>2, Zenon
  <2> QED BY <2>1, <2>2
<1>11. Analysis(review, [evidence EXCEPT ![d] = e])
  BY <1>1, <1>2, AnalysisOn
<1>12. Analysis(review, evidence)'
  BY <1>11
<1>13. \A q \in Procs : proc'[q].pc \in Before => Imported(proc'[q], tree')
  BY <1>1, <1>3, Zenon DEF Imported
<1> QED BY <1>5, <1>7, <1>8, <1>9, <1>10, <1>12, <1>13, Zenon DEF CInv

\* A process that does not go on, or not yet.
LEMMA Aside ==
    ASSUME CInv, NEW p \in Procs, NEW new \in Process,
           UNCHANGED <<tree, receipts, docs, desk, other, spent, evidence, review>>,
           proc' = [proc EXCEPT ![p] = new],
           new.pc \notin Past, new.pc = "locked" => ~Busy,
           new.pc # "off" => Chosen(new) /\ Imported(new, tree)
    PROVE  CInv'
<1>1. /\ Stored /\ OneHolds
      /\ \A q \in Procs : proc[q].pc # "off" => Chosen(proc[q])
      /\ \A q \in Procs : proc[q].pc \in Before => Imported(proc[q], tree)
      /\ \A q \in Procs : proc[q].pc \in Past => Own(proc[q], evidence[proc[q].dir], spent)
      /\ \A x \in Dirs : Lies(evidence[x])
      /\ Analysis(review, evidence)
  BY Zenon DEF CInv
<1>2. proc \in [Procs -> Process]
  BY <1>1 DEF Stored
<1>3. /\ proc' \in [Procs -> Process] /\ proc'[p] = new
      /\ \A q \in Procs : q # p => proc'[q] = proc[q]
  BY <1>2, Others
<1>4. Stored'
  BY <1>1, <1>3 DEF Stored
<1>5. OneHolds'
  <2>1. \A q \in Procs : q # p => (Holding(q)' <=> Holding(q))
    BY <1>3, Zenon DEF Holding
  <2>2. new.pc \in {"off"} \cup Before
    BY DEF Process, Past, Before
  <2>3. Holding(p)' => ~Busy
    BY <1>3, <2>2 DEF Holding, Before
  <2>4. ~Busy => \A q \in Procs : ~Holding(q)
    BY Zenon DEF Busy
  <2> QED BY <1>1, <2>1, <2>3, <2>4, Zenon DEF OneHolds
<1>6. \A q \in Procs : proc'[q].pc # "off" => Chosen(proc'[q])
  BY <1>1, <1>3, Zenon
<1>7. \A q \in Procs : proc'[q].pc \in Past => Own(proc'[q], evidence'[proc'[q].dir], spent')
  BY <1>1, <1>3, Zenon
<1>8. \A x \in Dirs : Lies(evidence'[x])
  BY <1>1, Zenon
<1>9. Analysis(review, evidence)'
  BY <1>1, Zenon
<1>10. \A q \in Procs : proc'[q].pc \in Before => Imported(proc'[q], tree')
  <2>1. "off" \notin Before
    BY DEF Before
  <2> QED BY <1>1, <1>3, <2>1, Zenon DEF Imported
<1> QED BY <1>4, <1>5, <1>6, <1>7, <1>8, <1>9, <1>10, Zenon DEF CInv

-----------------------------------------------------------------------------
(* The beginning, and the steps of the operator and of other studies.      *)

LEMMA CInitial == CampaignInit => CInv
<1> SUFFICES ASSUME CampaignInit PROVE CInv
  OBVIOUS
<1>1. /\ proc = [p \in Procs |-> Unborn] /\ evidence = [d \in Dirs |-> Untouched]
      /\ spent = 0 /\ other = [research |-> 0, public |-> 0] /\ receipts = {} /\ docs = {} /\ desk = Nothing /\ review = Unread
      /\ tree.disk \in Sources /\ tree.edits = 0
      /\ tree = [disk |-> tree.disk, commits |-> tree.commits, edits |-> tree.edits]
  BY DEF CampaignInit
<1>2. Unborn \in Process
  BY DEF Unborn, Process
<1>3. Untouched \in Folder
  BY DEF Untouched, Folder
<1>4. Unborn.pc = "off"
  BY DEF Unborn
<1>5. \A p \in Procs : proc[p] = Unborn
  BY <1>1
<1>6. \A d \in Dirs : evidence[d] = Untouched
  BY <1>1
<1>7. Stored
  BY <1>1, <1>2, <1>3 DEF Stored
<1>8. OneHolds
  BY <1>4, <1>5 DEF OneHolds, Holding
<1>9. \A p \in Procs : proc[p].pc = "off"
  BY <1>4, <1>5
<1>10. Lies(Untouched)
  <2>1. /\ Untouched.freeze = Nothing /\ Untouched.runs = <<>> /\ Untouched.manifest = Nothing
        /\ Untouched.report = Nothing /\ Untouched.events = {}
    BY DEF Untouched
  <2>2. Filed(Untouched)
    BY <2>1 DEF Filed
  <2>3. Noted(Untouched) /\ Reported(Untouched)
    BY <2>1, Zenon DEF Noted, Reported
  <2> QED BY <2>2, <2>3, Zenon DEF Lies
<1>11. Analysis(review, evidence)
  <2>1. review.pc = "off" /\ Shaped(review)
    BY <1>1 DEF Unread, Shaped
  <2> QED BY <2>1 DEF Analysis, Analysing, Judged
<1>12. "off" \notin Past /\ "off" \notin Before
  BY DEF Past, Before
<1> QED BY <1>1, <1>6, <1>7, <1>8, <1>9, <1>10, <1>11, <1>12, Zenon DEF CInv

\* Steps that leave the processes and the directories alone.
LEMMA Elsewhere ==
    ASSUME CInv, UNCHANGED <<proc, spent, evidence, review>>, Stored',
           \A q \in Procs : proc[q].pc \in Before => Imported(proc[q], tree')
    PROVE  CInv'
<1>1. OneHolds'
  BY Zenon DEF CInv, OneHolds, Holding
<1>2. Analysis(review, evidence)'
  BY Zenon DEF CInv
<1>3. \A q \in Procs : proc'[q].pc \in Before => Imported(proc[q], tree')
  BY Zenon
<1> QED BY <1>1, <1>2, <1>3, Zenon DEF CInv

LEMMA SameTree ==
    ASSUME CInv, UNCHANGED <<tree, proc, spent, evidence, review>>, Stored'
    PROVE  CInv'
<1>1. \A q \in Procs : proc[q].pc \in Before => Imported(proc[q], tree')
  BY Zenon DEF CInv, Imported
<1> QED BY <1>1, Elsewhere

LEMMA EditStep ==
    ASSUME CInv, EditTree
    PROVE  CInv'
<1>1. PICK s \in Sources, new \in SUBSET Sources :
        tree' = [disk |-> s, commits |-> tree.commits \cup new, edits |-> tree.edits + 1]
  BY DEF EditTree
<1>2. UNCHANGED <<receipts, docs, desk, proc, spent, other, evidence, review>>
  BY DEF EditTree
<1>3. Stored /\ tree.edits \in Nat /\ \A q \in Procs : proc[q].pc \in Before => Imported(proc[q], tree)
  BY Zenon DEF CInv, Stored
<1>4. /\ tree'.disk \in Sources /\ tree'.edits = tree.edits + 1
      /\ tree' = [disk |-> tree'.disk, commits |-> tree'.commits, edits |-> tree'.edits]
  BY <1>1
<1>5. Stored'
  BY <1>2, <1>3, <1>4 DEF Stored
<1>6. ASSUME NEW q \in Procs, proc[q].pc \in Before PROVE Imported(proc[q], tree')
  <2>1. proc'[q].edits = proc[q].edits /\ proc[q].edits \in Nat /\ proc[q].edits <= tree.edits
    BY <1>2, <1>3, <1>6 DEF Imported, Stored, Process
  <2> QED BY <1>3, <1>4, <2>1 DEF Imported
<1> QED BY <1>2, <1>5, <1>6, Elsewhere

LEMMA DeskStep ==
    ASSUME CInv, EditDocument \/ VerifyFixtures \/ StartFreeze \/ CheckCommit \/ FreezeDocument
    PROVE  CInv'
<1>1. Stored
  BY DEF CInv
<1>2. /\ tree.disk \in Sources /\ receipts \subseteq Receipt
      /\ docs \subseteq Document /\ \A x \in docs : x.receipt \in Receipt
      /\ desk # Nothing =>
           /\ desk = [protocol |-> desk.protocol, receipt |-> desk.receipt, source |-> desk.source]
           /\ desk.source \in Sources
           /\ desk.protocol # "none" => desk.protocol \in Protocols /\ desk.receipt \in Receipt
  BY <1>1 DEF Stored
<1>3. CASE EditDocument
  <2>1. docs' \subseteq Document /\ \A x \in docs' : x.receipt \in Receipt
    <3>1. ASSUME NEW x \in docs, NEW i \in Images,
                 NEW y, y = [x EXCEPT !.receipt = [@ EXCEPT !.image = i], !.sealed = FALSE]
          PROVE  y \in Document /\ y.receipt \in Receipt
      <4>1. x.receipt \in Receipt /\ x \in Document
        BY <1>2
      <4>2. [x.receipt EXCEPT !.image = i] \in Receipt
        BY <4>1 DEF Receipt
      <4>3. y.receipt = [x.receipt EXCEPT !.image = i]
        BY <3>1, <4>1 DEF Document
      <4> QED BY <3>1, <4>1, <4>2, <4>3 DEF Document
    <3>2. \E x \in docs, i \in Images :
            docs' = docs \cup {[x EXCEPT !.receipt = [@ EXCEPT !.image = i], !.sealed = FALSE]}
      BY <1>3 DEF EditDocument
    <3> QED BY <1>2, <3>1, <3>2
  <2>2. UNCHANGED <<tree, receipts, desk, proc, spent, other, evidence, review>>
    BY <1>3 DEF EditDocument
  <2>3. Stored'
    BY <1>1, <2>1, <2>2 DEF Stored
  <2> QED BY <2>2, <2>3, SameTree
<1>4. CASE VerifyFixtures
  <2>1. receipts' \subseteq Receipt
    BY <1>2, <1>4 DEF VerifyFixtures, Receipt, Tasksets
  <2>2. UNCHANGED <<tree, docs, desk, proc, spent, other, evidence, review>>
    BY <1>4 DEF VerifyFixtures
  <2>3. Stored'
    BY <1>1, <2>1, <2>2 DEF Stored
  <2> QED BY <2>2, <2>3, SameTree
<1>5. CASE StartFreeze
  <2>1. /\ UNCHANGED <<tree, receipts, docs, proc, spent, other, evidence, review>>
        /\ desk' = [protocol |-> "none", receipt |-> Nothing, source |-> tree.disk]
    BY <1>5 DEF StartFreeze
  <2>2. Stored'
    BY <1>1, <1>2, <2>1 DEF Stored
  <2> QED BY <2>1, <2>2, SameTree
<1>6. CASE CheckCommit
  <2>1. UNCHANGED <<tree, receipts, docs, proc, spent, other, evidence, review>> /\ desk # Nothing
    BY <1>6 DEF CheckCommit
  <2>2. ASSUME NEW protocol \in Protocols, NEW r \in Receipt,
               desk' = [desk EXCEPT !.protocol = protocol, !.receipt = r]
        PROVE  /\ desk' = [protocol |-> desk'.protocol, receipt |-> desk'.receipt,
                           source |-> desk'.source]
               /\ desk'.source \in Sources
               /\ desk'.protocol \in Protocols /\ desk'.receipt \in Receipt
    <3> DEFINE a == desk.protocol
               c == desk.receipt
               k == desk.source
    <3>1. desk = [protocol |-> a, receipt |-> c, source |-> k] /\ k \in Sources
      BY <1>2, <2>1
    <3> HIDE DEF a, c, k
    <3>2. desk' = [protocol |-> protocol, receipt |-> r, source |-> k]
      BY <2>2, <3>1
    <3> QED BY <3>1, <3>2
  <2>3. \E protocol \in Protocols, r \in Receipt :
           desk' = [desk EXCEPT !.protocol = protocol, !.receipt = r]
    <3>1. "pilot" \in Protocols /\ "replication" \in Protocols
      BY DEF Protocols
    <3>2. \/ \E r \in receipts : desk' = [desk EXCEPT !.protocol = "pilot", !.receipt = r]
          \/ \E x \in docs : desk' = [desk EXCEPT !.protocol = "replication", !.receipt = x.receipt]
      BY <1>6, Zenon DEF CheckCommit
    <3> QED BY <1>2, <3>1, <3>2
  <2>4. Stored'
    BY <1>1, <2>1, <2>2, <2>3 DEF Stored
  <2> QED BY <2>1, <2>4, SameTree
<1>7. CASE FreezeDocument
  <2>1. /\ UNCHANGED <<tree, receipts, proc, spent, other, evidence, review>> /\ desk' = Nothing
        /\ desk # Nothing /\ desk.protocol # "none"
    BY <1>7 DEF FreezeDocument
  <2> DEFINE y == [protocol |-> desk.protocol, receipt |-> desk.receipt,
                   catalog |-> desk.source.catalog, source |-> tree.disk, sealed |-> TRUE]
  <2>2. y \in Document /\ y.receipt \in Receipt
    BY <1>2, <2>1 DEF Document, Tasksets
  <2>3. docs' \subseteq Document /\ \A x \in docs' : x.receipt \in Receipt
    <3>1. docs' = docs \cup {y}
      BY <1>7 DEF FreezeDocument
    <3> HIDE DEF y
    <3> QED BY <1>2, <2>2, <3>1
  <2>4. Stored'
    BY <1>1, <2>1, <2>3 DEF Stored
  <2> QED BY <2>1, <2>4, SameTree
<1> QED BY <1>3, <1>4, <1>5, <1>6, <1>7

LEMMA OtherStep ==
    ASSUME CInv, OtherSpending
    PROVE  CInv'
<1>1. Stored /\ other \in [research : Nat, public : Nat]
  BY DEF CInv, Stored
<1>2. PICK b \in {"research", "public"}, n \in {-1, 1} :
        other[b] + n >= 0 /\ other' = [other EXCEPT ![b] = @ + n]
  BY DEF OtherSpending
<1>3. UNCHANGED <<tree, receipts, docs, desk, proc, spent, evidence, review>>
  BY DEF OtherSpending
<1>4. other' \in [research : Nat, public : Nat]
  <2>1. other.research \in Nat /\ other.public \in Nat
    BY <1>1
  <2>2. CASE b = "research"
    <3>1. other.research + n \in Nat
      BY <1>2, <2>1, <2>2
    <3> QED BY <1>1, <1>2, <2>2, <3>1
  <2>3. CASE b = "public"
    <3>1. other.public + n \in Nat
      BY <1>2, <2>1, <2>3
    <3> QED BY <1>1, <1>2, <2>3, <3>1
  <2> QED BY <1>2, <2>2, <2>3
<1>5. Stored'
  BY <1>1, <1>3, <1>4 DEF Stored
<1> QED BY <1>3, <1>5, SameTree

-----------------------------------------------------------------------------
(* The analysis.                                                           *)

LEMMA Judging ==
    ASSUME CInv, UNCHANGED <<tree, receipts, docs, desk, proc, spent, other, evidence>>,
           Analysis(review', evidence)
    PROVE  CInv'
<1>1. Stored'
  BY Zenon DEF CInv, Stored
<1>2. OneHolds'
  BY Zenon DEF CInv, OneHolds, Holding
<1>3. \A q \in Procs : proc'[q].pc \in Before => Imported(proc'[q], tree')
  BY Zenon DEF CInv, Imported
<1> QED BY <1>1, <1>2, <1>3, Zenon DEF CInv

LEMMA ReadStep ==
    ASSUME CInv, ReadManifest
    PROVE  CInv'
<1>1. Stored /\ \A x \in Dirs : Lies(evidence[x])
  BY Zenon DEF CInv
<1>2. UNCHANGED <<tree, receipts, docs, desk, proc, spent, other, evidence>>
  BY DEF ReadManifest, Keep
<1>3. PICK d \in Dirs :
        /\ evidence[d].manifest # Nothing /\ evidence[d].freeze.protocol # "reference"
        /\ review' = [Unread EXCEPT !.pc = "runs", !.dir = d, !.manifest = evidence[d].manifest]
  BY DEF ReadManifest
<1> DEFINE e == evidence[d]
           m == e.manifest
<1>4. Noted(e) /\ e \in Folder
  BY <1>1 DEF Lies, Stored
<1>5. m \in Note
  BY <1>3, <1>4 DEF Folder
<1>6. m.freeze = e.freeze
  BY <1>3, <1>4, Zenon DEF Noted
<1>7. review'.pc = "runs" /\ review'.dir = d /\ review'.manifest = m /\ Shaped(review')
  BY <1>3 DEF Unread, Shaped
<1>8. Analysing(review', evidence)
  BY <1>3, <1>5, <1>6, <1>7 DEF Analysing
<1>9. Judged(review', evidence)
  BY <1>7 DEF Judged
<1>10. Analysis(review', evidence)
  BY <1>7, <1>8, <1>9 DEF Analysis
<1> QED BY <1>2, <1>10, Judging

\* An analysis that reads a whole record lists what was planned.
LEMMA SummaryIs ==
    ASSUME NEW doc \in Document, NEW q \in Seq(Record), FirstOf(doc, q), Len(q) = Len(Order(doc)),
           NEW x \in DOMAIN Summary(doc, q)
    PROVE  Summary(doc, q)[x].attempted = Summary(doc, q)[x].planned
<1>1. x \in Strata(doc)
  BY DEF Summary
<1>2. /\ Summary(doc, q)[x].attempted = Cardinality(Of(q, x.split, x.policy))
      /\ Summary(doc, q)[x].planned = Cardinality(Planned(doc, x.split, x.policy))
  BY <1>1 DEF Summary
<1>3. Cardinality(Of(q, x.split, x.policy)) = Cardinality(Planned(doc, x.split, x.policy))
  BY AllAttempted
<1> QED BY <1>2, <1>3

\* A settled directory without a failed write passes the pilot's analysis,
\* and the replication's unless it has a cause.
LEMMA Passes ==
    ASSUME NEW m \in Note, NEW e \in Folder, m.freeze = e.freeze, e.manifest = m, Lies(e),
           m.status # "running", m.freeze.protocol # "reference", e.broken = FALSE, spent \in Nat,
           other \in [research : Nat, public : Nat]
    PROVE  /\ Reconciles(m, e)
           /\ \/ Publishable(m, e) \/ m.status = "incomplete"
              \/ ~Undisturbed(m.start, m.end) \/ ~Undisturbed(m.start, Now)
              \/ Now.own # m.end.own
              \/ \E i \in DOMAIN e.runs : e.runs[i].status = "budget_exhausted"
<1>1. Told(m, e) /\ Filed(e)
  BY There, Zenon DEF Lies, Noted
<1>2. m.freeze \in Document /\ m.status \in {"complete", "incomplete"} /\ e.runs \in Seq(Record)
      /\ m.start \in Snapshot /\ e.raw \in Seq(Nat) /\ e.events \subseteq Nat
  BY DEF Note, Folder
<1>3. m.freeze # Nothing
  BY <1>2, There, Zenon
<1>4. /\ FirstOf(e.freeze, e.runs)
      /\ \A i \in DOMAIN e.runs :
            /\ e.runs[i].id = i /\ i \in e.events
            /\ e.runs[i].status = "interrupted" => e.freeze.protocol = "reference"
      /\ e.events \subseteq 1..Len(Order(e.freeze))
  BY <1>1, <1>3, Zenon DEF Filed
<1>5. /\ IsInjective([i \in DOMAIN e.runs |-> e.runs[i].cell])
      /\ Cells(e.runs) \subseteq Range(Order(m.freeze))
      /\ Cells(e.runs) = Range(Order(m.freeze)) <=> Len(e.runs) = Len(Order(m.freeze))
  BY <1>2, <1>4, FirstRows
<1>6. /\ m.completed = Len(e.runs) /\ m.missing = MissingOf(e.freeze, e.runs)
      /\ Len(e.raw) = Len(e.runs) /\ \A i \in DOMAIN e.raw : e.raw[i] = i
      /\ e.torn = FALSE /\ m.end \in Snapshot /\ m.start.own <= m.end.own
      /\ m.delta = Spending(m.start, m.end)
      /\ m.status = "complete" <=> m.missing = {}
  BY <1>1 DEF Told
<1>7. Reconciles(m, e)
  <2>1. m.missing = MissingOf(m.freeze, e.runs)
    BY <1>6, Zenon
  <2>2. m.status = IF m.missing = {} THEN "complete" ELSE "incomplete"
    BY <1>2, <1>6
  <2>3. Len(e.runs) = m.completed
    BY <1>6
  <2> QED BY <1>5, <2>1, <2>2, <2>3, Zenon DEF Reconciles
<1>8. ASSUME m.status # "incomplete", Undisturbed(m.start, m.end), Undisturbed(m.start, Now),
             Now.own = m.end.own,
             \A i \in DOMAIN e.runs : e.runs[i].status # "budget_exhausted"
      PROVE  Publishable(m, e)
  <2>1. /\ m.status = "complete" /\ Len(e.runs) = Len(Order(m.freeze))
        /\ CostOf(e.runs) = m.end.own - m.start.own
    BY <1>1, <1>2, <1>8 DEF Told
  <2>2. \A i \in DOMAIN e.runs : e.runs[i].status \in {"completed", "failed"}
    <3>1. \A i \in DOMAIN e.runs : e.runs[i].status \in Ended
      BY <1>2, Records
    <3> QED BY <1>4, <1>8, <3>1 DEF Ended
  <2>3. DOMAIN e.raw = DOMAIN e.runs /\ DOMAIN e.runs = 1..Len(e.runs)
    BY <1>2, <1>6
  <2>4. Range(e.raw) = DOMAIN e.runs
    BY <1>6, <2>3 DEF Range
  <2>5. {e.runs[i].id : i \in DOMAIN e.runs} = DOMAIN e.runs
    BY <1>4
  <2>6. e.events = DOMAIN e.runs
    BY <1>4, <2>1, <2>3
  <2>7. /\ m.start.own \in Nat /\ m.start.research \in Nat /\ m.start.public \in Nat
        /\ m.end.own \in Nat
        /\ Charged(m.end) - Charged(m.start) = (m.end.own - m.start.own) + OthersSince(m.start, m.end)
    BY <1>2, <1>6, Money
  <2>8. m.end.research = m.start.research /\ m.end.public = m.start.public
        /\ Now.research = m.start.research /\ Now.public = m.start.public
    BY <1>8 DEF Undisturbed
  <2>9. CostOf(e.runs) = m.delta
    <3>1. OthersSince(m.start, m.end) = 0
      BY <2>7, <2>8 DEF OthersSince
    <3>2. Charged(m.end) - Charged(m.start) = m.end.own - m.start.own /\ m.end.own - m.start.own \in Nat
      BY <1>6, <2>7, <3>1
    <3> QED BY <1>6, <2>1, <3>2 DEF Spending, AtLeast0
  <2>10. Research(Now) - Research(m.start) = CostOf(e.runs)
    <3>1. Research(Now) = m.end.own + m.start.research
      BY <1>8, <2>8 DEF Research
    <3>2. Research(m.start) = m.start.own + m.start.research
      BY DEF Research
    <3> QED BY <2>1, <2>7, <3>1, <3>2
  <2>11. other.public = m.start.public
    BY <2>8 DEF Now
  <2> QED BY <1>5, <1>6, <2>1, <2>2, <2>4, <2>5, <2>6, <2>9, <2>10, <2>11 DEF Publishable
<1> QED BY <1>7, <1>8

LEMMA AnalyseStep ==
    ASSUME CInv, Analyse
    PROVE  CInv'
<1> DEFINE v == review
           m == review.manifest
           e == evidence[review.dir]
           w == review'
           fit == IF m.freeze.protocol = "pilot" THEN Reconciles(m, e) ELSE Publishable(m, e)
<1>1. Stored /\ Analysis(review, evidence) /\ \A x \in Dirs : Lies(evidence[x])
  BY Zenon DEF CInv
<1>2. UNCHANGED <<tree, receipts, docs, desk, proc, spent, other, evidence>> /\ v.pc = "runs"
  BY DEF Analyse, Keep
<1>3. Shaped(v) /\ Analysing(v, evidence)
  BY <1>1 DEF Analysis
<1>4. w = IF fit
          THEN [v EXCEPT !.pc = "over", !.status = m.status, !.runs = e.runs,
                         !.summary = Summary(m.freeze, e.runs),
                         !.compared = Compared(m.freeze, e.runs),
                         !.effect = Effect(e.runs), !.ledger = Now]
          ELSE [v EXCEPT !.pc = "over", !.status = "refused", !.ledger = Now]
  BY DEF Analyse
<1>5. /\ v.dir \in Dirs /\ m \in Note /\ m.freeze.protocol # "reference" /\ m.freeze = e.freeze
      /\ m.status # "running" => e.manifest = m
  BY <1>2, <1>3 DEF Analysing
<1>6. e \in Folder /\ Lies(e) /\ spent \in Nat /\ other \in [research : Nat, public : Nat]
  BY <1>1, <1>5 DEF Stored
<1>7. m.freeze \in Document /\ e.runs \in Seq(Record) /\ e.broken \in BOOLEAN
      /\ m.status \in {"running", "complete", "incomplete"}
  BY <1>5, <1>6 DEF Note, Folder
<1>8. m.freeze # Nothing
  BY <1>7, There, Zenon
<1>9. FirstOf(m.freeze, e.runs)
  BY <1>5, <1>6, <1>8, Zenon DEF Lies, Filed
<1>10. /\ MissingOf(m.freeze, e.runs) = {} <=> Len(e.runs) = Len(Order(m.freeze))
       /\ Cells(e.runs) = Range(Order(m.freeze)) <=> Len(e.runs) = Len(Order(m.freeze))
  BY <1>7, <1>9, FirstRows
<1>11. CASE fit
  <2>1. /\ w.pc = "over" /\ w.dir = v.dir /\ w.manifest = m /\ w.status = m.status
        /\ w.runs = e.runs /\ w.summary = Summary(m.freeze, e.runs) /\ Shaped(w)
    BY <1>3, <1>4, <1>11 DEF Shaped
  <2>2. m.status \in {"complete", "incomplete"}
        /\ (m.status = "complete" <=> Len(e.runs) = Len(Order(m.freeze)))
    <3>1. CASE m.freeze.protocol = "pilot"
      BY <1>10, <1>11, <3>1 DEF Reconciles
    <3>2. CASE m.freeze.protocol # "pilot"
      BY <1>10, <1>11, <3>2 DEF Publishable
    <3> QED BY <3>1, <3>2
  <2>3. Told(m, e)
    BY <1>5, <1>6, <1>8, <2>2, There, Zenon DEF Lies, Noted
  <2>4. m.status = "complete" => m.delta = AtLeast0(CostOf(e.runs) + OthersSince(m.start, m.end))
    <3>1. /\ m.end \in Snapshot /\ m.start \in Snapshot /\ m.delta = Spending(m.start, m.end)
          /\ m.status = "complete" => CostOf(e.runs) = m.end.own - m.start.own
      BY <1>5, <2>3 DEF Told, Note
    <3>2. Charged(m.end) - Charged(m.start) = (m.end.own - m.start.own) + OthersSince(m.start, m.end)
      BY <3>1, Money
    <3> QED BY <3>1, <3>2, Zenon DEF Spending
  <2>5. m.status = "complete" =>
          \A x \in DOMAIN w.summary : w.summary[x].attempted = w.summary[x].planned
    BY <1>7, <1>9, <2>1, <2>2, SummaryIs
  <2>6. \A i \in DOMAIN e.runs : e.runs[i].cell = Order(e.freeze)[i]
    BY <1>5, <1>7, <1>9, Records DEF FirstOf
  <2>7. w.status # "refused" /\ w.status # "running"
    BY <2>1, <2>2
  <2>8. ARecord(w, evidence)
    <3>1. w.manifest.status # "running" /\ w.runs = evidence[w.dir].runs
      BY <2>1, <2>7
    <3>2. w.status = "complete" <=> Len(evidence[w.dir].runs) = Len(Order(evidence[w.dir].freeze))
      BY <1>5, <2>1, <2>2
    <3>3. w.status = "complete" =>
            w.manifest.delta = AtLeast0(CostOf(evidence[w.dir].runs)
                                        + OthersSince(w.manifest.start, w.manifest.end))
      BY <2>1, <2>4, Zenon
    <3>4. w.status = "complete" =>
            \A x \in DOMAIN w.summary : w.summary[x].attempted = w.summary[x].planned
      BY <2>1, <2>5
    <3>5. \A i \in DOMAIN evidence[w.dir].runs :
            evidence[w.dir].runs[i].cell = Order(evidence[w.dir].freeze)[i]
      BY <2>1, <2>6
    <3> QED BY <3>1, <3>2, <3>3, <3>4, <3>5, Zenon DEF ARecord
  <2>9. Judged(w, evidence)
    BY <2>7, <2>8, Zenon DEF Judged
  <2>10. Analysing(w, evidence)
    BY <1>5, <2>1 DEF Analysing
  <2>11. Analysis(w, evidence)
    BY <2>1, <2>9, <2>10 DEF Analysis
  <2> QED BY <1>2, <2>11, Judging
<1>12. CASE ~fit
  <2>1. /\ w.pc = "over" /\ w.dir = v.dir /\ w.manifest = m /\ w.status = "refused" /\ Shaped(w)
        /\ w.ledger = Now
    BY <1>3, <1>4, <1>12 DEF Shaped
  <2>2. m.status # "running" /\ e.broken # TRUE =>
           /\ m.freeze.protocol = "replication"
           /\ \/ m.status = "incomplete"
              \/ ~Undisturbed(m.start, m.end) \/ ~Undisturbed(m.start, Now)
              \/ Now.own # m.end.own
              \/ \E i \in DOMAIN e.runs : e.runs[i].status = "budget_exhausted"
    <3> SUFFICES ASSUME m.status # "running", e.broken # TRUE
                 PROVE  /\ m.freeze.protocol = "replication"
                        /\ \/ m.status = "incomplete"
                           \/ ~Undisturbed(m.start, m.end) \/ ~Undisturbed(m.start, Now)
                           \/ Now.own # m.end.own
                           \/ \E i \in DOMAIN e.runs : e.runs[i].status = "budget_exhausted"
      OBVIOUS
    <3>1. e.broken = FALSE /\ e.manifest = m
      BY <1>5, <1>7
    <3>2. /\ Reconciles(m, e)
          /\ \/ Publishable(m, e) \/ m.status = "incomplete"
             \/ ~Undisturbed(m.start, m.end) \/ ~Undisturbed(m.start, Now)
             \/ Now.own # m.end.own
             \/ \E i \in DOMAIN e.runs : e.runs[i].status = "budget_exhausted"
      BY <1>5, <1>6, <3>1, Passes
    <3>3. m.freeze.protocol \in Protocols
      BY <1>7 DEF Document
    <3>4. m.freeze.protocol = "replication"
      BY <1>5, <1>12, <3>2, <3>3 DEF Protocols
    <3>5. ~Publishable(m, e)
      BY <1>12, <3>4
    <3> QED BY <3>2, <3>4, <3>5
  <2>3. ACause(w, evidence)
    BY <2>1, <2>2, Zenon DEF ACause
  <2>4. Judged(w, evidence)
    BY <2>1, <2>3, Zenon DEF Judged
  <2>5. Analysing(w, evidence)
    BY <1>5, <2>1 DEF Analysing
  <2>6. Analysis(w, evidence)
    BY <2>1, <2>4, <2>5 DEF Analysis
  <2> QED BY <1>2, <2>6, Judging
<1> QED BY <1>11, <1>12

-----------------------------------------------------------------------------
(* A process is launched, takes the lock and verifies.                     *)

LEMMA UnbornIs ==
    /\ Unborn \in Process /\ Unborn.pc = "off" /\ Unborn.at = 1 /\ Unborn.results = <<>>
    /\ Unborn.stop = FALSE
<1>1. Unborn \in Process
  BY DEF Unborn, Process
<1> QED BY <1>1 DEF Unborn

LEMMA LaunchStep ==
    ASSUME CInv, NEW p \in Procs, Launch(p)
    PROVE  CInv'
<1>1. tree.disk \in Sources /\ tree.edits \in Nat
  BY DEF CInv, Stored
<1>2. UNCHANGED <<tree, receipts, docs, desk, other, spent, evidence, review>>
  BY DEF Launch, Keep
<1>3. PICK script \in Protocols, d \in Dirs, i \in Images :
        Set(p, [Unborn EXCEPT !.pc = "launched", !.script = script, !.dir = d,
                              !.image = IF script = "reference" THEN Nothing ELSE i,
                              !.source = tree.disk, !.edits = tree.edits])
  BY DEF Launch, Protocols
<1> DEFINE image == IF script = "reference" THEN Nothing ELSE i
<1>4. image \in Images \cup {Nothing}
  OBVIOUS
<1> DEFINE new == [Unborn EXCEPT !.pc = "launched", !.script = script, !.dir = d, !.image = image,
                                 !.source = tree.disk, !.edits = tree.edits]
<1>5. proc' = [proc EXCEPT ![p] = new]
  BY <1>3 DEF Set
<1> HIDE DEF image
<1>6. new \in Process
  BY <1>1, <1>4, UnbornIs DEF Process
<1>7. /\ new.pc = "launched" /\ new.script = script /\ new.dir = d /\ new.at = 1
      /\ new.results = <<>> /\ new.stop = FALSE /\ new.source = tree.disk /\ new.edits = tree.edits
  BY DEF Unborn
<1> HIDE DEF new
<1>8. Chosen(new) /\ Imported(new, tree) /\ new.pc \notin Past
  BY <1>1, <1>7 DEF Chosen, Imported, Before, Past
<1>9. new.pc # "locked"
  BY <1>7
<1> QED BY <1>2, <1>5, <1>6, <1>8, <1>9, Aside

\* A process is refused.
LEMMA Refused ==
    ASSUME CInv, NEW p \in Procs, Keep, UNCHANGED <<other, spent, evidence, review>>, Set(p, Unborn)
    PROVE  CInv'
<1>1. proc' = [proc EXCEPT ![p] = Unborn] /\ Unborn.pc \notin Past
  BY UnbornIs DEF Set, Past
<1>2. UNCHANGED <<tree, receipts, docs, desk, other, spent, evidence, review>>
  BY DEF Keep
<1> QED BY <1>1, <1>2, UnbornIs, Aside

LEMMA VerifiesStep ==
    ASSUME CInv, NEW p \in Procs, Check(p)
    PROVE  CInv'
<1> DEFINE j == proc[p]
<1>1. j \in Process /\ j.pc = "launched" /\ docs \subseteq Document
  BY DEF CInv, Stored, Check
<1>2. Keep /\ UNCHANGED <<other, spent, evidence, review>>
  BY DEF Check
<1>3. Chosen(j) /\ Imported(j, tree)
  BY <1>1 DEF CInv, Before
<1>4. ASSUME NEW doc \in Document \cup {Nothing}, j.script = "pilot" => doc \in Document,
             j.script = "reference" => j.source.catalog = Published,
             Set(p, [j EXCEPT !.pc = "checked", !.doc = doc])
      PROVE  CInv'
  <2> DEFINE new == [j EXCEPT !.pc = "checked", !.doc = doc]
  <2>1. new \in Process
    BY <1>1 DEF Process
  <2>2. /\ new.pc = "checked" /\ new.doc = doc /\ new.dir = j.dir /\ new.at = j.at
        /\ new.results = j.results /\ new.stop = j.stop /\ new.source = j.source
        /\ new.script = j.script /\ new.edits = j.edits
    BY <1>1 DEF Process
  <2>3. proc' = [proc EXCEPT ![p] = new]
    BY <1>4 DEF Set
  <2>4. UNCHANGED <<tree, receipts, docs, desk, other, spent, evidence, review>>
    BY <1>2 DEF Keep
  <2> HIDE DEF new
  <2>5. Chosen(new) /\ Imported(new, tree) /\ new.pc \notin Past
    BY <1>1, <1>3, <1>4, <2>2 DEF Chosen, Imported, Before, Past
  <2>6. new.pc # "locked"
    BY <2>2
  <2> QED BY <2>1, <2>3, <2>4, <2>5, <2>6, Aside
<1>5. CASE \E doc \in docs : j.script = "pilot" /\ Set(p, [j EXCEPT !.pc = "checked", !.doc = doc])
  BY <1>1, <1>4, <1>5
<1>6. CASE /\ j.script # "pilot" /\ Set(p, [j EXCEPT !.pc = "checked"])
           /\ j.script = "reference" => j.source.catalog = Published
  <2>1. [j EXCEPT !.pc = "checked"] = [j EXCEPT !.pc = "checked", !.doc = j.doc]
        /\ j.doc \in Document \cup {Nothing}
    BY <1>1 DEF Process
  <2> HIDE DEF j
  <2> QED BY <1>4, <1>6, <2>1
<1>7. CASE Set(p, Unborn)
  BY <1>2, <1>7, Refused
<1> QED BY <1>5, <1>6, <1>7, Zenon DEF Check

LEMMA LockStep ==
    ASSUME CInv, NEW p \in Procs, Lock(p)
    PROVE  CInv'
<1> DEFINE j == proc[p]
<1>1. j \in Process /\ j.pc = "checked"
  BY DEF CInv, Stored, Lock
<1>2. Keep /\ UNCHANGED <<other, spent, evidence, review>>
  BY DEF Lock
<1>3. Chosen(j) /\ Imported(j, tree)
  BY <1>1 DEF CInv, Before
<1>4. CASE ~Busy /\ Set(p, [j EXCEPT !.pc = "locked"])
  <2> DEFINE new == [j EXCEPT !.pc = "locked"]
  <2>1. new \in Process
    BY <1>1 DEF Process
  <2>2. /\ new.pc = "locked" /\ new.doc = j.doc /\ new.dir = j.dir /\ new.at = j.at
        /\ new.results = j.results /\ new.stop = j.stop /\ new.source = j.source
        /\ new.script = j.script /\ new.edits = j.edits
    BY <1>1 DEF Process
  <2>3. proc' = [proc EXCEPT ![p] = new]
    BY <1>4 DEF Set
  <2>4. UNCHANGED <<tree, receipts, docs, desk, other, spent, evidence, review>>
    BY <1>2 DEF Keep
  <2> HIDE DEF new
  <2>5. Chosen(new) /\ Imported(new, tree) /\ new.pc \notin Past
    BY <1>1, <1>3, <2>2 DEF Chosen, Imported, Before, Past
  <2> QED BY <1>4, <2>1, <2>3, <2>4, <2>5, Aside
<1>5. CASE Set(p, Unborn)
  BY <1>2, <1>5, Refused
<1> QED BY <1>4, <1>5 DEF Lock

LEMMA SetupStep ==
    ASSUME CInv, NEW p \in Procs, Setup(p)
    PROVE  CInv'
<1> DEFINE j == proc[p]
           d == j.dir
           e == evidence[d]
           cap == Smaller(Cap, LedgerLeft)
           edited == tree.edits # j.edits
           after == [e EXCEPT !.opened = TRUE]
<1>1. /\ j \in Process /\ spent \in Nat /\ tree.disk \in Sources /\ evidence \in [Dirs -> Folder]
      /\ docs \subseteq Document /\ other \in [research : Nat, public : Nat]
      /\ \A x \in Dirs : Lies(evidence[x])
  BY DEF CInv, Stored
<1>2. j.pc = "locked" /\ Keep /\ UNCHANGED <<spent, other, review>>
  BY DEF Setup
<1>3. Chosen(j) /\ Imported(j, tree) /\ "locked" \notin Past
  BY <1>2 DEF CInv, Before, Past
<1>4. /\ d \in Dirs /\ j.at = 1 /\ j.results = <<>> /\ j.stop = FALSE /\ j.source \in Sources
      /\ j.script \in Protocols /\ (j.script = "pilot" => j.doc \in Document)
      /\ (j.script = "reference" => j.source.catalog = Published)
  BY <1>2, <1>3 DEF Chosen
<1>5. CASE Set(p, Unborn) /\ UNCHANGED evidence
  BY <1>2, <1>5, Refused
<1>6. ASSUME NEW doc \in Offered(j), ~e.opened,
             j.script # "reference" => Frozen(doc, j.source, j.image),
             Set(p, [j EXCEPT !.pc = "freeze", !.doc = doc, !.start = Now, !.cap = cap,
                              !.edited = edited]),
             evidence' = [evidence EXCEPT ![d].opened = TRUE]
      PROVE  CInv'
  <2> DEFINE new == [j EXCEPT !.pc = "freeze", !.doc = doc, !.start = Now, !.cap = cap,
                              !.edited = edited]
  <2>1. e = Untouched /\ e \in Folder
    <3>1. e \in Folder /\ Filed(e)
      BY <1>1, <1>4 DEF Lies
    <3>2. e.opened = FALSE
      BY <1>6, <3>1 DEF Folder
    <3> QED BY <3>1, <3>2 DEF Filed
  <2>2. /\ after.freeze = Nothing /\ after.manifest = Nothing /\ after.report = Nothing
        /\ after.opened = TRUE /\ after.runs = <<>> /\ after.raw = <<>> /\ after.events = {}
        /\ after.torn = FALSE /\ after.broken = FALSE /\ after \in Folder
    <3> HIDE DEF e
    <3>1. after = [Untouched EXCEPT !.opened = TRUE]
      BY <2>1
    <3>2. after \in Folder
      BY <2>1 DEF Folder
    <3> HIDE DEF after
    <3> QED BY <3>1, <3>2 DEF Untouched
  <2>3. doc \in Document
    <3>1. CASE j.script = "pilot"
      BY <1>4, <3>1 DEF Offered
    <3>2. CASE j.script = "replication"
      BY <1>1, <3>2 DEF Offered
    <3>3. CASE j.script = "reference"
      <4>1. ReferencePlan \in Document
        BY <1>1, <1>4, <3>3 DEF ReferencePlan, Document, Protocols, Tasksets
      <4> QED BY <3>3, <4>1 DEF Offered
    <3> QED BY <1>4, <3>1, <3>2, <3>3 DEF Protocols
  <2>4. Now \in Snapshot /\ Now.own = spent
    BY <1>1, Snapshots
  <2>5. cap \in Nat
    <3>1. Cap \in Nat /\ LedgerLeft \in Nat
      <4>1. ResearchCap - Research(Now) \in Int /\ LedgerCap - Charged(Now) \in Int
        BY <2>4, CampaignAssumption DEF Snapshot, Research, Charged
      <4> QED BY <4>1, CampaignAssumption DEF LedgerLeft, Smaller, AtLeast0
    <3> QED BY <3>1 DEF Smaller
  <2> HIDE DEF cap
  <2>6. new \in Process
    <3>1. edited \in BOOLEAN
      OBVIOUS
    <3> HIDE DEF edited
    <3> QED BY <1>1, <2>3, <2>4, <2>5, <3>1 DEF Process
  <2>7. /\ new.pc = "freeze" /\ new.start = Now /\ new.at = 1 /\ new.results = <<>>
        /\ new.stop = FALSE /\ new.dir = d /\ new.image = j.image /\ new.doc = doc
        /\ new.source = j.source /\ new.edited = edited /\ new.script = j.script
    BY <1>1, <1>4 DEF Process
  <2>8. proc' = [proc EXCEPT ![p] = new] /\ evidence' = [evidence EXCEPT ![d] = after]
    BY <1>1, <1>4, <1>6 DEF Set
  <2>9. AsFrozen(doc, j.source, edited, j.image)
    <3>1. doc.source = tree.disk /\ doc.catalog = j.source.catalog
      <4>1. CASE j.script = "reference"
        BY <1>4, <4>1 DEF Offered, ReferencePlan
      <4>2. CASE j.script # "reference"
        BY <1>6, <4>2 DEF Frozen
      <4> QED BY <4>1, <4>2
    <3>2. edited = TRUE \/ j.source = tree.disk
      BY <1>3 DEF Imported
    <3>3. ASSUME doc.protocol # "reference"
          PROVE  /\ doc.sealed = TRUE /\ doc.receipt.passed = TRUE
                 /\ doc.receipt.image = j.image /\ doc.receipt.catalog = doc.catalog
      <4>1. j.script # "reference"
        BY <3>3 DEF Offered, ReferencePlan
      <4>2. doc.sealed \in BOOLEAN /\ (doc.receipt \in Receipt \/ doc.receipt = Nothing)
        BY <2>3 DEF Document
      <4>3. doc.sealed /\ doc.receipt.passed /\ doc.receipt.image = j.image
            /\ doc.receipt.catalog = j.source.catalog
        BY <1>6, <4>1 DEF Frozen, ValidReceipt
      <4> QED BY <3>1, <4>2, <4>3 DEF Receipt
    <3> QED BY <3>1, <3>2, <3>3 DEF AsFrozen
  <2> HIDE DEF new, after, j, e, d, edited
  <2>10. Verified(new, after)
    BY <1>4, <2>2, <2>7, <2>9 DEF Verified
  <2>11. Announced(new, after)
    BY <2>2, <2>7 DEF Announced
  <2>12. Len(Order(new.doc)) \in Nat
    BY <2>3, <2>7, OrderIs
  <2>13. RowsDone(new, after)
    BY <2>2, <2>7, <2>12 DEF RowsDone
  <2>14. InHand(new) /\ Stops(new, after) /\ Listed(new, after)
    BY <2>2, <2>7 DEF InHand, Stops, Listed
  <2>15. Paid(new, spent)
    BY <1>1, <2>4, <2>7, CostOfNone DEF Paid
  <2>16. Own(new, after, spent)
    BY <2>10, <2>11, <2>13, <2>14, <2>15 DEF Own
  <2>17. Lies(after)
    BY <2>2, Zenon DEF Lies, Filed, Noted, Reported
  <2>18. Chosen(new) /\ new.pc \notin Before
    BY <1>4, <2>3, <2>7 DEF Chosen, Past, Before
  <2>19. e.manifest = Nothing /\ e.freeze = Nothing
    BY <2>1 DEF Untouched
  <2>20. Holding(p)
    BY <1>2 DEF Holding, j
  <2> DEFINE t == spent
  <2>21. spent' = t /\ spent <= t /\ t \in Nat
    BY <1>1, <1>2
  <2>22. UNCHANGED <<tree, receipts, docs, desk, other, review>>
    BY <1>2 DEF Keep
  <2> QED BY <1>4, <2>2, <2>6, <2>7, <2>8, <2>16, <2>17, <2>18, <2>19, <2>20, <2>21, <2>22, Progress
          DEF e
<1> QED BY <1>5, <1>6, Zenon DEF Setup

-----------------------------------------------------------------------------
(* A process that is past its verification.                                *)

LEMMA Working ==
    ASSUME CInv, NEW p \in Procs, NEW j, NEW d, NEW e, j = proc[p], d = j.dir, e = evidence[d],
           j.pc \in Past
    PROVE  /\ j \in Process /\ j.doc \in Document /\ j.dir \in Dirs /\ d \in Dirs /\ e \in Folder
           /\ Own(j, e, spent) /\ Lies(e) /\ spent \in Nat /\ evidence \in [Dirs -> Folder]
           /\ Holding(p) /\ Chosen(j) /\ j.doc # Nothing
           /\ e.manifest = Nothing \/ e.manifest.status = "running"
<1>1. j \in Process /\ spent \in Nat /\ evidence \in [Dirs -> Folder]
  BY DEF CInv, Stored
<1>2. Chosen(j) /\ Own(j, e, spent) /\ Holding(p)
  BY DEF CInv, Past, Holding
<1>3. j.doc \in Document /\ d \in Dirs
  BY <1>2 DEF Chosen
<1>4. e \in Folder /\ Lies(e)
  BY <1>1, <1>3 DEF CInv
<1>5. e.manifest = Nothing \/ e.manifest.status = "running"
  BY <1>2 DEF Own, Announced
<1> QED BY <1>1, <1>2, <1>3, <1>4, <1>5, There

\* It goes on, or ends.
LEMMA Goes ==
    ASSUME CInv, NEW p \in Procs, NEW j, NEW d, NEW e, j = proc[p], d = j.dir, e = evidence[d],
           j.pc \in Past, NEW new \in Process, NEW after \in Folder, NEW s \in Nat,
           Keep, UNCHANGED <<other, review>>, Set(p, new),
           evidence' = [evidence EXCEPT ![d] = after], spent' = s, spent <= s,
           new.pc \in Past, new.doc = j.doc, new.dir = d, new.source = j.source,
           new.script = j.script, Own(new, after, s), Lies(after),
           e.freeze = Nothing \/ after.freeze = e.freeze
    PROVE  CInv'
<1>1. /\ j.doc \in Document /\ d \in Dirs /\ Holding(p) /\ Chosen(j)
      /\ e.manifest = Nothing \/ e.manifest.status = "running"
  BY Working
<1>2. Chosen(new) /\ new.pc \notin Before
  BY <1>1 DEF Chosen, Past, Before
<1>3. UNCHANGED <<tree, receipts, docs, desk, other, review>> /\ proc' = [proc EXCEPT ![p] = new]
  BY DEF Keep, Set
<1> QED BY <1>1, <1>2, <1>3, Progress

LEMMA Gone ==
    ASSUME CInv, NEW p \in Procs, NEW j, NEW d, NEW e, j = proc[p], d = j.dir, e = evidence[d],
           j.pc \in Past, NEW after \in Folder, NEW s \in Nat,
           Keep, UNCHANGED <<other, review>>, Set(p, Unborn),
           evidence' = [evidence EXCEPT ![d] = after], spent' = s, spent <= s,
           Lies(after), after.freeze = e.freeze
    PROVE  CInv'
<1>1. /\ d \in Dirs /\ Holding(p)
      /\ e.manifest = Nothing \/ e.manifest.status = "running"
  BY Working
<1>2. Unborn.pc = "off" /\ Unborn \in Process /\ "off" \notin Past /\ "off" \notin Before
  BY UnbornIs DEF Past, Before
<1>3. UNCHANGED <<tree, receipts, docs, desk, other, review>> /\ proc' = [proc EXCEPT ![p] = Unborn]
  BY DEF Keep, Set
<1> QED BY <1>1, <1>2, <1>3, Progress

\* Whose plan, whose directory and which source a process works with.
SameAs(j, new) ==
    /\ new.script = j.script /\ new.doc = j.doc /\ new.dir = j.dir /\ new.image = j.image
    /\ new.source = j.source /\ new.edited = j.edited /\ new.start = j.start

LEMMA WriteFreezeStep ==
    ASSUME CInv, NEW p \in Procs, WriteFreeze(p)
    PROVE  CInv'
<1> DEFINE j == proc[p]
           d == j.dir
           e == evidence[d]
           new == [j EXCEPT !.pc = "manifest"]
           after == [e EXCEPT !.freeze = j.doc]
           s == spent
<1>1. j.pc = "freeze" /\ j.pc \in Past
  BY DEF WriteFreeze, Writing, Past
<1>2. /\ j \in Process /\ j.doc \in Document /\ d \in Dirs /\ e \in Folder
      /\ Own(j, e, spent) /\ Lies(e) /\ spent \in Nat /\ evidence \in [Dirs -> Folder]
      /\ j.doc # Nothing
  BY <1>1, Working
<1>3. new \in Process /\ after \in Folder
  BY <1>2 DEF Process, Folder
<1>4. /\ SameAs(j, new) /\ new.pc = "manifest" /\ new.at = j.at /\ new.results = j.results
      /\ new.held = j.held /\ new.stop = j.stop
  BY <1>2 DEF Process, SameAs
<1>5. /\ after.freeze = j.doc /\ after.manifest = e.manifest /\ after.report = e.report
      /\ after.opened = e.opened /\ after.runs = e.runs /\ after.raw = e.raw
      /\ after.events = e.events /\ after.torn = e.torn /\ after.broken = e.broken
  BY <1>2 DEF Folder
<1>6. /\ Keep /\ UNCHANGED <<other, review>> /\ Set(p, new) /\ spent' = s /\ spent <= s
      /\ evidence' = [evidence EXCEPT ![d] = after]
  BY <1>2 DEF WriteFreeze, Writing
<1>7. Verified(j, e) /\ Announced(j, e) /\ RowsDone(j, e) /\ Stops(j, e) /\ Listed(j, e) /\ Paid(j, s)
  BY <1>2 DEF Own
<1> HIDE DEF j, d, e, new, after, s
<1>8. e.freeze = Nothing /\ e.manifest = Nothing /\ e.report = Nothing /\ e.runs = <<>>
  BY <1>1, <1>7 DEF Announced, RowsDone
<1>9. e.opened = TRUE /\ e.events = {}
  BY <1>2, <1>7, <1>8 DEF Verified, Lies, Filed
<1>10. Verified(new, after)
  BY <1>1, <1>4, <1>5, <1>7 DEF Verified, SameAs
<1>11. Announced(new, after)
  BY <1>4, <1>5, <1>8 DEF Announced, SameAs
<1>12. RowsDone(new, after)
  BY <1>1, <1>4, <1>5, <1>7 DEF RowsDone, SameAs
<1>13. InHand(new) /\ Stops(new, after) /\ Listed(new, after)
  BY <1>1, <1>4, <1>5, <1>7 DEF InHand, Stops, Listed
<1>14. Paid(new, s)
  BY <1>1, <1>4, <1>7 DEF Paid, SameAs
<1>15. Own(new, after, s)
  BY <1>10, <1>11, <1>12, <1>13, <1>14 DEF Own
<1>16. Filed(after)
  <2>1. Len(Order(j.doc)) \in Nat
    BY <1>2, OrderIs
  <2>2. FirstOf(j.doc, <<>>)
    BY <2>1 DEF FirstOf
  <2> QED BY <1>2, <1>5, <1>8, <1>9, <2>2 DEF Filed
<1>17. Noted(after) /\ Reported(after)
  BY <1>5, <1>8 DEF Noted, Reported
<1>18. Lies(after)
  BY <1>16, <1>17 DEF Lies
<1>19. new.pc \in Past /\ new.doc = j.doc /\ new.dir = d
      /\ new.source = j.source /\ new.script = j.script
  BY <1>4 DEF Past, SameAs, d
<1> QED BY <1>1, <1>2, <1>3, <1>6, <1>8, <1>15, <1>18, <1>19, Goes DEF j, d, e, s

\* The running manifest of a process.
LEMMA InterimIs ==
    ASSUME NEW j \in Process, j.doc \in Document, j.start \in Snapshot, spent \in Nat,
           other \in [research : Nat, public : Nat]
    PROVE  Interim(j) \in Note /\ Interim(j).status = "running" /\ Interim(j).freeze = j.doc
<1>1. Spending(j.start, Now) \in Nat
  BY Snapshots, Money
<1>2. Len(j.results) \in Nat
  BY DEF Process
<1> QED BY <1>1, <1>2 DEF Interim, Note

LEMMA WriteManifestStep ==
    ASSUME CInv, NEW p \in Procs, WriteManifest(p)
    PROVE  CInv'
<1> DEFINE j == proc[p]
           d == j.dir
           e == evidence[d]
           new == [j EXCEPT !.pc = "loop"]
           m == [Interim(j) EXCEPT !.delta = 0]
           after == [e EXCEPT !.manifest = m]
           s == spent
<1>1. j.pc = "manifest" /\ j.pc \in Past
  BY DEF WriteManifest, Writing, Past
<1>2. /\ j \in Process /\ j.doc \in Document /\ d \in Dirs /\ e \in Folder
      /\ Own(j, e, spent) /\ Lies(e) /\ spent \in Nat /\ evidence \in [Dirs -> Folder]
      /\ j.doc # Nothing
  BY <1>1, Working
<1>3. /\ Verified(j, e) /\ Announced(j, e) /\ RowsDone(j, e) /\ Stops(j, e) /\ Listed(j, e)
      /\ Paid(j, s) /\ j.start \in Snapshot
  BY <1>2 DEF Own, Paid
<1>4. m \in Note /\ m.status = "running" /\ m.freeze = j.doc
  <2>1. other \in [research : Nat, public : Nat]
    BY DEF CInv, Stored
  <2>2. Interim(j) \in Note /\ Interim(j).status = "running" /\ Interim(j).freeze = j.doc
    <3> HIDE DEF j
    <3> QED BY <1>2, <1>3, <2>1, InterimIs
  <2> HIDE DEF j
  <2> QED BY <2>2 DEF Note
<1>5. new \in Process /\ after \in Folder
  <2> HIDE DEF m
  <2> QED BY <1>2, <1>4 DEF Process, Folder
<1>6. /\ SameAs(j, new) /\ new.pc = "loop" /\ new.at = j.at /\ new.results = j.results
      /\ new.held = j.held /\ new.stop = j.stop
  BY <1>2 DEF Process, SameAs
<1>7. /\ after.freeze = e.freeze /\ after.manifest = m /\ after.report = e.report
      /\ after.opened = e.opened /\ after.runs = e.runs /\ after.raw = e.raw
      /\ after.events = e.events /\ after.torn = e.torn /\ after.broken = e.broken
  <2> HIDE DEF m
  <2> QED BY <1>2 DEF Folder
<1>8. /\ Keep /\ UNCHANGED <<other, review>> /\ Set(p, new) /\ spent' = s /\ spent <= s
      /\ evidence' = [evidence EXCEPT ![d] = after]
  <2>1. evidence' = [evidence EXCEPT ![d].manifest = m]
    BY Zenon DEF WriteManifest
  <2>2. evidence' = [evidence EXCEPT ![d] = after]
    <3> HIDE DEF d, m
    <3> QED BY <1>2, <2>1
  <2>3. Keep /\ UNCHANGED <<spent, other, review>> /\ Set(p, new)
    BY Zenon DEF WriteManifest, Writing
  <2> QED BY <1>2, <2>2, <2>3
<1> HIDE DEF j, d, e, new, m, after, s
<1>9. e.freeze = j.doc /\ e.report = Nothing /\ e.opened = TRUE
  BY <1>1, <1>3 DEF Announced, Verified
<1>10. Verified(new, after)
  BY <1>1, <1>3, <1>6, <1>7 DEF Verified, SameAs
<1>11. Announced(new, after)
  BY <1>4, <1>6, <1>7, <1>9 DEF Announced, SameAs
<1>12. RowsDone(new, after)
  BY <1>1, <1>3, <1>6, <1>7 DEF RowsDone, SameAs
<1>13. InHand(new) /\ Stops(new, after) /\ Listed(new, after)
  BY <1>1, <1>3, <1>6, <1>7 DEF InHand, Stops, Listed
<1>14. Paid(new, s)
  BY <1>1, <1>3, <1>6 DEF Paid, SameAs
<1>15. Own(new, after, s)
  BY <1>10, <1>11, <1>12, <1>13, <1>14 DEF Own
<1>16. Filed(after)
  <2>1. Filed(e) /\ e.freeze # Nothing
    BY <1>2, <1>9 DEF Lies
  <2> QED BY <1>7, <1>9, <2>1 DEF Filed
<1>17. Noted(after) /\ Reported(after)
  BY <1>2, <1>4, <1>7, <1>9 DEF Noted, Reported
<1>18. Lies(after)
  BY <1>16, <1>17 DEF Lies
<1>19. new.pc \in Past /\ new.doc = j.doc /\ new.dir = d
      /\ new.source = j.source /\ new.script = j.script
  BY <1>6 DEF Past, SameAs, d
<1> QED BY <1>1, <1>2, <1>5, <1>7, <1>8, <1>15, <1>18, <1>19, Goes DEF j, d, e, s

-----------------------------------------------------------------------------
(* The rows, up to a run in hand.                                          *)

LEMMA BeginStep ==
    ASSUME CInv, NEW p \in Procs, Begin(p)
    PROVE  CInv'
<1> DEFINE j == proc[p]
           d == j.dir
           e == evidence[d]
           new == [j EXCEPT !.pc = "episode"]
           after == [e EXCEPT !.events = @ \cup {j.at}]
           s == spent
<1>1. j.pc = "loop" /\ j.pc \in Past /\ j.at <= Len(Order(j.doc))
  BY DEF Begin, Past
<1>2. /\ j \in Process /\ j.doc \in Document /\ d \in Dirs /\ e \in Folder
      /\ Own(j, e, s) /\ Lies(e) /\ s \in Nat /\ evidence \in [Dirs -> Folder]
      /\ j.doc # Nothing
  BY <1>1, Working
<1>3. /\ Verified(j, e) /\ Announced(j, e) /\ RowsDone(j, e) /\ Stops(j, e) /\ Listed(j, e)
      /\ Paid(j, s) /\ j.at \in Nat
  BY <1>2 DEF Own, Paid, Process
<1>4. e.freeze = j.doc /\ e.report = Nothing /\ e.opened = TRUE
  BY <1>1, <1>3 DEF Announced, Verified
<1>5. /\ e.manifest = Nothing \/ e.manifest.status = "running"
      /\ e.manifest # Nothing => e.manifest.freeze = j.doc
  BY <1>2, <1>3, <1>4 DEF Announced, Lies, Noted
<1>6. new \in Process
  BY <1>2 DEF Process
<1>7. after \in Folder
  <2>1. e.events \cup {j.at} \in SUBSET Nat
    BY <1>2, <1>3 DEF Folder
  <2> DEFINE x == e.events \cup {j.at}
  <2> HIDE DEF e, x
  <2>2. [e EXCEPT !.events = x] \in Folder
    BY <1>2, <2>1 DEF Folder, x
  <2>3. after = [e EXCEPT !.events = x]
    BY DEF x
  <2> QED BY <2>2, <2>3
<1>8. /\ SameAs(j, new) /\ new.pc = "episode" /\ new.at = j.at /\ new.results = j.results
      /\ new.held = j.held /\ new.stop = j.stop
  BY <1>2 DEF Process, SameAs
<1>9. /\ after.freeze = e.freeze /\ after.manifest = e.manifest /\ after.report = e.report
      /\ after.opened = e.opened /\ after.runs = e.runs /\ after.raw = e.raw
      /\ after.events = e.events \cup {j.at} /\ after.torn = e.torn /\ after.broken = e.broken
  BY <1>2 DEF Folder
<1>10. /\ Keep /\ UNCHANGED <<other, review>> /\ Set(p, new) /\ spent' = s /\ spent <= s
       /\ evidence' = [evidence EXCEPT ![d] = after]
  <2>1. evidence' = [evidence EXCEPT ![d].events = @ \cup {j.at}]
    BY DEF Begin
  <2>2. evidence' = [evidence EXCEPT ![d] = after]
    <3> HIDE DEF d, j
    <3> QED BY <1>2, <2>1
  <2>3. Keep /\ UNCHANGED <<spent, other, review>> /\ Set(p, new)
    BY Zenon DEF Begin
  <2>4. spent' = s /\ spent <= s
    BY <1>2, <2>3
  <2> QED BY <2>2, <2>3, <2>4
<1> HIDE DEF j, d, e, new, after
<1>11. Verified(new, after)
  BY <1>1, <1>3, <1>8, <1>9 DEF Verified, SameAs
<1>12. Announced(new, after)
  BY <1>4, <1>5, <1>8, <1>9 DEF Announced, SameAs
<1>13. RowsDone(new, after)
  BY <1>1, <1>3, <1>8, <1>9 DEF RowsDone, SameAs
<1>14. InHand(new) /\ Stops(new, after) /\ Listed(new, after)
  BY <1>1, <1>3, <1>8, <1>9 DEF InHand, Stops, Listed
<1>15. Paid(new, s)
  BY <1>1, <1>3, <1>8 DEF Paid, SameAs
<1>16. Own(new, after, s)
  BY <1>11, <1>12, <1>13, <1>14, <1>15 DEF Own
<1>17. Filed(after)
  <2>1. Filed(e) /\ e.freeze # Nothing
    BY <1>2, <1>4 DEF Lies
  <2>2. j.at \in 1..Len(Order(j.doc))
    <3>1. Len(j.results) \in Nat /\ j.at = Len(j.results) + 1
      BY <1>1, <1>2, <1>3 DEF RowsDone, Process
    <3>2. Len(Order(j.doc)) \in Nat
      BY <1>2, OrderIs
    <3> QED BY <1>1, <3>1, <3>2
  <2> QED BY <1>4, <1>9, <2>1, <2>2 DEF Filed
<1>18. Noted(after) /\ Reported(after)
  BY <1>4, <1>5, <1>9 DEF Noted, Reported
<1>19. Lies(after)
  BY <1>17, <1>18 DEF Lies
<1>20. new.pc \in Past /\ new.doc = j.doc /\ new.dir = d
      /\ new.source = j.source /\ new.script = j.script
  BY <1>8 DEF Past, SameAs, d
<1> QED BY <1>1, <1>2, <1>6, <1>7, <1>9, <1>10, <1>16, <1>19, <1>20, Goes DEF j, d, e

\* A process that goes on and writes nothing.
LEMMA Turns ==
    ASSUME CInv, NEW p \in Procs, NEW j, NEW d, NEW e, j = proc[p], d = j.dir, e = evidence[d],
           j.pc \in Past, NEW new \in Process, NEW s \in Nat,
           Keep, UNCHANGED <<other, evidence, review>>, Set(p, new), spent' = s, spent <= s,
           new.pc \in Past, SameAs(j, new), Own(new, e, s)
    PROVE  CInv'
<1>1. d \in Dirs /\ e \in Folder /\ Lies(e) /\ spent \in Nat /\ evidence \in [Dirs -> Folder]
  BY Working
<1>3. evidence' = [evidence EXCEPT ![d] = e]
  BY <1>1
<1>4. new.doc = j.doc /\ new.dir = d /\ new.source = j.source /\ new.script = j.script
  BY DEF SameAs
<1> QED BY <1>1, <1>3, <1>4, Goes

LEMMA Stopping ==
    ASSUME NEW j \in Process, NEW stop \in BOOLEAN
    PROVE  [j EXCEPT !.pc = "final", !.stop = stop] \in Process
BY DEF Process

LEMMA LeaveLoopStep ==
    ASSUME CInv, NEW p \in Procs, LeaveLoop(p)
    PROVE  CInv'
<1> DEFINE j == proc[p]
           d == j.dir
           e == evidence[d]
           out == j.at > Len(Order(j.doc))
           new == [j EXCEPT !.pc = "final", !.stop = ~out]
           s == spent
<1>1. j.pc = "loop" /\ j.pc \in Past
  BY DEF LeaveLoop, Past
<1>2. /\ j \in Process /\ j.doc \in Document /\ Own(j, e, s) /\ s \in Nat /\ e \in Folder
  BY <1>1, Working
<1>3. /\ Verified(j, e) /\ Announced(j, e) /\ RowsDone(j, e) /\ Stops(j, e) /\ Listed(j, e)
      /\ Paid(j, s)
  BY <1>2 DEF Own
<1>4. new \in Process
  <2>1. (~out) \in BOOLEAN
    OBVIOUS
  <2> HIDE DEF out, j
  <2> QED BY <1>2, <2>1, Stopping
<1>5. /\ SameAs(j, new) /\ new.pc = "final" /\ new.at = j.at /\ new.results = j.results
      /\ new.held = j.held /\ new.stop \in BOOLEAN
  BY <1>2 DEF Process, SameAs
<1>6. /\ Keep /\ UNCHANGED <<other, evidence, review>> /\ Set(p, new) /\ spent' = s /\ spent <= s
  BY <1>2 DEF LeaveLoop
<1> HIDE DEF j, d, e, new
<1>7. Verified(new, e)
  BY <1>1, <1>3, <1>5 DEF Verified, SameAs
<1>8. Announced(new, e)
  BY <1>1, <1>3, <1>5 DEF Announced, SameAs
<1>9. RowsDone(new, e)
  BY <1>1, <1>3, <1>5 DEF RowsDone, SameAs
<1>10. InHand(new) /\ Listed(new, e)
  BY <1>1, <1>3, <1>5 DEF InHand, Listed
<1>11. Stops(new, e)
  BY <1>1, <1>3, <1>5 DEF Stops
<1>12. Paid(new, s)
  BY <1>1, <1>3, <1>5 DEF Paid, SameAs
<1>13. Own(new, e, s)
  BY <1>7, <1>8, <1>9, <1>10, <1>11, <1>12 DEF Own
<1>14. new.pc \in Past
  BY <1>5 DEF Past
<1> QED BY <1>1, <1>2, <1>4, <1>5, <1>6, <1>13, <1>14, Turns DEF j, d, e

LEMMA PreflightStep ==
    ASSUME CInv, NEW p \in Procs, Preflight(p)
    PROVE  CInv'
<1> DEFINE j == proc[p]
           d == j.dir
           e == evidence[d]
           new == [j EXCEPT !.pc = "cleared"]
           s == spent
<1>1. j.pc = "episode" /\ j.pc \in Past
  BY DEF Preflight, Past
<1>2. j \in Process /\ j.doc \in Document /\ Own(j, e, s) /\ s \in Nat /\ e \in Folder
  BY <1>1, Working
<1>3. /\ Verified(j, e) /\ Announced(j, e) /\ RowsDone(j, e) /\ Stops(j, e) /\ Listed(j, e)
      /\ Paid(j, s)
  BY <1>2 DEF Own
<1>4. new \in Process
  BY <1>2 DEF Process
<1>5. /\ SameAs(j, new) /\ new.pc = "cleared" /\ new.at = j.at /\ new.results = j.results
      /\ new.held = j.held /\ new.stop = j.stop
  BY <1>2 DEF Process, SameAs
<1>6. /\ Keep /\ UNCHANGED <<other, evidence, review>> /\ Set(p, new) /\ spent' = s /\ spent <= s
  BY <1>2 DEF Preflight
<1> HIDE DEF j, d, e, new
<1>7. Verified(new, e) /\ Announced(new, e)
  BY <1>1, <1>3, <1>5 DEF Verified, Announced, SameAs
<1>8. RowsDone(new, e)
  BY <1>1, <1>3, <1>5 DEF RowsDone, SameAs
<1>9. InHand(new) /\ Listed(new, e) /\ Stops(new, e)
  BY <1>1, <1>3, <1>5 DEF InHand, Listed, Stops
<1>10. Paid(new, s)
  BY <1>1, <1>3, <1>5 DEF Paid, SameAs
<1>11. Own(new, e, s)
  BY <1>7, <1>8, <1>9, <1>10 DEF Own
<1>12. new.pc \in Past
  BY <1>5 DEF Past
<1> QED BY <1>1, <1>2, <1>4, <1>5, <1>6, <1>11, <1>12, Turns DEF j, d, e

\* A row is under way.
UnderWay == {"episode", "cleared"}

LEMMA RunIs ==
    ASSUME NEW j \in Process, NEW e \in Folder, j.doc \in Document, j.pc \in UnderWay, RowsDone(j, e),
           Verified(j, e), NEW status \in Ended, NEW cost \in {0, 1}
    PROVE  Run(j, status, cost) \in Record
<1>1. /\ Len(j.results) \in Nat /\ j.at = Len(j.results) + 1 /\ j.at <= Len(Order(j.doc))
      /\ Len(Order(j.doc)) \in Nat
  BY OrderIs DEF RowsDone, Process, UnderWay
<1>2. j.at \in 1..Len(Order(j.doc))
  BY <1>1
<1>3. Order(j.doc)[j.at] \in AllCells
  BY <1>2, OrderIs
<1>4. j.source \in Sources /\ j.edited \in BOOLEAN /\ j.image \in Images \cup {Nothing} /\ j.at \in Nat
  BY DEF Verified, Process
<1> QED BY <1>3, <1>4 DEF Run, Record

\* A run of the row that was begun is in hand.
LEMMA TakesRun ==
    ASSUME CInv, NEW p \in Procs, NEW j, NEW d, NEW e, j = proc[p], d = j.dir, e = evidence[d],
           j.pc \in UnderWay, NEW status \in Ended, NEW cost \in {0, 1}, NEW told \in {0, 1},
           NEW new \in Process, SameAs(j, new), new.pc = "file", new.at = j.at,
           new.results = j.results, new.held = Run(j, status, told),
           told = cost \/ j.doc.protocol = "reference",
           status = "interrupted" => new.stop = TRUE,
           new.stop = TRUE => j.doc.protocol = "reference" \/ j.stop = TRUE,
           Keep, UNCHANGED <<other, evidence, review>>, Set(p, new), spent' = spent + cost
    PROVE  CInv'
<1> DEFINE s == spent + cost
<1>1. j.pc \in Past /\ new.pc \in Past /\ j.pc \in {"episode", "cleared"}
  BY DEF Past, UnderWay
<1>2. j \in Process /\ j.doc \in Document /\ Own(j, e, spent) /\ spent \in Nat /\ e \in Folder
  BY <1>1, Working
<1>3. /\ Verified(j, e) /\ Announced(j, e) /\ RowsDone(j, e) /\ Stops(j, e) /\ Listed(j, e)
      /\ Paid(j, spent)
  BY <1>2 DEF Own
<1>4. /\ Len(j.results) \in Nat /\ j.at = Len(j.results) + 1 /\ j.at <= Len(Order(j.doc))
      /\ Len(Order(j.doc)) \in Nat /\ j.start \in Snapshot /\ j.start.own \in Nat
      /\ j.start.own <= spent
  BY <1>1, <1>2, <1>3, OrderIs DEF RowsDone, Process, Paid, Snapshot
<1>6. Run(j, status, told) \in Record
  BY <1>2, <1>3, RunIs
<1>7. /\ new.held.id = j.at /\ new.held.cell = Order(j.doc)[j.at] /\ new.held.status = status
      /\ new.held.cost = told /\ new.held.source = j.source /\ new.held.image = j.image
      /\ new.held.edited = j.edited
  BY DEF Run
<1>8. j.stop = FALSE
  BY <1>1, <1>3 DEF Stops
<1>9. Verified(new, e)
  BY <1>1, <1>3 DEF Verified, SameAs
<1>10. Announced(new, e)
  BY <1>1, <1>3 DEF Announced, SameAs
<1>11. RowsDone(new, e)
  BY <1>1, <1>3 DEF RowsDone, SameAs
<1>12. InHand(new)
  BY <1>6, <1>7 DEF InHand, SameAs
<1>13. Listed(new, e)
  BY <1>1, <1>3 DEF Listed
<1>14. Stops(new, e)
  BY <1>1, <1>3, <1>8 DEF Stops, SameAs
<1>15. s \in Nat /\ spent <= s
  BY <1>2
<1>16. Paid(new, s)
  <2>1. j.start.own <= s
    BY <1>4, <1>15, <1>2
  <2>2. ASSUME j.doc.protocol # "reference"
        PROVE  s - j.start.own = CostOf(j.results) + new.held.cost
    <3>1. spent - j.start.own = CostOf(j.results) + 0
      BY <1>1, <1>3, <2>2 DEF Paid
    <3>2. CostOf(j.results) \in Int
      BY <1>2, <1>6, CostOfMore DEF Process
    <3> QED BY <1>2, <1>4, <1>7, <2>2, <3>1, <3>2
  <2> QED BY <1>4, <2>1, <2>2 DEF Paid, SameAs
<1>17. Own(new, e, s)
  BY <1>9, <1>10, <1>11, <1>12, <1>13, <1>14, <1>16 DEF Own
<1> HIDE DEF s
<1>18. spent' = s
  BY DEF s
<1> QED BY <1>1, <1>15, <1>17, <1>18, Turns

LEMMA BillsAre ==
    ASSUME NEW j
    PROVE  Bills(j) \subseteq {0, 1}
BY DEF Bills

LEMMA EndsStep ==
    ASSUME CInv, NEW p \in Procs, Ends(p)
    PROVE  CInv'
<1> DEFINE j == proc[p]
<1>1. j.pc \in UnderWay /\ j.pc \in Past /\ Keep /\ UNCHANGED <<other, evidence, review>>
  BY DEF Ends, UnderWay, Past
<1>2. j \in Process
  BY DEF CInv, Stored
<1>3. PICK status \in {"completed", "failed", "budget_exhausted"}, cost \in Bills(j) :
        /\ Set(p, [j EXCEPT !.pc = "file", !.held = Run(j, status, cost)])
        /\ spent' = spent + cost
  BY DEF Ends
<1>4. cost \in {0, 1} /\ status \in Ended /\ status # "interrupted"
  BY BillsAre DEF Ended
<1> DEFINE new == [j EXCEPT !.pc = "file", !.held = Run(j, status, cost)]
<1>5. /\ j.doc \in Document /\ Own(j, evidence[j.dir], spent)
      /\ evidence[j.dir] \in Folder
  BY <1>1, Working
<1>6. Run(j, status, cost) \in Record
  <2>1. RowsDone(j, evidence[j.dir]) /\ Verified(j, evidence[j.dir])
    BY <1>5 DEF Own
  <2> HIDE DEF j
  <2> QED BY <1>1, <1>2, <1>4, <1>5, <2>1, RunIs
<1>7. new \in Process
  BY <1>2, <1>6 DEF Process
<1>8. /\ SameAs(j, new) /\ new.pc = "file" /\ new.at = j.at /\ new.results = j.results
      /\ new.stop = j.stop /\ new.held = Run(j, status, cost)
  BY <1>2 DEF Process, SameAs
<1> HIDE DEF new, j
<1>9. Set(p, new) /\ spent' = spent + cost
  BY <1>3 DEF new
<1> QED BY <1>1, <1>4, <1>7, <1>8, <1>9, TakesRun DEF j

LEMMA BreaksStep ==
    ASSUME CInv, NEW p \in Procs, Breaks(p)
    PROVE  CInv'
<1> DEFINE j == proc[p]
           d == j.dir
           e == evidence[d]
<1>1. /\ j.pc \in UnderWay /\ j.pc \in Past /\ j.pc \in {"episode", "cleared"}
      /\ Keep /\ UNCHANGED <<other, evidence, review>>
  BY DEF Breaks, Past, UnderWay
<1>2. /\ j \in Process /\ j.doc \in Document /\ d \in Dirs /\ e \in Folder
      /\ Own(j, e, spent) /\ Lies(e) /\ spent \in Nat /\ evidence \in [Dirs -> Folder]
  BY <1>1, Working
<1>3. /\ Verified(j, e) /\ Announced(j, e) /\ RowsDone(j, e) /\ Stops(j, e) /\ Listed(j, e)
      /\ Paid(j, spent)
  BY <1>2 DEF Own
<1>4. PICK cost \in Bills(j) :
        /\ spent' = spent + cost
        /\ \/ /\ j.doc.protocol = "reference"
              /\ \E told \in 0..cost :
                    Set(p, [j EXCEPT !.pc = "file", !.stop = TRUE,
                                     !.held = Run(j, "interrupted", told)])
           \/ j.doc.protocol # "reference" /\ Set(p, [j EXCEPT !.pc = "final", !.stop = TRUE])
           \/ j.doc.protocol = "pilot" /\ Set(p, Unborn)
  BY DEF Breaks
<1>5. cost \in {0, 1} /\ "interrupted" \in Ended
  <2>1. Bills(j) \subseteq {0, 1}
    BY BillsAre
  <2>2. cost \in {0, 1}
    BY <1>4, <2>1
  <2> QED BY <2>2 DEF Ended
<1> DEFINE s == spent + cost
<1>6. s \in Nat /\ spent <= s /\ spent' = s
  <2>1. spent' = s
    BY <1>4, Zenon
  <2>2. s \in Nat /\ spent <= s
    <3> HIDE DEF j
    <3> QED BY <1>2, <1>5
  <2> QED BY <2>1, <2>2
<1>7. ASSUME j.doc.protocol = "reference", NEW told \in 0..cost,
             Set(p, [j EXCEPT !.pc = "file", !.stop = TRUE, !.held = Run(j, "interrupted", told)])
      PROVE  CInv'
  <2> DEFINE new == [j EXCEPT !.pc = "file", !.stop = TRUE, !.held = Run(j, "interrupted", told)]
  <2>1. told \in {0, 1}
    BY <1>5
  <2>2. Run(j, "interrupted", told) \in Record
    <3> HIDE DEF j, d, e
    <3> QED BY <1>1, <1>2, <1>3, <1>5, <2>1, RunIs
  <2>3. new \in Process
    BY <1>2, <2>2 DEF Process
  <2>4. /\ SameAs(j, new) /\ new.pc = "file" /\ new.at = j.at /\ new.results = j.results
        /\ new.stop = TRUE /\ new.held = Run(j, "interrupted", told)
    BY <1>2 DEF Process, SameAs
  <2>5. Set(p, new)
    BY <1>7
  <2> HIDE DEF new, j, s
  <2> QED BY <1>1, <1>4, <1>5, <1>7, <2>1, <2>3, <2>4, <2>5, TakesRun DEF j
<1>8. CASE j.doc.protocol # "reference" /\ Set(p, [j EXCEPT !.pc = "final", !.stop = TRUE])
  <2> DEFINE new == [j EXCEPT !.pc = "final", !.stop = TRUE]
  <2>1. new \in Process
    BY <1>2 DEF Process
  <2>2. /\ SameAs(j, new) /\ new.pc = "final" /\ new.at = j.at /\ new.results = j.results
        /\ new.stop = TRUE
    BY <1>2 DEF Process, SameAs
  <2>3. Set(p, new)
    BY <1>8
  <2>4. Len(j.results) # Len(Order(j.doc)) /\ j.start \in Snapshot /\ j.start.own <= s
    <3>1. Len(j.results) \in Nat /\ Len(Order(j.doc)) \in Nat
      BY <1>2, OrderIs DEF Process
    <3>2. j.start \in Snapshot /\ j.start.own <= spent /\ j.start.own \in Nat
      BY <1>3 DEF Paid, Snapshot
    <3>3. j.at = Len(j.results) + 1 /\ j.at <= Len(Order(j.doc))
      BY <1>1, <1>3 DEF RowsDone
    <3> QED BY <1>2, <1>6, <3>1, <3>2, <3>3
  <2> HIDE DEF new, j, d, e, s
  <2>5. Verified(new, e) /\ Announced(new, e)
    BY <1>1, <1>3, <2>2 DEF Verified, Announced, SameAs
  <2>6. RowsDone(new, e)
    BY <1>1, <1>3, <2>2 DEF RowsDone, SameAs
  <2>7. InHand(new) /\ Listed(new, e) /\ Stops(new, e)
    BY <1>1, <1>3, <2>2 DEF InHand, Listed, Stops
  <2>8. Paid(new, s)
    BY <2>2, <2>4 DEF Paid, SameAs
  <2>9. Own(new, e, s)
    BY <2>5, <2>6, <2>7, <2>8 DEF Own
  <2>10. new.pc \in Past
    BY <2>2 DEF Past
  <2> QED BY <1>1, <1>6, <2>1, <2>2, <2>3, <2>9, <2>10, Turns DEF j, d, e
<1>9. CASE Set(p, Unborn)
  <2>1. evidence' = [evidence EXCEPT ![d] = e]
    BY <1>1, <1>2
  <2> HIDE DEF j, d, e, s
  <2> QED BY <1>1, <1>2, <1>6, <1>9, <2>1, Gone DEF j, d, e
<1> QED BY <1>4, <1>7, <1>8, <1>9
-----------------------------------------------------------------------------
(* A run in hand is filed, listed and counted.                             *)

LEMMA FileStep ==
    ASSUME CInv, NEW p \in Procs, FileRun(p)
    PROVE  CInv'
<1> DEFINE j == proc[p]
           d == j.dir
           e == evidence[d]
           r == j.held
           new == [j EXCEPT !.pc = "index"]
           runs == Append(e.runs, r)
           after == [e EXCEPT !.runs = runs]
           s == spent
           n == Len(e.runs)
           order == Order(j.doc)
<1>1. j.pc = "file" /\ j.pc \in Past
  BY DEF FileRun, Writing, Past
<1>2. /\ j \in Process /\ j.doc \in Document /\ d \in Dirs /\ e \in Folder
      /\ Own(j, e, s) /\ Lies(e) /\ s \in Nat /\ evidence \in [Dirs -> Folder]
      /\ j.doc # Nothing
  BY <1>1, Working
<1>3. /\ Verified(j, e) /\ Announced(j, e) /\ RowsDone(j, e) /\ InHand(j) /\ Stops(j, e)
      /\ Listed(j, e) /\ Paid(j, s)
  BY <1>2 DEF Own
<1>4. /\ r \in Record /\ r.id = j.at /\ r.cell = order[j.at] /\ r.source = j.source
      /\ r.edited = j.edited /\ r.image = j.image
      /\ r.status = "interrupted" => j.stop = TRUE
  BY <1>1, <1>3 DEF InHand
<1>5. /\ e.runs \in Seq(Record) /\ runs \in Seq(Record) /\ n \in Nat /\ Len(runs) = n + 1
      /\ DOMAIN e.runs = 1..n /\ DOMAIN runs = 1..(n + 1)
      /\ \A i \in 1..n : runs[i] = e.runs[i]
      /\ runs[n + 1] = r
  <2>1. e.runs \in Seq(Record)
    BY <1>2 DEF Folder
  <2> HIDE DEF e, r
  <2> QED BY <1>4, <2>1, Appended
<1>6. new \in Process
  BY <1>2 DEF Process
<1>7. after \in Folder
  <2> HIDE DEF e, runs
  <2> QED BY <1>2, <1>5 DEF Folder
<1>8. /\ SameAs(j, new) /\ new.pc = "index" /\ new.at = j.at /\ new.results = j.results
      /\ new.held = j.held /\ new.stop = j.stop
  BY <1>2 DEF Process, SameAs
<1>9. /\ after.freeze = e.freeze /\ after.manifest = e.manifest /\ after.report = e.report
      /\ after.opened = e.opened /\ after.runs = runs /\ after.raw = e.raw
      /\ after.events = e.events /\ after.torn = e.torn /\ after.broken = e.broken
  <2> HIDE DEF runs
  <2> QED BY <1>2 DEF Folder
<1>10. /\ Keep /\ UNCHANGED <<other, review>> /\ Set(p, new)
       /\ evidence' = [evidence EXCEPT ![d] = after]
  <2>1. evidence' = [evidence EXCEPT ![d].runs = Append(@, r)]
    BY DEF FileRun
  <2>2. evidence' = [evidence EXCEPT ![d] = after]
    <3> HIDE DEF d, r
    <3> QED BY <1>2, <2>1
  <2> QED BY <2>2, Zenon DEF FileRun, Writing
<1>11. spent' = s /\ spent <= s
  BY <1>2 DEF FileRun
<1> HIDE DEF j, d, e, r, new, after, runs, s
<1>12. e.broken = FALSE /\ e.freeze = j.doc /\ e.opened = TRUE /\ e.report = Nothing
       /\ (e.manifest = Nothing \/ e.manifest.status = "running")
  BY <1>1, <1>2, <1>3 DEF Verified, Announced, Folder
<1>13. e.runs = j.results /\ j.at = n + 1 /\ j.at <= Len(order) /\ j.at \in e.events
  BY <1>1, <1>3, <1>12 DEF RowsDone
<1>14. runs = Append(j.results, j.held)
  BY <1>13 DEF runs, r
<1>15. Verified(new, after)
  BY <1>1, <1>3, <1>8, <1>9, <1>12 DEF Verified, SameAs
<1>16. Announced(new, after)
  BY <1>1, <1>3, <1>8, <1>9 DEF Announced, SameAs
<1>17. RowsDone(new, after)
  <2>1. Len(new.results) <= Len(after.runs) /\ \A i \in 1..Len(new.results) : new.results[i] = after.runs[i]
    BY <1>5, <1>8, <1>9, <1>13
  <2>2. after.runs = Append(new.results, new.held)
    BY <1>8, <1>9, <1>14
  <2>3. new.at = Len(new.results) + 1 /\ new.at <= Len(Order(new.doc)) + 1
    BY <1>1, <1>3, <1>8 DEF RowsDone, SameAs
  <2>4. new.at <= Len(Order(new.doc)) /\ new.at \in after.events
    BY <1>8, <1>9, <1>13 DEF SameAs
  <2> QED BY <1>8, <2>1, <2>2, <2>3, <2>4 DEF RowsDone
<1>18. InHand(new)
  BY <1>1, <1>3, <1>8 DEF InHand, SameAs
<1>19. Stops(new, after)
  <2>1. new.stop = FALSE => \A i \in DOMAIN after.runs : after.runs[i].status # "interrupted"
    BY <1>3, <1>4, <1>5, <1>8, <1>9 DEF Stops
  <2> QED BY <1>1, <1>3, <1>8, <2>1 DEF Stops, SameAs
<1>20. Listed(new, after)
  BY <1>1, <1>3, <1>5, <1>8, <1>9 DEF Listed
<1>21. Paid(new, s)
  BY <1>1, <1>3, <1>8 DEF Paid, SameAs
<1>22. Own(new, after, s)
  BY <1>15, <1>16, <1>17, <1>18, <1>19, <1>20, <1>21 DEF Own
<1>23. Filed(after)
  <2>1. /\ FirstOf(j.doc, e.runs)
        /\ \A i \in 1..n :
             /\ e.runs[i].id = i /\ i \in e.events
             /\ AsFrozen(j.doc, e.runs[i].source, e.runs[i].edited, e.runs[i].image)
             /\ e.runs[i].status = "interrupted" => j.doc.protocol = "reference"
        /\ e.events \subseteq 1..Len(order)
    BY <1>2, <1>5, <1>12, Zenon DEF Lies, Filed
  <2>2. FirstOf(j.doc, runs)
    <3>1. \A i \in 1..(n + 1) : runs[i].cell = order[i]
      BY <1>4, <1>5, <1>13, <2>1 DEF FirstOf
    <3> QED BY <1>5, <1>13, <3>1 DEF FirstOf
  <2>3. AsFrozen(j.doc, r.source, r.edited, r.image)
    BY <1>3, <1>4 DEF Verified
  <2>4. r.status = "interrupted" => j.doc.protocol = "reference"
    BY <1>1, <1>3, <1>4 DEF Stops
  <2>5. \A i \in 1..(n + 1) :
           /\ runs[i].id = i /\ i \in e.events
           /\ AsFrozen(j.doc, runs[i].source, runs[i].edited, runs[i].image)
           /\ runs[i].status = "interrupted" => j.doc.protocol = "reference"
    <3> SUFFICES ASSUME NEW i \in 1..(n + 1)
                 PROVE  /\ runs[i].id = i /\ i \in e.events
                        /\ AsFrozen(j.doc, runs[i].source, runs[i].edited, runs[i].image)
                        /\ runs[i].status = "interrupted" => j.doc.protocol = "reference"
      OBVIOUS
    <3>1. CASE i \in 1..n
      BY <1>5, <2>1, <3>1
    <3>2. CASE i = n + 1
      BY <1>4, <1>5, <1>13, <2>3, <2>4, <3>2
    <3> QED BY <1>5, <3>1, <3>2
  <2>6. after.freeze = j.doc /\ after.freeze # Nothing /\ after.opened = TRUE
    BY <1>2, <1>9, <1>12
  <2> QED BY <1>5, <1>9, <2>1, <2>2, <2>5, <2>6 DEF Filed
<1>24. Noted(after) /\ Reported(after)
  <2>1. after.manifest # Nothing => after.manifest.freeze = after.freeze /\ after.manifest.status = "running"
    BY <1>2, <1>9, <1>12 DEF Lies, Noted
  <2> QED BY <1>9, <1>12, <2>1, Zenon DEF Noted, Reported
<1>25. Lies(after)
  BY <1>23, <1>24 DEF Lies
<1>26. new.pc \in Past /\ new.doc = j.doc /\ new.dir = d
      /\ new.source = j.source /\ new.script = j.script
  BY <1>8 DEF Past, SameAs, d
<1> QED BY <1>1, <1>2, <1>6, <1>7, <1>9, <1>10, <1>11, <1>22, <1>25, <1>26, Goes DEF j, d, e

LEMMA ListStep ==
    ASSUME CInv, NEW p \in Procs, ListRun(p)
    PROVE  CInv'
<1> DEFINE j == proc[p]
           d == j.dir
           e == evidence[d]
           new == [j EXCEPT !.pc = "count"]
           raw == Append(e.raw, j.held.id)
           after == [e EXCEPT !.raw = raw]
           s == spent
           n == Len(e.raw)
<1>1. j.pc = "index" /\ j.pc \in Past
  BY DEF ListRun, Writing, Past
<1>2. /\ j \in Process /\ j.doc \in Document /\ d \in Dirs /\ e \in Folder
      /\ Own(j, e, s) /\ Lies(e) /\ s \in Nat /\ evidence \in [Dirs -> Folder]
      /\ j.doc # Nothing
  BY <1>1, Working
<1>3. /\ Verified(j, e) /\ Announced(j, e) /\ RowsDone(j, e) /\ InHand(j) /\ Stops(j, e)
      /\ Listed(j, e) /\ Paid(j, s)
  BY <1>2 DEF Own
<1>4. j.held.id = j.at /\ j.at \in Nat /\ j.held \in Record
  BY <1>1, <1>2, <1>3 DEF InHand, Process
<1>5. /\ e.raw \in Seq(Nat) /\ raw \in Seq(Nat) /\ n \in Nat /\ Len(raw) = n + 1
      /\ DOMAIN e.raw = 1..n /\ DOMAIN raw = 1..(n + 1)
      /\ \A i \in 1..n : raw[i] = e.raw[i]
      /\ raw[n + 1] = j.held.id
  <2>1. e.raw \in Seq(Nat) /\ j.held.id \in Nat
    BY <1>2, <1>4 DEF Folder
  <2> HIDE DEF e, j
  <2> QED BY <2>1, Appended
<1>6. new \in Process
  BY <1>2 DEF Process
<1>7. after \in Folder
  <2> HIDE DEF e, raw
  <2> QED BY <1>2, <1>5 DEF Folder
<1>8. /\ SameAs(j, new) /\ new.pc = "count" /\ new.at = j.at /\ new.results = j.results
      /\ new.held = j.held /\ new.stop = j.stop
  BY <1>2 DEF Process, SameAs
<1>9. /\ after.freeze = e.freeze /\ after.manifest = e.manifest /\ after.report = e.report
      /\ after.opened = e.opened /\ after.runs = e.runs /\ after.raw = raw
      /\ after.events = e.events /\ after.torn = e.torn /\ after.broken = e.broken
  <2> HIDE DEF raw
  <2> QED BY <1>2 DEF Folder
<1>10. /\ Keep /\ UNCHANGED <<other, review>> /\ Set(p, new)
       /\ evidence' = [evidence EXCEPT ![d] = after]
  <2>1. evidence' = [evidence EXCEPT ![d].raw = Append(@, j.held.id)]
    BY DEF ListRun
  <2>2. evidence' = [evidence EXCEPT ![d] = after]
    <3> HIDE DEF d, j
    <3> QED BY <1>2, <2>1
  <2> QED BY <2>2, Zenon DEF ListRun, Writing
<1>11. spent' = s /\ spent <= s
  BY <1>2 DEF ListRun
<1> HIDE DEF j, d, e, new, after, raw, s
<1>12. e.broken = FALSE /\ e.freeze = j.doc /\ e.opened = TRUE /\ e.report = Nothing
       /\ (e.manifest = Nothing \/ e.manifest.status = "running")
  BY <1>1, <1>2, <1>3 DEF Verified, Announced, Folder
<1>13. e.runs = Append(j.results, j.held) /\ j.at = Len(j.results) + 1
  BY <1>1, <1>3, <1>12 DEF RowsDone
<1>14. Len(e.runs) = Len(j.results) + 1 /\ Len(j.results) \in Nat
  BY <1>2, <1>4, <1>13 DEF Process
<1>15. n + 1 = j.at
  BY <1>1, <1>3, <1>5, <1>12, <1>13, <1>14 DEF Listed
<1>16. Verified(new, after)
  BY <1>1, <1>3, <1>8, <1>9, <1>12 DEF Verified, SameAs
<1>17. Announced(new, after)
  BY <1>1, <1>3, <1>8, <1>9 DEF Announced, SameAs
<1>18. RowsDone(new, after)
  BY <1>1, <1>3, <1>8, <1>9 DEF RowsDone, SameAs
<1>19. InHand(new)
  BY <1>1, <1>3, <1>8 DEF InHand, SameAs
<1>20. Stops(new, after)
  BY <1>1, <1>3, <1>8, <1>9 DEF Stops, SameAs
<1>21. Listed(new, after)
  <2>1. \A i \in 1..(n + 1) : raw[i] = i
    <3> SUFFICES ASSUME NEW i \in 1..(n + 1) PROVE raw[i] = i
      OBVIOUS
    <3>1. CASE i \in 1..n
      BY <1>3, <1>5, <1>12, <3>1 DEF Listed
    <3>2. CASE i = n + 1
      BY <1>4, <1>5, <1>15, <3>2
    <3> QED BY <1>5, <3>1, <3>2
  <2>2. Len(e.runs) = n + 1
    BY <1>13, <1>14, <1>15
  <2> QED BY <1>5, <1>8, <1>9, <2>1, <2>2 DEF Listed
<1>22. Paid(new, s)
  BY <1>1, <1>3, <1>8 DEF Paid, SameAs
<1>23. Own(new, after, s)
  BY <1>16, <1>17, <1>18, <1>19, <1>20, <1>21, <1>22 DEF Own
<1>24. Lies(after)
  <2>1. Filed(e) /\ Noted(e)
    BY <1>2 DEF Lies
  <2>2. e.freeze # Nothing
    BY <1>2, <1>12
  <2>3. Filed(after)
    BY <1>9, <1>12, <2>1, <2>2 DEF Filed
  <2>4. after.manifest # Nothing =>
           after.manifest.freeze = after.freeze /\ after.manifest.status = "running"
    BY <1>9, <1>12, <2>1 DEF Noted
  <2>5. Noted(after) /\ Reported(after)
    BY <1>9, <1>12, <2>4, Zenon DEF Noted, Reported
  <2> QED BY <2>3, <2>5 DEF Lies
<1>25. new.pc \in Past /\ new.doc = j.doc /\ new.dir = d
      /\ new.source = j.source /\ new.script = j.script
  BY <1>8 DEF Past, SameAs, d
<1> QED BY <1>1, <1>2, <1>6, <1>7, <1>9, <1>10, <1>11, <1>23, <1>24, <1>25, Goes DEF j, d, e

LEMMA CountStep ==
    ASSUME CInv, NEW p \in Procs, CountRun(p)
    PROVE  CInv'
<1> DEFINE j == proc[p]
           d == j.dir
           e == evidence[d]
           r == j.held
           n == Len(j.results)
           done == Append(j.results, r)
           k == [j EXCEPT !.results = done, !.at = @ + 1]
           stop == k.stop \/ k.held.status = "budget_exhausted"
           pc == IF stop THEN "final" ELSE "loop"
           new == [k EXCEPT !.pc = pc, !.stop = stop]
           m == IF k.doc.protocol = "reference" THEN e.manifest ELSE Interim(k)
           after == [e EXCEPT !.manifest = m]
           s == spent
<1>1. j.pc = "count" /\ j.pc \in Past
  BY DEF CountRun, Past
<1>2. /\ j \in Process /\ j.doc \in Document /\ d \in Dirs /\ e \in Folder
      /\ Own(j, e, s) /\ Lies(e) /\ s \in Nat /\ evidence \in [Dirs -> Folder]
      /\ j.doc # Nothing
  BY <1>1, Working
<1>3. /\ Verified(j, e) /\ Announced(j, e) /\ RowsDone(j, e) /\ InHand(j) /\ Stops(j, e)
      /\ Listed(j, e) /\ Paid(j, s) /\ j.start \in Snapshot /\ j.start.own <= s
      /\ other \in [research : Nat, public : Nat]
  BY <1>2 DEF Own, Paid, CInv, Stored
<1>4. /\ r \in Record /\ j.at \in Nat /\ j.results \in Seq(Record)
  BY <1>1, <1>2, <1>3 DEF InHand, Process
<1>5. /\ done \in Seq(Record) /\ n \in Nat /\ Len(done) = n + 1
      /\ CostOf(done) = CostOf(j.results) + r.cost /\ CostOf(j.results) \in Int
  <2> HIDE DEF j
  <2> QED BY <1>4, Appended, CostOfMore
<1>6. /\ k \in Process /\ SameAs(j, k) /\ k.pc = "count" /\ k.at = j.at + 1 /\ k.results = done
      /\ k.held = r /\ k.stop = j.stop
  <2> HIDE DEF done, j
  <2>1. j.at + 1 \in Nat
    BY <1>4
  <2>2. k \in Process
    BY <1>2, <1>5, <2>1 DEF Process
  <2>3. /\ k.doc = j.doc /\ k.dir = j.dir /\ k.image = j.image /\ k.source = j.source
        /\ k.script = j.script /\ k.edited = j.edited /\ k.start = j.start /\ k.pc = j.pc /\ k.held = j.held /\ k.stop = j.stop
    BY <1>2 DEF Process
  <2>4. k.at = j.at + 1 /\ k.results = done
    BY <1>2 DEF Process
  <2> QED BY <1>1, <2>2, <2>3, <2>4 DEF SameAs
<1>7. /\ new \in Process /\ SameAs(k, new) /\ new.pc = pc /\ new.at = k.at
      /\ new.results = k.results /\ new.stop = stop /\ pc \in {"final", "loop"} /\ stop \in BOOLEAN
  <2>1. stop \in BOOLEAN /\ pc \in {"final", "loop"}
    <3>1. k.stop \in BOOLEAN
      BY <1>6 DEF Process
    <3> QED BY <3>1
  <2> HIDE DEF k, stop, pc
  <2>2. new \in Process
    BY <1>6, <2>1 DEF Process
  <2>3. /\ new.script = k.script /\ new.doc = k.doc /\ new.dir = k.dir /\ new.image = k.image
        /\ new.source = k.source /\ new.edited = k.edited /\ new.start = k.start
    BY <1>6 DEF Process
  <2>4. new.pc = pc /\ new.at = k.at /\ new.results = k.results /\ new.stop = stop
    BY <1>6 DEF Process
  <2> QED BY <2>1, <2>2, <2>3, <2>4 DEF SameAs
<1>8. /\ Keep /\ UNCHANGED <<other, review>> /\ Set(p, new)
      /\ evidence' = [evidence EXCEPT ![d] = after]
  <2>1. k.dir = d
    BY <1>6 DEF SameAs
  <2>2. evidence' = [evidence EXCEPT ![k.dir].manifest =
                        IF k.doc.protocol = "reference" THEN @ ELSE Interim(k)]
    BY Zenon DEF CountRun
  <2>3. evidence' = [evidence EXCEPT ![d] = after]
    <3> HIDE DEF d, k
    <3> QED BY <1>2, <2>1, <2>2
  <2>4. Keep /\ UNCHANGED <<other, review>> /\ Set(p, new)
    BY Zenon DEF CountRun
  <2> QED BY <2>3, <2>4
<1>9. spent' = s /\ spent <= s
  BY <1>2 DEF CountRun
<1> HIDE DEF j, d, e, r, n, done, k, new, s, m, after
<1>10. e.broken = FALSE /\ e.freeze = j.doc /\ e.opened = TRUE /\ e.report = Nothing
       /\ (e.manifest = Nothing \/ e.manifest.status = "running")
  BY <1>1, <1>2, <1>3 DEF Verified, Announced, Folder
<1>11. /\ m \in Note \cup {Nothing}
       /\ m = Nothing \/ m.status = "running"
       /\ m # Nothing => m.freeze = j.doc
  <2>1. k.doc = j.doc /\ k.start = j.start
    BY <1>6 DEF SameAs
  <2>2. Interim(k) \in Note /\ Interim(k).status = "running" /\ Interim(k).freeze = j.doc
    BY <1>2, <1>3, <1>6, <2>1, InterimIs DEF s
  <2>3. /\ e.manifest \in Note \cup {Nothing}
        /\ e.manifest # Nothing => e.manifest.freeze = e.freeze
    BY <1>2 DEF Folder, Lies, Noted
  <2> QED BY <1>10, <2>2, <2>3 DEF m
<1>12. after \in Folder
  BY <1>2, <1>11 DEF Folder, after
<1>13. /\ after.freeze = e.freeze /\ after.manifest = m /\ after.report = e.report
       /\ after.opened = e.opened /\ after.runs = e.runs /\ after.raw = e.raw
       /\ after.events = e.events /\ after.torn = e.torn /\ after.broken = e.broken
  BY <1>2 DEF Folder, after
<1>14. e.runs = done /\ j.at = n + 1 /\ j.at <= Len(Order(j.doc))
  BY <1>1, <1>3, <1>10 DEF RowsDone, done, r, n
<1>15. SameAs(j, new) /\ new.at = j.at + 1 /\ new.results = done /\ new.pc = pc
       /\ (new.stop = FALSE => j.stop = FALSE) /\ (pc = "loop" => new.stop = FALSE)
  <2>1. j.stop \in BOOLEAN
    BY <1>2 DEF Process
  <2>2. new.stop = FALSE => j.stop = FALSE
    BY <1>6, <1>7, <2>1
  <2>3. pc = "loop" => new.stop = FALSE
    BY <1>7
  <2>4. SameAs(j, new)
    BY <1>6, <1>7 DEF SameAs
  <2> QED BY <1>6, <1>7, <2>2, <2>3, <2>4
<1> HIDE DEF stop, pc
<1>16. Verified(new, after)
  BY <1>3, <1>10, <1>13, <1>15 DEF Verified, SameAs
<1>17. Announced(new, after)
  BY <1>7, <1>10, <1>11, <1>13, <1>15 DEF Announced, SameAs
<1>18. RowsDone(new, after)
  <2>1. Len(Order(j.doc)) \in Nat /\ n + 2 <= Len(Order(j.doc)) + 1
    BY <1>2, <1>5, <1>14, OrderIs
  <2> QED BY <1>5, <1>7, <1>13, <1>14, <1>15, <2>1 DEF RowsDone, SameAs
<1>19. InHand(new)
  BY <1>7, <1>15 DEF InHand
<1>20. Stops(new, after)
  BY <1>3, <1>7, <1>13, <1>15 DEF Stops
<1>21. Listed(new, after)
  BY <1>1, <1>3, <1>7, <1>13, <1>15 DEF Listed
<1>22. Paid(new, s)
  <2>1. ASSUME j.doc.protocol # "reference" PROVE s - j.start.own = CostOf(done) + 0
    <3>1. s - j.start.own = CostOf(j.results) + r.cost
      BY <1>1, <1>3, <2>1 DEF Paid, r
    <3>2. r.cost \in {0, 1} /\ j.start.own \in Nat
      BY <1>3, <1>4 DEF Record, Snapshot
    <3> QED BY <1>2, <1>5, <3>1, <3>2
  <2> QED BY <1>3, <1>7, <1>15, <2>1 DEF Paid, SameAs
<1>23. Own(new, after, s)
  BY <1>16, <1>17, <1>18, <1>19, <1>20, <1>21, <1>22 DEF Own
<1>24. Lies(after)
  <2>1. Filed(e) /\ e.freeze # Nothing
    BY <1>2, <1>10 DEF Lies
  <2>2. Filed(after)
    BY <1>10, <1>13, <2>1 DEF Filed
  <2>3. Noted(after) /\ Reported(after)
    BY <1>10, <1>11, <1>13 DEF Noted, Reported
  <2> QED BY <2>2, <2>3 DEF Lies
<1>25. new.pc \in Past /\ new.doc = j.doc /\ new.dir = d
      /\ new.source = j.source /\ new.script = j.script
  BY <1>7, <1>15 DEF Past, SameAs, d
<1> QED BY <1>1, <1>2, <1>7, <1>8, <1>9, <1>12, <1>13, <1>23, <1>24, <1>25, Goes DEF j, d, e

\* A directory whose last manifest is not written is what it is, whatever is
\* torn or broken of its index.
LEMMA StillLies ==
    ASSUME NEW e \in Folder, NEW after \in Folder, Lies(e),
           e.opened = TRUE, after.opened = TRUE, after.freeze = e.freeze,
           after.manifest = e.manifest, after.report = e.report, after.runs = e.runs,
           after.events = e.events, e.manifest = Nothing \/ e.manifest.status = "running"
    PROVE  Lies(after)
<1>2. Filed(e) /\ Noted(e) /\ Reported(e)
  BY Zenon DEF Lies
<1>3. Filed(after)
  BY <1>2 DEF Filed
<1>4. Noted(after)
  BY <1>2, Zenon DEF Noted
<1>5. Reported(after)
  BY <1>2, Zenon DEF Reported
<1> QED BY <1>3, <1>4, <1>5, Zenon DEF Lies

LEMMA WriteFailsStep ==
    ASSUME CInv, NEW p \in Procs, WriteFails(p)
    PROVE  CInv'
<1> DEFINE j == proc[p]
           d == j.dir
           e == evidence[d]
           n == Len(j.results)
           rows == IF j.pc = "count" THEN Append(j.results, j.held) ELSE j.results
           new == [j EXCEPT !.pc = "final", !.stop = TRUE, !.results = rows]
           s == spent
<1>1. j.pc \in {"file", "index", "count"} /\ j.pc \in Past
  BY DEF WriteFails, Past
<1>2. /\ j \in Process /\ j.doc \in Document /\ d \in Dirs /\ e \in Folder
      /\ Own(j, e, s) /\ Lies(e) /\ s \in Nat /\ evidence \in [Dirs -> Folder]
      /\ j.doc # Nothing
  BY <1>1, Working
<1>3. /\ Verified(j, e) /\ Announced(j, e) /\ RowsDone(j, e) /\ InHand(j) /\ Stops(j, e)
      /\ Listed(j, e) /\ Paid(j, s) /\ j.start \in Snapshot /\ j.start.own <= s
  BY <1>2 DEF Own, Paid
<1>4. /\ j.held \in Record /\ j.held.id \in Nat /\ j.results \in Seq(Record) /\ e.raw \in Seq(Nat)
  <2>1. j.held \in Record
    BY <1>1, <1>3 DEF InHand
  <2> HIDE DEF j, e
  <2> QED BY <1>2, <2>1 DEF Process, Record, Folder
<1>5. PICK raw \in IF j.pc = "index" THEN {e.raw, Append(e.raw, j.held.id)} ELSE {e.raw} :
         evidence' = [evidence EXCEPT ![d].raw = raw, ![d].broken = TRUE]
  BY Zenon DEF WriteFails
<1>6. raw \in Seq(Nat)
  <2> HIDE DEF j, e
  <2>1. Append(e.raw, j.held.id) \in Seq(Nat)
    BY <1>4, Appended
  <2> QED BY <1>4, <2>1
<1> DEFINE after == [e EXCEPT !.raw = raw, !.broken = TRUE]
<1>7. /\ after \in Folder
      /\ after.freeze = e.freeze /\ after.manifest = e.manifest /\ after.report = e.report
      /\ after.opened = e.opened /\ after.runs = e.runs
      /\ after.events = e.events /\ after.torn = e.torn /\ after.broken = TRUE
  <2> HIDE DEF e
  <2> QED BY <1>2, <1>6 DEF Folder
<1>8. evidence' = [evidence EXCEPT ![d] = after] /\ Keep /\ UNCHANGED <<other, review>>
      /\ spent' = s /\ spent <= s
  <2>1. evidence' = [evidence EXCEPT ![d] = after]
    <3> HIDE DEF d, j
    <3> QED BY <1>2, <1>5
  <2>2. Keep /\ UNCHANGED <<spent, other, review>>
    BY Zenon DEF WriteFails
  <2> QED BY <1>2, <2>1, <2>2
<1>9. e.opened = TRUE /\ e.torn = FALSE
      /\ (e.manifest = Nothing \/ e.manifest.status = "running")
  BY <1>3 DEF Verified, Announced
<1>10. Lies(after)
  <2> HIDE DEF j, d, e, after, s
  <2>1. after.opened = TRUE
    BY <1>7, <1>9
  <2> QED BY <1>2, <1>7, <1>9, <2>1, StillLies
<1>11. CASE j.doc.protocol = "reference"
  <2>1. Set(p, Unborn)
    BY <1>11, Zenon DEF WriteFails
  <2> HIDE DEF j, d, e, after, s
  <2> QED BY <1>1, <1>2, <1>7, <1>8, <1>10, <2>1, Gone DEF j, d, e
<1>12. CASE j.doc.protocol # "reference"
  <2>1. Set(p, new)
    BY <1>12, Zenon DEF WriteFails
  <2>2. rows \in Seq(Record) /\ n \in Nat
    <3> HIDE DEF j
    <3> QED BY <1>4, Appended
  <2>3. /\ new \in Process /\ SameAs(j, new) /\ new.pc = "final" /\ new.stop = TRUE
        /\ new.results = rows
    <3> HIDE DEF rows, j
    <3>1. new \in Process
      BY <1>2, <2>2 DEF Process
    <3> QED BY <1>2, <3>1 DEF Process, SameAs
  <2> HIDE DEF j, d, e, new, after, s, rows, n
  <2>4. e.broken = FALSE /\ e.freeze = j.doc /\ e.report = Nothing
    BY <1>1, <1>2, <1>3 DEF Verified, Announced, Folder
  <2>5. e.runs = IF j.pc = "file" THEN j.results ELSE Append(j.results, j.held)
    BY <1>1, <1>3, <2>4 DEF RowsDone
  <2>6. Len(rows) <= Len(e.runs) /\ \A i \in 1..Len(rows) : rows[i] = e.runs[i]
    <3>1. j.pc # "count" => rows = j.results
      BY DEF rows
    <3>2. j.pc = "count" => rows = e.runs
      BY <2>5 DEF rows
    <3>3. e.runs \in Seq(Record)
      BY <1>2 DEF Folder
    <3>4. Len(rows) \in Nat
      BY <2>2
    <3> QED BY <1>3, <3>1, <3>2, <3>4 DEF RowsDone
  <2>7. Verified(new, after)
    BY <1>3, <1>7, <1>12, <2>3 DEF Verified, SameAs
  <2>8. Announced(new, after)
    BY <1>1, <1>3, <1>7, <2>3, <2>4 DEF Announced, SameAs
  <2>9. RowsDone(new, after)
    BY <1>7, <2>3, <2>6 DEF RowsDone
  <2>10. InHand(new) /\ Stops(new, after) /\ Listed(new, after)
    BY <1>7, <2>3 DEF InHand, Stops, Listed
  <2>11. Paid(new, s)
    <3>1. Len(rows) = Len(Order(j.doc)) => s - j.start.own = CostOf(rows) + 0
      <4>1. /\ j.at = n + 1 /\ j.at <= Len(Order(j.doc)) /\ Len(Order(j.doc)) \in Nat
        BY <1>1, <1>2, <1>3, OrderIs DEF RowsDone, n
      <4>2. CASE j.pc # "count"
        <5>1. rows = j.results /\ Len(rows) = n
          BY <4>2 DEF rows, n
        <5> QED BY <2>2, <4>1, <5>1
      <4>3. CASE j.pc = "count"
        <5>1. s - j.start.own = CostOf(j.results) + j.held.cost
          BY <1>3, <1>12, <4>3 DEF Paid
        <5>2. rows = Append(j.results, j.held)
          BY <4>3 DEF rows
        <5>3. CostOf(rows) = CostOf(j.results) + j.held.cost /\ CostOf(j.results) \in Int
          BY <1>4, <5>2, CostOfMore
        <5>4. j.held.cost \in {0, 1}
          BY <1>4 DEF Record
        <5> QED BY <5>1, <5>3, <5>4
      <4> QED BY <4>2, <4>3
    <3> QED BY <1>3, <2>3, <3>1 DEF Paid, SameAs
  <2>12. Own(new, after, s)
    BY <2>7, <2>8, <2>9, <2>10, <2>11 DEF Own
  <2>13. new.pc \in Past /\ new.doc = j.doc /\ new.dir = d
        /\ new.source = j.source /\ new.script = j.script
    BY <2>3 DEF Past, SameAs, d
  <2> QED BY <1>1, <1>2, <1>7, <1>8, <1>10, <2>1, <2>3, <2>12, <2>13, Goes DEF j, d, e
<1> QED BY <1>11, <1>12

LEMMA KilledStep ==
    ASSUME CInv, NEW p \in Procs, Killed(p)
    PROVE  CInv'
<1> DEFINE j == proc[p]
           d == j.dir
           e == evidence[d]
<1>1. Holding(p) /\ Set(p, Unborn) /\ Keep /\ UNCHANGED <<other, review>>
  BY DEF Killed
<1>2. PICK torn \in IF j.pc = "index" THEN BOOLEAN ELSE {FALSE} :
         evidence' = [evidence EXCEPT ![d].torn = @ \/ torn]
  BY Zenon DEF Killed
<1>3. PICK cost \in Bills(j) : spent' = spent + cost
  BY Zenon DEF Killed
<1>4. cost \in {0, 1} /\ (j.pc # "cleared" => cost = 0)
  BY DEF Bills
<1>5. j \in Process /\ spent \in Nat /\ evidence \in [Dirs -> Folder]
  BY DEF CInv, Stored
<1>6. CASE j.pc = "locked"
  <2>1. spent' = spent
    BY <1>3, <1>4, <1>5, <1>6
  <2>2. d \in Dirs /\ Lies(e) /\ e \in Folder
    BY <1>5, <1>6 DEF CInv, Chosen
  <2>3. evidence' = evidence
    <3>1. torn = FALSE /\ e.torn \in BOOLEAN
      BY <1>6, <2>2 DEF Folder
    <3>2. [e EXCEPT !.torn = @ \/ torn] = e
      <4> HIDE DEF e
      <4> QED BY <2>2, <3>1 DEF Folder
    <3>3. evidence' = [evidence EXCEPT ![d] = [e EXCEPT !.torn = @ \/ torn]]
      BY <1>2, <1>5, <2>2
    <3> HIDE DEF d
    <3> QED BY <1>5, <2>2, <3>2, <3>3
  <2> QED BY <1>1, <2>1, <2>3, Refused
<1>7. CASE j.pc \in Past
  <2> DEFINE after == [e EXCEPT !.torn = @ \/ torn]
             s == spent + cost
  <2>1. d \in Dirs /\ e \in Folder /\ Own(j, e, spent) /\ Lies(e)
        /\ (e.manifest = Nothing \/ e.manifest.status = "running")
    BY <1>7, Working
  <2>2. /\ after \in Folder
        /\ after.freeze = e.freeze /\ after.manifest = e.manifest /\ after.report = e.report
        /\ after.opened = e.opened /\ after.runs = e.runs /\ after.events = e.events
    <3>1. torn \in BOOLEAN
      OBVIOUS
    <3>2. (e.torn \/ torn) \in BOOLEAN
      OBVIOUS
    <3> HIDE DEF e
    <3> QED BY <2>1, <3>1, <3>2 DEF Folder
  <2>3. e.opened = TRUE
    BY <2>1 DEF Own, Verified
  <2>4. s \in Nat /\ spent <= s /\ spent' = s
    BY <1>3, <1>4, <1>5
  <2>5. evidence' = [evidence EXCEPT ![d] = after]
    <3> HIDE DEF d
    <3> QED BY <1>2, <1>5, <2>1
  <2> HIDE DEF j, d, e, after, s
  <2>6. Lies(after)
    BY <2>1, <2>2, <2>3, StillLies
  <2> QED BY <1>1, <1>7, <2>1, <2>2, <2>4, <2>5, <2>6, Gone DEF j, d, e
<1>8. j.pc \in {"locked"} \cup Past
  BY <1>1, <1>5 DEF Holding, Process, Past
<1> QED BY <1>6, <1>7, <1>8

-----------------------------------------------------------------------------
(* The end of a campaign.                                                  *)

\* What a process has done is the plan up to a row, and is on disk.
LEMMA DoneIs ==
    ASSUME NEW j \in Process, NEW e \in Folder, j.doc \in Document, e.freeze = j.doc, Filed(e),
           RowsDone(j, e)
    PROVE  /\ FirstOf(j.doc, j.results) /\ FirstOf(j.doc, e.runs)
           /\ j.results \in Seq(Record) /\ e.runs \in Seq(Record)
           /\ Len(j.results) = Len(Order(j.doc)) => e.runs = j.results
<1> DEFINE q == j.results
           r == e.runs
           n == Len(Order(j.doc))
<1>1. q \in Seq(Record) /\ r \in Seq(Record) /\ n \in Nat
  BY OrderIs DEF Process, Folder
<1>2. FirstOf(j.doc, r)
  BY There, Zenon DEF Filed
<1>3. Len(q) <= Len(r) /\ \A i \in 1..Len(q) : q[i] = r[i]
  BY DEF RowsDone
<1> HIDE DEF q, r
<1>4. Len(q) \in Nat /\ Len(r) \in Nat /\ Len(r) <= n
  BY <1>1, <1>2 DEF FirstOf
<1>5. FirstOf(j.doc, q)
  BY <1>2, <1>3, <1>4 DEF FirstOf
<1>6. ASSUME Len(q) = n PROVE r = q
  <2>1. Len(r) = Len(q)
    BY <1>1, <1>3, <1>4, <1>6
  <2> QED BY <1>1, <1>3, <2>1
<1> QED BY <1>1, <1>2, <1>5, <1>6 DEF q, r

LEMMA ReportStep ==
    ASSUME CInv, NEW p \in Procs, Report(p)
    PROVE  CInv'
<1> DEFINE j == proc[p]
           d == j.dir
           e == evidence[d]
           new == [j EXCEPT !.pc = "close"]
           told == [status |-> Status(j), runs |-> j.results]
           after == [e EXCEPT !.report = told]
           s == spent
<1>1. j.pc = "final" /\ j.pc \in Past /\ j.doc.protocol = "reference"
  BY DEF Report, Writing, Past
<1>2. /\ j \in Process /\ j.doc \in Document /\ d \in Dirs /\ e \in Folder
      /\ Own(j, e, s) /\ Lies(e) /\ s \in Nat /\ evidence \in [Dirs -> Folder]
      /\ j.doc # Nothing
  BY <1>1, Working
<1>3. /\ Verified(j, e) /\ Announced(j, e) /\ RowsDone(j, e) /\ Stops(j, e) /\ Listed(j, e)
      /\ Paid(j, s)
  BY <1>2 DEF Own
<1>4. told \in Account /\ told.status = Status(j) /\ told.runs = j.results
  <2>1. Status(j) \in {"complete", "incomplete"}
    BY DEF Status
  <2>2. j.results \in Seq(Record)
    BY <1>2 DEF Process
  <2> HIDE DEF j
  <2> QED BY <2>1, <2>2 DEF Account
<1>5. new \in Process
  BY <1>2 DEF Process
<1>6. /\ SameAs(j, new) /\ new.pc = "close" /\ new.at = j.at /\ new.results = j.results
      /\ new.held = j.held /\ new.stop = j.stop
  BY <1>2 DEF Process, SameAs
<1>7. /\ after \in Folder
      /\ after.freeze = e.freeze /\ after.manifest = e.manifest /\ after.report = told
      /\ after.opened = e.opened /\ after.runs = e.runs /\ after.raw = e.raw
      /\ after.events = e.events /\ after.torn = e.torn /\ after.broken = e.broken
  <2> HIDE DEF e, told
  <2> QED BY <1>2, <1>4 DEF Folder
<1>8. /\ Keep /\ UNCHANGED <<other, review>> /\ Set(p, new)
      /\ evidence' = [evidence EXCEPT ![d] = after]
  <2>1. evidence' = [evidence EXCEPT ![d].report = told]
    BY Zenon DEF Report
  <2>2. evidence' = [evidence EXCEPT ![d] = after]
    <3> HIDE DEF d, told
    <3> QED BY <1>2, <2>1
  <2> QED BY <2>2, Zenon DEF Report, Writing
<1>9. spent' = s /\ spent <= s
  BY <1>2 DEF Report
<1> HIDE DEF j, d, e, new, after, told, s
<1>10. e.broken = FALSE /\ e.freeze = j.doc /\ e.opened = TRUE
       /\ (e.manifest = Nothing \/ e.manifest.status = "running")
  BY <1>1, <1>2, <1>3 DEF Verified, Announced, Folder
<1>11. e.runs = j.results
  BY <1>1, <1>3, <1>10 DEF RowsDone
<1>12. Verified(new, after)
  BY <1>1, <1>3, <1>6, <1>7, <1>10 DEF Verified, SameAs
<1>13. Announced(new, after)
  BY <1>1, <1>6, <1>7, <1>10 DEF Announced, SameAs
<1>14. RowsDone(new, after)
  BY <1>1, <1>3, <1>6, <1>7 DEF RowsDone, SameAs
<1>15. InHand(new) /\ Stops(new, after) /\ Listed(new, after)
  BY <1>1, <1>3, <1>6, <1>7 DEF InHand, Stops, Listed
<1>16. Paid(new, s)
  BY <1>1, <1>3, <1>6 DEF Paid, SameAs
<1>17. Own(new, after, s)
  BY <1>12, <1>13, <1>14, <1>15, <1>16 DEF Own
<1>18. Filed(e) /\ Noted(e) /\ e.freeze # Nothing
  BY <1>2, <1>10 DEF Lies
<1>19. Filed(after)
  BY <1>7, <1>10, <1>18 DEF Filed
<1>20. Noted(after)
  <2>1. after.manifest # Nothing =>
           after.manifest.freeze = after.freeze /\ after.manifest.status = "running"
    BY <1>7, <1>10, <1>18 DEF Noted
  <2> QED BY <2>1, Zenon DEF Noted
<1>21. Reported(after)
  <2> SUFFICES ASSUME after.report.status = "complete"
               PROVE  /\ Cells(after.report.runs) = Range(Order(after.freeze))
                      /\ \A i \in DOMAIN after.runs : after.runs[i].status # "interrupted"
    BY Zenon DEF Reported
  <2>1. MissingOf(j.doc, j.results) = {} /\ j.stop = FALSE
    <3>1. MissingOf(j.doc, j.results) = {} /\ ~j.stop
      BY <1>1, <1>4, <1>7 DEF Status
    <3>2. j.stop \in BOOLEAN
      BY <1>2 DEF Process
    <3> QED BY <3>1, <3>2
  <2>2. FirstOf(j.doc, j.results) /\ j.results \in Seq(Record)
    BY <1>2, <1>3, <1>10, <1>18, DoneIs
  <2>3. Cells(j.results) = Range(Order(j.doc))
    BY <1>2, <2>1, <2>2, FirstRows
  <2>4. \A i \in DOMAIN e.runs : e.runs[i].status # "interrupted"
    BY <1>3, <2>1 DEF Stops
  <2> QED BY <1>4, <1>7, <1>10, <2>3, <2>4
<1>22. Lies(after)
  BY <1>19, <1>20, <1>21 DEF Lies
<1>23. new.pc \in Past /\ new.doc = j.doc /\ new.dir = d
      /\ new.source = j.source /\ new.script = j.script
  BY <1>6 DEF Past, SameAs, d
<1> QED BY <1>1, <1>2, <1>5, <1>7, <1>8, <1>9, <1>17, <1>22, <1>23, Goes DEF j, d, e

LEMMA ConcludeStep ==
    ASSUME CInv, NEW p \in Procs, Conclude(p)
    PROVE  CInv'
<1> DEFINE j == proc[p]
           d == j.dir
           e == evidence[d]
           m == Final(j)
           after == [e EXCEPT !.manifest = m]
           s == spent
<1>1. /\ j.pc \in {"final", "close"} /\ j.pc \in Past
      /\ j.pc = "final" => j.doc.protocol # "reference"
  BY DEF Conclude, Past
<1>2. /\ j \in Process /\ j.doc \in Document /\ d \in Dirs /\ e \in Folder
      /\ Own(j, e, s) /\ Lies(e) /\ s \in Nat /\ evidence \in [Dirs -> Folder]
      /\ j.doc # Nothing
  BY <1>1, Working
<1>3. /\ Verified(j, e) /\ Announced(j, e) /\ RowsDone(j, e) /\ Stops(j, e) /\ Listed(j, e)
      /\ Paid(j, s) /\ j.start \in Snapshot /\ j.start.own <= s
      /\ Now \in Snapshot /\ Now.own = s /\ other \in [research : Nat, public : Nat]
  BY <1>2, Snapshots DEF Own, Paid, CInv, Stored
<1>4. e.freeze = j.doc /\ e.opened = TRUE /\ e.torn = FALSE
  BY <1>1, <1>3 DEF Announced, Verified
<1>5. Filed(e) /\ Reported(e)
  BY <1>2 DEF Lies
<1>6. /\ FirstOf(j.doc, j.results) /\ FirstOf(j.doc, e.runs)
      /\ j.results \in Seq(Record) /\ e.runs \in Seq(Record)
      /\ Len(j.results) = Len(Order(j.doc)) => e.runs = j.results
  <2> HIDE DEF j, e
  <2> QED BY <1>2, <1>3, <1>4, <1>5, DoneIs
<1>7. /\ MissingOf(j.doc, j.results) \in SUBSET AllCells
      /\ MissingOf(j.doc, j.results) = {} <=> Len(j.results) = Len(Order(j.doc))
  <2> HIDE DEF j
  <2> QED BY <1>2, <1>6, FirstRows
<1>8. /\ m \in Note /\ m.freeze = j.doc /\ m.completed = Len(j.results)
      /\ m.start = j.start /\ m.end = Now /\ m.delta = Spending(m.start, m.end)
      /\ m.status = Status(j) /\ m.missing = MissingOf(j.doc, j.results)
      /\ m.status \in {"complete", "incomplete"}
  <2>1. Status(j) \in {"complete", "incomplete"}
    BY DEF Status
  <2>2. Interim(j) \in Note
    <3> HIDE DEF j
    <3> QED BY <1>2, <1>3, InterimIs
  <2>3. /\ m.freeze = j.doc /\ m.completed = Len(j.results)
        /\ m.start = j.start /\ m.end = Now /\ m.delta = Spending(j.start, Now)
        /\ m.status = Status(j) /\ m.missing = MissingOf(j.doc, j.results)
    <3> HIDE DEF j
    <3> QED BY DEF Final, Interim
  <2>4. m \in Note
    <3> HIDE DEF j
    <3> QED BY <1>3, <1>7, <2>1, <2>2 DEF Final, Note
  <2> HIDE DEF j, m
  <2> QED BY <2>1, <2>3, <2>4
<1>9. /\ after \in Folder
      /\ after.freeze = e.freeze /\ after.manifest = m /\ after.report = e.report
      /\ after.opened = e.opened /\ after.runs = e.runs /\ after.raw = e.raw
      /\ after.events = e.events /\ after.torn = e.torn /\ after.broken = e.broken
  <2> HIDE DEF e, m
  <2> QED BY <1>2, <1>8 DEF Folder
<1>10. /\ Keep /\ UNCHANGED <<other, review>> /\ Set(p, Unborn)
       /\ evidence' = [evidence EXCEPT ![d] = after]
  <2>1. evidence' = [evidence EXCEPT ![d].manifest = m]
    BY Zenon DEF Conclude
  <2>2. evidence' = [evidence EXCEPT ![d] = after]
    <3> HIDE DEF d, m
    <3> QED BY <1>2, <2>1
  <2> QED BY <2>2, Zenon DEF Conclude
<1>11. spent' = s /\ spent <= s
  BY <1>2 DEF Conclude
<1> HIDE DEF j, d, e, m, after, s
<1>12. Filed(after)
  BY <1>2, <1>4, <1>5, <1>9 DEF Filed
<1>13. Reported(after)
  BY <1>5, <1>9, Zenon DEF Reported
<1>14. ASSUME j.doc.protocol # "reference" PROVE Told(m, after)
  <2>1. m.status = "complete" <=> m.missing = {}
    BY <1>8, <1>14 DEF Status
  <2>2. ASSUME m.status = "complete"
        PROVE  Len(e.runs) = Len(Order(j.doc)) /\ CostOf(e.runs) = m.end.own - m.start.own
    <3>1. Len(j.results) = Len(Order(j.doc)) /\ e.runs = j.results
      BY <1>6, <1>7, <1>8, <2>1, <2>2
    <3>2. s - j.start.own = CostOf(j.results) + 0
      BY <1>1, <1>3, <1>14, <3>1 DEF Paid
    <3>3. CostOf(j.results) \in Int
      <4>1. [i \in DOMAIN j.results |-> j.results[i].cost] \in [1..Len(j.results) -> Int]
            /\ Len(j.results) \in Nat
        BY <1>6, Records
      <4> DEFINE f == [i \in DOMAIN j.results |-> j.results[i].cost]
      <4> HIDE DEF f
      <4>2. f \in [1..Len(j.results) -> Int]
        BY <4>1 DEF f
      <4>3. Total(f, Len(j.results)) \in Int
        BY <4>1, <4>2, TotalInt
      <4> QED BY <4>3 DEF CostOf, f
    <3>4. CostOf(j.results) = m.end.own - m.start.own
      BY <1>3, <1>8, <3>2, <3>3
    <3> QED BY <3>1, <3>4
  <2>3. ASSUME e.broken = FALSE
        PROVE  /\ m.completed = Len(e.runs) /\ m.missing = MissingOf(j.doc, e.runs)
               /\ Len(e.raw) = Len(e.runs) /\ \A i \in DOMAIN e.raw : e.raw[i] = i
    <3>1. e.runs = j.results
      BY <1>1, <1>3, <2>3 DEF RowsDone
    <3>2. Len(e.runs) = Len(e.raw) /\ \A i \in DOMAIN e.raw : e.raw[i] = i
      BY <1>1, <1>3, <2>3 DEF Listed
    <3> QED BY <1>8, <3>1, <3>2
  <2>4. /\ after.freeze = j.doc /\ after.torn = FALSE
        /\ m.end \in Snapshot /\ m.start.own <= m.end.own /\ m.delta = Spending(m.start, m.end)
    BY <1>3, <1>4, <1>8, <1>9
  <2>5. m.status = "complete" =>
           Len(after.runs) = Len(Order(after.freeze)) /\ CostOf(after.runs) = m.end.own - m.start.own
    BY <1>9, <2>2, <2>4
  <2>6. after.broken = FALSE =>
           /\ m.completed = Len(after.runs) /\ m.missing = MissingOf(after.freeze, after.runs)
           /\ Len(after.raw) = Len(after.runs) /\ \A i \in DOMAIN after.raw : after.raw[i] = i
    BY <1>9, <2>3, <2>4
  <2> QED BY <2>1, <2>4, <2>5, <2>6, Zenon DEF Told
<1>15. Noted(after)
  BY <1>4, <1>8, <1>9, <1>14, Zenon DEF Noted
<1>16. Lies(after)
  BY <1>12, <1>13, <1>15 DEF Lies
<1> QED BY <1>1, <1>2, <1>9, <1>10, <1>11, <1>16, Gone DEF j, d, e

-----------------------------------------------------------------------------
(* The theorems.                                                           *)

LEMMA CampaignInductive == CampaignSpec => []CInv
<1>1. CampaignInit => CInv
  BY CInitial
<1>2. ASSUME CInv, [CampaignNext]_cvars
      PROVE  CInv'
  <2>1. CASE EditDocument \/ VerifyFixtures \/ StartFreeze \/ CheckCommit \/ FreezeDocument
    BY <1>2, <2>1, DeskStep
  <2>22. CASE EditTree
    BY <1>2, <2>22, EditStep
  <2>23. ASSUME NEW p \in Procs, Check(p) PROVE CInv'
    BY <1>2, <2>23, VerifiesStep
  <2>24. ASSUME NEW p \in Procs, Preflight(p) PROVE CInv'
    BY <1>2, <2>24, PreflightStep
  <2>2. CASE OtherSpending
    BY <1>2, <2>2, OtherStep
  <2>3. CASE ReadManifest
    BY <1>2, <2>3, ReadStep
  <2>4. CASE Analyse
    BY <1>2, <2>4, AnalyseStep
  <2>5. ASSUME NEW p \in Procs, Launch(p) PROVE CInv'
    BY <1>2, <2>5, LaunchStep
  <2>6. ASSUME NEW p \in Procs, Lock(p) PROVE CInv'
    BY <1>2, <2>6, LockStep
  <2>7. ASSUME NEW p \in Procs, Setup(p) PROVE CInv'
    BY <1>2, <2>7, SetupStep
  <2>8. ASSUME NEW p \in Procs, WriteFreeze(p) PROVE CInv'
    BY <1>2, <2>8, WriteFreezeStep
  <2>9. ASSUME NEW p \in Procs, WriteManifest(p) PROVE CInv'
    BY <1>2, <2>9, WriteManifestStep
  <2>10. ASSUME NEW p \in Procs, Begin(p) PROVE CInv'
    BY <1>2, <2>10, BeginStep
  <2>11. ASSUME NEW p \in Procs, LeaveLoop(p) PROVE CInv'
    BY <1>2, <2>11, LeaveLoopStep
  <2>12. ASSUME NEW p \in Procs, Ends(p) PROVE CInv'
    BY <1>2, <2>12, EndsStep
  <2>13. ASSUME NEW p \in Procs, Breaks(p) PROVE CInv'
    BY <1>2, <2>13, BreaksStep
  <2>14. ASSUME NEW p \in Procs, FileRun(p) PROVE CInv'
    BY <1>2, <2>14, FileStep
  <2>15. ASSUME NEW p \in Procs, ListRun(p) PROVE CInv'
    BY <1>2, <2>15, ListStep
  <2>16. ASSUME NEW p \in Procs, CountRun(p) PROVE CInv'
    BY <1>2, <2>16, CountStep
  <2>17. ASSUME NEW p \in Procs, WriteFails(p) PROVE CInv'
    BY <1>2, <2>17, WriteFailsStep
  <2>18. ASSUME NEW p \in Procs, Report(p) PROVE CInv'
    BY <1>2, <2>18, ReportStep
  <2>19. ASSUME NEW p \in Procs, Conclude(p) PROVE CInv'
    BY <1>2, <2>19, ConcludeStep
  <2>20. ASSUME NEW p \in Procs, Killed(p) PROVE CInv'
    BY <1>2, <2>20, KilledStep
  <2>21. CASE UNCHANGED cvars
    <3>1. UNCHANGED <<proc, spent, evidence, review, tree, receipts, docs, desk, other>>
      BY <2>21 DEF cvars
    <3>2. Stored'
      BY <1>2, <3>1, Zenon DEF CInv, Stored
    <3> QED BY <1>2, <3>1, <3>2, SameTree
  <2> QED BY <1>2, <2>1, <2>2, <2>3, <2>4, <2>5, <2>6, <2>7, <2>8, <2>9, <2>10, <2>11, <2>12,
             <2>13, <2>14, <2>15, <2>16, <2>17, <2>18, <2>19, <2>20, <2>21, <2>22, <2>23, <2>24, Zenon DEF CampaignNext
<1> QED BY <1>1, <1>2, PTL DEF CampaignSpec

\* Whatever is edited, and whenever, a run was made with the catalog its
\* document names and, unless the tree was edited between the process's
\* imports and its last look at the files, with its source; a pilot's or a
\* replication's with an unedited document, its fixtures passed in the image
\* the process was told of (verify_freeze, verify).
THEOREM FreezeHolds == CampaignSpec => []RunsAsFrozen
<1>1. CInv => RunsAsFrozen
  <2> SUFFICES ASSUME CInv, NEW d \in Dirs, NEW i \in DOMAIN evidence[d].runs
               PROVE  LET r == evidence[d].runs[i]
                          f == evidence[d].freeze
                      IN /\ r.source.catalog = f.catalog
                         /\ r.source = f.source \/ r.edited
                         /\ f.protocol # "reference" =>
                              /\ f.sealed /\ f.receipt.passed
                              /\ f.receipt.image = r.image /\ f.receipt.catalog = f.catalog
    BY Zenon DEF RunsAsFrozen
  <2> DEFINE e == evidence[d]
  <2>1. Filed(e)
    BY Zenon DEF CInv, Lies
  <2>2. e.freeze # Nothing
    <3> SUFFICES ASSUME e.freeze = Nothing PROVE FALSE
      OBVIOUS
    <3>1. e.runs = <<>>
      BY <2>1 DEF Filed
    <3>2. DOMAIN e.runs = {}
      BY <3>1
    <3> QED BY <3>2
  <2>3. AsFrozen(e.freeze, e.runs[i].source, e.runs[i].edited, e.runs[i].image)
    BY <2>1, <2>2, Zenon DEF Filed
  <2> QED BY <2>3 DEF AsFrozen
<1> QED BY <1>1, CampaignInductive, PTL

\* An analysis tells of the plan up to where the campaign stopped, "complete"
\* of all of it only, and the ledger's delta is then the cost of its runs and
\* what others were charged meanwhile (read_runs, analyze, report of
\* reference.py).
THEOREM RecordHolds == CampaignSpec => []AnalysedIsTheRecord
<1>1. CInv => AnalysedIsTheRecord
  <2> SUFFICES ASSUME CInv PROVE AnalysedIsTheRecord
    OBVIOUS
  <2>1. ASSUME NEW d \in Dirs, evidence[d].report # Nothing, evidence[d].report.status = "complete"
        PROVE  /\ Cells(evidence[d].report.runs) = Range(Order(evidence[d].freeze))
               /\ \A i \in DOMAIN evidence[d].runs : evidence[d].runs[i].status # "interrupted"
    BY <2>1, Zenon DEF CInv, Lies, Reported
  <2>2. ASSUME review.pc = "over", review.status # "refused"
        PROVE  /\ \A p \in Procs : Holding(p) /\ proc[p].pc # "locked" => proc[p].dir # review.dir
               /\ ARecord(review, evidence)
    <3>1. Analysis(review, evidence)
      BY Zenon DEF CInv
    <3>2. Analysing(review, evidence) /\ Judged(review, evidence)
      BY <3>1 DEF Analysis
    <3>3. ARecord(review, evidence)
      BY <2>2, <3>2, Zenon DEF Judged
    <3>4. /\ review.manifest.status # "running" /\ review.manifest \in Note
          /\ evidence[review.dir].manifest = review.manifest
      BY <2>2, <3>2, <3>3 DEF Analysing, ARecord
    <3>5. ASSUME NEW p \in Procs, Holding(p), proc[p].pc # "locked", proc[p].dir = review.dir
          PROVE  FALSE
      <4>1. proc[p] \in Process
        BY DEF CInv, Stored
      <4>2. proc[p].pc \in Past
        BY <3>5, <4>1 DEF Holding, Process, Past
      <4>3. evidence[proc[p].dir].manifest = Nothing \/ evidence[proc[p].dir].manifest.status = "running"
        BY <4>2, Working
      <4> QED BY <3>4, <3>5, <4>3, There, Zenon
    <3> QED BY <3>3, <3>5
  <2> QED BY <2>1, <2>2, Zenon DEF AnalysedIsTheRecord, ARecord
<1> QED BY <1>1, CampaignInductive, PTL

\* And none refuses what was closed without a failed write, but for the
\* causes the publication of the replication names.
THEOREM CausesHold == CampaignSpec => []RefusedForCause
<1>1. CInv => RefusedForCause
  <2> SUFFICES ASSUME CInv, review.pc = "over", review.status = "refused"
               PROVE  RefusedForCause
    BY Zenon DEF RefusedForCause
  <2>1. Analysis(review, evidence)
    BY Zenon DEF CInv
  <2>2. ACause(review, evidence)
    BY <2>1, Zenon DEF Analysis, Judged
  <2> QED BY <2>2 DEF ACause, RefusedForCause
<1> QED BY <1>1, CampaignInductive, PTL

=============================================================================
