# ForgeRL in TLA+

TLA+ specifications of ForgeRL (`src/forgerl`), the TLC configurations that
model-check them, and TLAPS proofs about the charge ledger, the recruiter's tables and broker, the
public queue, the repair episode, the executor, and what studies and campaigns spend and
leave as evidence. Source paths
below are relative to `src/`; a bare module name is a `.tla` file in this directory.

ForgeRL is a benchmark for repair agents and a small public service around it. A
model is asked for patches, the patches run in disposable containers, a learned
router chooses what to try next, and every model request costs money. Three kinds
of process use one SQLite database: the public application, the recruiter broker,
and studies started from the command line. The hard part of the program is what
those processes may do to the database together.

## 1. Inventory

| Component | State it keeps | Operations | Correct when |
|---|---|---|---|
| **Charge ledger** `forgerl/store.py:27-178` | tables `charges`, `settings` (`provider_disabled`) | `reserve`, `settle`, `import_calibration`, `budget`; the operator's pause and resume (`docs/OPERATIONS.md:81-103`) | caps bind whatever interleaves and crashes; an unknown bill keeps its reservation; an accounted row is final; an overrun stops all spending |
| **Provider adapters** `forgerl/provider.py`, `forgerl/bench/provider.py` | one call: its charge and its HTTP exchange | `generate`: reserve, send, settle; 401/402/403 insert a pause; 429 is retried under a new charge | a charge is settled at most once, on every path; a rejection pauses spending |
| **Recruiter tables** `forgerl/recruiter/state.py` | `recruiter_sessions`, `recruiter_jobs`, the `charges` rows whose `run_id` is a job | `start_session`, `admit`, `claim`, `finish`, `prune`, `recover`, `reserve` | one running job, two queued; one trial per session and per client and day; one request per job; daily and monthly allowance |
| **Recruiter broker** `forgerl/recruiter/broker.py` | worker task, executor threads, OS lock, database | request handlers, `work`, `lifespan` start and stop | a running job has a live worker; recovery never interrupts a live episode; jobs drain; stops complete |
| **Recruiter gateway** `forgerl/recruiter/gateway.py` | none | validates a public request and forwards it with a three-second timeout | a repeated or lost submission starts one job at most |
| **Study** `forgerl/bench/study.py`, `scripts/forgebench.py` | starting total and cap; the evidence directory; the fitted controller | `CappedProvider.generate` over the shared ledger; train, fit, freeze, evaluate, summarise | the study spends no more than its cap; what a reader accepts of its directory, at any moment, is true |
| **Public app and run queue** `forgerl/app.py`, `forgerl/store.py:180-331` | tables `runs`, `events`, `quotas`; worker task; event queues | admission, `worker`, `execute`, event stream, `recover` | quotas, one run at a time, a finished run stays finished |
| **Episode engine** `forgerl/bench/engine.py`, `forgerl/bench/router.py`, the verification of `bench/v03.py` | the files as edited, their measurement, a checkpoint, counters and spending of one episode | `step` per action, `finish`, `allowed_actions`, `choose_action` | every limit binds; no illegal action is asked for; what is reported was spent; decisions and grades are about measured files |
| **v0.1 episode and study** `forgerl/orchestrator.py`, `controller.py`, `provider.py`, `research.py`, `scripts/aggregate_studies.py` | one episode and its clones, a search tree, a fitted Q function, the files of a study | request and test, `clone`, `visit`, `fit_q`, `choose_action`, evaluate, aggregate | no shared prefix is billed twice; exhaustion stops everything; an aggregate that says complete is |
| **Executor** `forgerl/sandbox.py`, `forgerl/bench/sandbox.py`, `sandbox/runner.py` | two slots, handlers, containers with names and deadlines | validate, take a slot, run, time out, remove, release, grade | a slot is held exactly while its handler works; the candidate is blamed only for what it did; a grade is what the code under test does; every call ends |
| **Pilot, replication and reference runs** `forgerl/bench/pilot.py`, `replication.py`, `reference.py` and their scripts | fixture receipt, frozen plan, file lock, evidence directory | verify fixtures, freeze, verify, run, index, conclude, analyse | what runs is what was frozen; an analysis accepts the record of a whole campaign, and refuses only for cause |
| **Readers and data** `bench/api.py`, `pilot_view.py`, `archive.py`, task catalogs, `static/`, report scripts | none that changes | | |

How they interact:

```
 public app ──┐                         ┌── POST /trial ── gateway ── broker
 worker task  │ reserve/settle          │ session/submit            (worker + threads)
              ▼                         ▼                              │ claim/finish
        Store.charges  ◄── reserve, recover ── recruiter_sessions, recruiter_jobs
              ▲
 study ───────┘ CappedProvider: budget(), then reserve/settle
```

Every store method is one `BEGIN IMMEDIATE` transaction (`store.py:58-69`), so it is
one atomic step. The time a transaction works with is read *before* it waits
for the write lock (`store.py:101`, `state.py:193`, `255`, `338`), so rows commit out of
stamp order. Hard behaviours:

* calls of several processes interleave on one ledger and die between reserving and
  settling;
* a cancelled worker leaves a claim or a finish running in a thread
  (`broker.py:85,142`, `asyncio.to_thread` cannot be cancelled);
* recovery runs at start and stop, beside whatever survived;
* pruning deletes the rows that rate limits and daily limits count;
* SQLite can fail in the middle of a cancellation;
* three writers share the single `provider_disabled` row;
* a study writes a dozen files in a fixed order and may die between any two, while
  another program reads them;
* hours pass between freezing a plan and running it;
* a container that does not answer, a daemon that dies and a caller that gives up meet in the
  executor's two slots.

`PROJECT.json` lists each of these hazards at its line with the properties that cover it.

## 2. Modules

| Module | Models | Builds on |
|---|---|---|
| `SpendAuthority` | what the ledger promises: authorise, release, overrun | – |
| `Totals` | `SUM(charged)` as a recursive function over row numbers | – |
| `Ledger` | charges, pause reasons, the money part of a provider call | `Totals` |
| `LedgerRejections` | `Ledger` with the history "rejected and not yet cleared" | `Ledger` |
| `StudyCap` | `CappedProvider` beside other processes | `Ledger` |
| `Study` | a study, the evidence it writes, the aggregation and the support audit that read it | – |
| `Campaign` | freeze, pilot, replication, reference runs, their evidence and analyses | `Totals` |
| `Executor` | the broker of containers, its callers, the runner, grading | – |
| `Attempt` | the v0.1 episode and controller as operators on a record | – |
| `Research` | the v0.1 study: search tree, fit, evaluation, files, aggregation over seeds | `Attempt`, `Totals` |
| `Trials` | the recruiter tables and the trial's own reserve and recover | `Ledger` |
| `Broker` | the process: who calls `Trials`, threads, stop, kill, restart | `Trials` |
| `RunQueue` | the public queue: tables, worker, its threads, restarts, the polling page | – |
| `RepoEpisode` | one repair episode: routing, requests, sandbox, backoff, grade | – |
| `TotalsProofs`, `LedgerProofs` | theorems | `Totals`, `Ledger` |
| `RecruiterProofs` | theorems, on those of the ledger | `Trials`, `Broker` |
| `EvidenceProofs` | theorems about what the files say | `Study`, `Campaign` |
| `ResearchProofs` | theorems about what studies spend, on those of the ledger | `Research`, `StudyCap` |
| `RunQueueProofs`, `RepoEpisodeProofs`, `ExecutorProofs` | theorems | `RunQueue`, `RepoEpisode`, `Executor` |
| `MCLedger`, `MCLedgerRejections`, `MCTrials`, `MCBroker`, `MCRunQueue`, `MCRepoEpisode`, `MCExecutor` | instances for TLC | |
| `MCEvidence` | either a `Study` or a `Campaign` | `Study`, `Campaign` |
| `MCResearch` | either a v0.1 study or a capped one | `Research`, `StudyCap` |

`Broker` ⇒ `Trials` ⇒ `Ledger` ⇒ `SpendAuthority`, so an invariant of a lower module holds of
the upper ones. The second and the third arrow are refinements between different views of the
state, which runs check (`ImplementsLedger`, `ImplementsSpendAuthority`) and theorems prove. The
first holds by the way `Broker` is written, each of whose actions is one of `Trials` or leaves the tables
alone; it is a lemma, and no run or theorem is about it.

Operators whose comment begins with "Faulty:" are the plausible mistakes against
which the properties were validated: put in the place of the definition that follows, each makes
its property fail (`PROJECT.json`, "mutants"). No specification uses them.

### Ledger

`charges[i]` is the row that call `i` inserts; calls are numbered in the order in which they
reach the ledger, which stands for `uuid4`. `call[i]` is where its `generate` is: `idle`,
`open` (reserved, request may be out), `denied` (a 401/402/403 pause is committed, its
settlement is not), `closed`. `disabled` is the value of the one `provider_disabled` row.

| Action | Code |
|---|---|
| `Reserve`, `Refuse` | `Store.reserve` and its exceptions; `now` is any stamp |
| `SettleReported` | `Store.settle` with a cost, including `INSERT OR REPLACE` of `reservation_exceeded` |
| `SettleUnknown` | `settle(charge, None)`: timeouts, cancellation, bad status, unusable accounting |
| `Deny` | the pause written by `generate` before it raises |
| `Crash` | the process dies, or SQLite refuses the last settlement |
| `MarkUncertain` | recovery of another process; it looks at the row, never at the call |
| `ImportCalibration` | `import_calibration`, which checks no cap |
| `Pause`, `Resume`, `ClearAccess` | the SQL of `docs/OPERATIONS.md:81-103` |

Money is in the model's own units: the caps are small numbers in the code's order, the bills lie
below, on and above the reservations.

### Trials

Each operation of `BrokerState` is one action; `now` ranges over `Recent`, the
readings of the clock a call that waited at most `Lag` for the lock can hold. A
rejected call rolls back and is no step (`claim` that returns `None` is one,
`ClaimNone`, because it commits what it expired). A pruned row keeps its number with the
status `gone` for the properties alone: no guard reads it.
`Elsewhere` is the rest of the system: other processes' calls (`Others` names their
buckets) and the operator. The fixed-width months of the model replace calendar
months; only their being unions of days and their order are used.

### Broker

`worker` is the program counter of `work(app)`; `late` is a thread that a cancelled
worker left behind; `proc` follows the process: `down`, `up`, `stopping` (the worker was
cancelled), `closed` (recovered, lock released, the process still joins its threads),
`stuck` (a cancellation was swallowed). `Overlap = TRUE` lets a second process start
when the lock is released; `FALSE` lets it start after the first one exited, which is
what the service unit does (`ops/recruiter-broker.service.example`, one instance).

### RunQueue

`runs` and `events` are the tables (`events[r]` counts a run's events: their `seq` is
1, 2, ...), `worker` is the task of `app.py:89-173` with the run and the result it holds,
`proc` follows the process, `page` is a browser of `static/app.js:205-245` that watches run 1.

| Action | Code |
|---|---|
| `Admit`, `Claim`, `ExpireIdentifiers` | the store methods of these names, at any stamp `Recent` allows |
| `Emit`, `SaveInterim`, `EpisodeEnds` | the episode's events, the interim `finish_run` of `save_event`, the episode's own end |
| `TimeLimit` | `asyncio.timeout` (`app.py:125`); a thread in the middle of a write goes into `late` |
| `LateThread`, `LateThreadFails` | that thread gets the write lock, or SQLite refuses it |
| `WorkerFinish`, `WorkerDies` | the last `finish_run`, and its failure, which ends the task |
| `Shutdown`, `WorkerCancelled`, `CancelSwallowed`, `Exit`, `Kill`, `Boot` | stop, kill and start of the process; `Boot` recovers |
| `PageAsks`, `PageAnswered` | the two reads of `Store.run` in their order, and the page's decision to stop polling |

`by` remembers whose run a row was when its identifiers are gone, and `strays` which runs the
time limit left a thread of; both serve the properties only.

### RepoEpisode

An episode is sequential; `pc` says which wait it is in: the sandbox (`start`, `check`,
`verify`, `finish`), the provider (`asked`), a backoff, or none (`choose`). Each action runs
from one wait to the next. A candidate repository is a number and a measurement remembers
which candidate was measured; `n` holds the eight counters.

| Action | Code |
|---|---|
| `Choose` | the loop of `run_episode`: `Select` picks what a selector may pick, `Step` is `step()` |
| `Stop`, `Rollback`, `Verify`, `Preflight`, `Ask` | the branches of `step()` up to its first wait |
| `Illegal` | `ValueError("Illegal bounded routing action")` |
| `Refused`, `RateLimited`, `Unusable`, `InvalidAnswer` | the exceptions of `generate` as `engine.py:410-543` treats them |
| `RejectedEdits`, `Candidate` | an answer that `validate_edits` rejects or accepts |
| `Baseline`, `Measure`, `Verified`, `Unavailable` | the answers of the sandbox |
| `Wake` | the retry after the backoff of a 429 |
| `Grade`, `EndUngraded` | `finish()` |
| `Cancel`, `StoreFails` | the exceptions that leave `run_episode` |

The fitted controllers of `adaptive`, of a study's exploration and of the pilot's
`supervised_cost` are one policy, `learned`, that may prefer any allowed action. Money and
tokens are small numbers; `Price` and `Bound` stand for the reservation and the token bound
of a request, taken to be the same for every request. `ledger` is a history variable: what the
provider was really sent and billed. An episode reserves through `Ledger`; what
the ledger does in between is the answer `Refused` or a bill.

### StudyCap

The study checks what is left of its cap (`Preflight`), then reserves in a separate
transaction; `Unrelated` calls go on between the two. The history `study.early` remembers
the calls that were pending when the study started, and `Lowered` is what they have been settled
below their reservations since.

### Study

One study of the second benchmark. `job` is the process, with the row that it is
at; `dir` is its directory; `look` is a program that reads it, one file at a time. Each durable
write is an action, in the code's order: a run's file, its line in the index, its transitions one by
one, the controller before the manifest that pins it, the benchmark before the last manifest. `Raises` is an
exception anywhere in the loop, also from an `fsync` after the line is in the file; `Dies` may
leave a line torn. The controller is fitted in memory (`Fit`, `study.py:410-411`) before its file is
written (`SaveController`, line 412); when that write raises, the last manifest still has the hash of what is in
memory (line 470). An episode is its outcome and its number of transitions.

| Action | Code |
|---|---|
| `Open`, `TrainEpisode`, `EvalEpisode` | `run_study` up to and through its two loops |
| `SaveRun`, `IndexRun`, `AppendRow` | `Writer.run` and the transitions of a completed training episode |
| `Fit`, `SaveController`, `Freeze`, `Evaluated`, `Summarise`, `Close` | `fit_q`, `controller.json`, the manifest that pins it, the end of the plan, `benchmark.json` and the last manifest |
| `LookUp`, `CheckController`, `ReadIndex`, `Aggregate` | `scripts/aggregate_forgebench.py` on one seed's directory |
| `OpenAudit`, `FitTransfer` | the support audit and the fit of the transfer controllers |

### Campaign

The tree on disk and its commits, fixture receipts and frozen documents are kept apart, because the
operator may edit between any two of them (`EditTree`, and `EditDocument` by hand, which breaks the hash).

| Action | Code |
|---|---|
| `StartFreeze`, `CheckCommit`, `FreezeDocument` | a script that freezes: its imports, `verify_source_commit`, and the document, for which the files are read again |
| `Launch` | a script starts and *imports* the source (`pilot_forgebench.py:14`, `replicate_forgebench.py:6`) |
| `Check` | before the lock: the pilot *digests the files on disk* (`verify_freeze`), the others look at the directory |
| `Lock`, `Setup` | `flock`; the pilot digests again, the replication for the first time, the reference to record it; cap and directory |
| `Begin`, `Preflight`, `Ends`, `Breaks` | one row of the plan: an episode with what its requests may be billed, or an exception |
| `FileRun`, `ListRun`, `CountRun`, `WriteFails` | the run's file, its line in the index, the manifest that counts it |
| `Report`, `Conclude`, `Killed` | `reference.json`, the last manifest, and a kill at any moment |
| `OtherSpending` | the public app, the broker's trials and `research_run.py`, which hold no lock: at any moment, also inside an episode |
| `ReadManifest`, `Analyse` | the analyses; acceptance is `Reconciles` (pilot) and `Publishable` (replication) |

What a run was made from is what its process imported, whatever was on disk when it was verified;
`edited` remembers whether the tree was edited between the two. The image is what
`FORGEBENCH_EVALUATED_IMAGE` says, which is all that the code compares. A cancelled pilot leaves its manifest
"running", because it catches `Exception`; the replication catches `BaseException` and says so.
The reference's rows after an exception may say "failed" or "interrupted" in the code; "interrupted" stands
for both. The receipt of the ledger from before a replication, which its analysis is given, is taken
to be that of the manifest's start. SQLite refusing to *read* the ledger in a campaign is left out, and so
are the few files that are read or imported later than the rest (`forgerl.bench.provider` and
`pilot_external` are imported lazily, `boltons_source.json` is read when it is used).

### Executor

`handlers[i]` is the broker's thread for the call `i`, `containers` the names Docker knows.
`Evaluate` validates and sends; `TurnAway`, `Refuse` and `Acquire` are the
peer check and the semaphore; `Read`, `Start`, `RunEnds`, `Removed`, `Lost`, `TimesOut`,
`Remove` and `Release` are the life of one handler, `Receive` and `GiveUp` the caller's end of it.
`Restart` is a restart of the broker beside containers that go on; `DaemonChanges` a daemon that
stops or hangs. The answer is written just after the slot is released, in one step with it.
A submission says which modules it has, what they import and what the candidate does; `RunnerRows`
is what `sandbox/runner.py` then prints, with the state that one case leaves to the next. `RunnerFails`
is what ends the runner by exit 1 instead, and so as an execution error: a lone function that raises when it
is loaded (`runner.py:226`), or arguments that a case left such that JSON cannot hold them (line 239),
both outside the `try` of a case.

### Attempt and Research

`Attempt` has no variables: an episode is a record, and cloning it is using it twice. Of the
fitted values only their support is kept, so the best supported action may be any of those
(`ChooseAction`); `FitRefuses` are the rows at which `fit_q` raises. A request and the tests of its
candidate are one step, as nothing else runs in between in that process. A reservation that SQLite
then refuses to settle (`provider.py:182`, `228`) stays charged, which `ledger.pending` counts, and raises an
error that carries no cost: the episode does not know of it, and `visit` and `evaluate_policy` go
on after it. `InFlight` is what the request or step under way may come to when the process dies in it (`Die`).

| Action of `Research` | Code |
|---|---|
| `Begin`, `Plant` | `run_research` up to a training task; `collect_task_tree` up to the first visit |
| `Probe`, and the branches of `visit` | one frame of `tree.stack` per recursive call; `NextFrame` is the clone, `Billed` its growth in cost |
| `Fit` | `fit_q` and the controller's file |
| the evaluation and the files | `evaluate_policy`, `EvidenceWriter`, the manifest |
| `ReadManifest` and after | `aggregate`, over the study's own directory and those of the other seeds (`Elsewhere`) |

The search's rows are dropped once they are fitted. One bucket of the ledger (`ledger`) stands for
the database: what happens to it beside the study is `StudyCap` and `Ledger`.

## 3. Runs

| Run | Question | Instance | States |
|---|---|---|---|
| `ledger` | do caps, the pause after an overrun and finality survive every interleaving? | 3 calls, 2 amounts, bills below/at/above, 3 stamps over two windows | 137 k |
| `ledger_rejections` | does every 401/402/403 pause spending? (**no**) | 2 calls | – |
| `trials_time` | do queue, rate, daily and single-use limits survive expiry and pruning? | 3 clients, 3 sessions, 3 jobs, times 0..5, no money | 474 k |
| `trials_money` | do trial allowances bind beside public and calibration traffic? | 2 calls, 2 jobs, a day boundary | 632 k |
| `broker` | what do threads, stop, kill and errors leave behind, and do jobs and stops end? | 2 jobs, one stop, kill, error, operator, fairness | 579 k |
| `run_queue` | do quotas, the queue and the page survive threads, stops, kills and restarts, and does the queue drain? | 2 runs, 2 addresses, 2 troubles, fairness | 434 k |
| `run_queue_stray` | is a run that is shown as running being executed? (**no**) | 2 runs, no trouble | – |
| `episode` | do the limits, accounts and measurements of an episode agree on every path? | 5 requests, 7 decisions, 2 retries, all policies, both rules | 3.8 M |
| `episode_verify` | is a green candidate always verified before it is submitted? (**no**) | 2 requests, 7 decisions | – |
| `evidence` | is what readers accept of a directory true, and do they refuse only for cause? | 2 training and 4 evaluation episodes; campaigns of 2 rows, one edit, others' spending, a kill anywhere | 1.4 M |
| `executor` | are slots held exactly while work is done, candidates blamed for themselves alone, grades true, and do calls end? | 2 slots, 3 calls of one submission or 1 of fourteen, a restart, fairness | 365 k |
| `research` | is a v0.1 study's record its ledger's, does exhaustion stop it, is its aggregate true; and does a capped study keep its cap? | 1 training and 2 held-out tasks, 2 requests an episode, 5 units; 3 calls beside a cap of 3 | 3.2 M |

Why these bounds are enough to be interesting:

* Three calls are what an overrun needs to meet a pending call and a later
  one; two of them fill a cap, the third is refused. The three stamps are
  in one rolling window, in two overlapping ones, and apart.
* `trials_time` sets days, the rate window, the session lifetime and the retention to
  different lengths in the code's order, so that each expiry happens before and after each
  other limit in some behaviour. Its three jobs reach the literal limits of two waiting and
  three active jobs in `QueueHasRoom`; `PerClient = 1` and `PerWindow = 1` are reached.
* `broker` fills the queue's single running slot with two jobs while one is
  left by a thread or a crash.
* `run_queue` admits at the limits (`PerSession`, `PerAddress` and `MaxActive` are 1), forgets
  identifiers while they may still count, and needs its two troubles for a stop or
  failure that meets another one during recovery.
* `episode` has room for the first request, two retries after a 429, a repair or escalation,
  and one more, and its seven decisions leave two for rollback or verification; a bill can
  overrun its reservation (3 against 2), and money, tokens, requests or decisions can each be
  what ends the episode. Three invalid answers, two retries and one rollback are reached.
* `evidence` has four catalogs: a sound one, one with a family in two splits, one with a repeated
  ID, one without validation. Its two rollouts let one training episode fail after another was kept, the
  two policies on two tasks let an evaluation stop half way. A campaign is explored twice: in `freeze`
  from an empty desk on, with an edit at any moment, to other code or to other tasks, two documents (one of
  them perhaps edited) and two images, which is what a stale freeze
  needs, while nobody else spends and nothing is analysed; in `money` from two frozen
  documents on, beside others that spend and release one unit in either bucket, with a cap of one unit and
  a ledger with little more, so that the second row is affordable or not. What is edited and what is
  spent do not meet in any guard. There is one process: what two of them may do is left to the
  proofs, which have any number. A study and a campaign share no
  directory and no variable: the run explores either, never their product.
* `executor` fills both slots and refuses a third call, by the callers' giving up on calls whose
  handlers go on. The calls of several submissions meet only in the slots and the containers'
  names, which do not depend on the submission: so three calls of one, and one of each.
* `research` searches a tree of two actions over two steps, and its allowance runs out in the
  tree, between its siblings, or in the evaluation, depending on what requests cost.
* `MaxStops`, `MaxKills`, `MaxErrors`, `MaxTroubles` and `MaxRestarts` bound how often the environment
  interferes, not what it does; `MaxEvents` bounds a run's events.
* `CHECK_DEADLOCK FALSE`: calls, sessions, jobs and runs are finite in number, an episode or a
  study ends, and the program may then be idle for ever.
* Clients are interchangeable, and so are images and file contents; the two `trials` runs and
  `evidence` use symmetry over them. Runs with liveness properties use none.

Fairness is weak: per activity in `broker` (`FairBSpec`) and `run_queue` (`FairQSpec`), and for the
executor's threads together in `executor` (`WF_xvars(Work)`: some thread runs whenever one can, which
its bounded waits justify; a daemon that hangs for ever is allowed). In the first
two, the event loop runs the worker, calls return or time out (`broker.py:113`, `app.py:125`), a
cancellation is delivered, a thread ends, and a process that is down is started again. The last
is the service units' restart policy, and their operator after an orderly stop. No
fairness is assumed of requests, of SQLite failing, of kills, or of other processes.
`JobsDrain` and `QueueDrains` except a worker that SQLite killed: nothing in the code restarts
the task inside a running process. `StopsComplete` excepts a failed settlement during a
cancellation: the exception replaces `CancelledError`, `work` handles it as an
ordinary failure and goes on, and `lifespan` waits for it (`broker.py:128`, `180-184`).

### Disagreements found

1. **A rejection during a pause is forgotten** (`ledger_rejections`). `docs/OPERATIONS.md:103` says
   a 401/402/403 pauses reservations until that reason is removed. The code inserts it
   `ON CONFLICT DO NOTHING`; under an operator pause nothing is recorded, and resuming
   reopens spending.
2. **An interim write can erase an outcome** (`run_queue_stray`). `asyncio.timeout` ends the
   worker's wait for the interim `finish_run` (`app.py:136`), not its thread. If the thread
   gets the write lock after the worker wrote the outcome, the row is `running` again and no
   worker has it; `static/app.js:217` keeps telling its reader that the run is executing, until
   a restart interrupts it. The other properties of `RunQueue` hold for all other
   runs, and say so with `strays`.
3. **The last request is not followed by its verification** (`episode_verify`).
   `docs/forgebench/V03_PILOT_PROTOCOL.md:18-20` promises that every policy verifies a
   visible-green candidate before stopping. A candidate that turns green on the last allowed
   request ends the episode at `engine.py:640-643` and is graded unverified, though `verify`
   needs no request.

One more shows up when a constant that stands for how the program is operated is changed:

* `Overlap = TRUE` in `MCBroker.cfg` violates `RunningIsOwned`. `broker.py:160` says the lock
  prevents unsafe restart recovery; a claim in a thread can commit after `lock.close()`, and a
  broker started by hand at that moment has recovered already and is left with a running job
  that nobody works on. The service unit waits for the old process, which is `FALSE`.

And observations that no run of their own is about, because a property states what the code does
exactly, the code documents the outcome, or no text promises another:

* `study.py:163-164` says that unrelated spending "can only stop this earlier". A call reserved before the start and
  settled low afterwards lowers the total that the study measures itself by, and so makes room beyond the
  cap. `StudyWithinCap` has that excess, and no other: `study.cap + Lowered`.
* A study whose `controller.json` cannot be written ends with a manifest that pins the hash of a file
  which is not there (`study.py:412`, `470`), and `aggregate_forgebench.py:218-224` refuses its directory.
  `RefusedForCut` excepts exactly that study.
* A settlement that SQLite refuses keeps a charge that a v0.1 study never records, and the study may still end
  "complete" (`provider.py:182`, `228`; `orchestrator.py:184-214`; `research.py:212-231`, `313-319`). The raw
  error also replaces a `CancelledError`. `CostsAreTheLedgers` compares with the rows that were settled.
* `docs/forgebench/EXPOSED_REPLICATION_PROTOCOL.md` says "Before execution the driver verifies
  source/config/task/image identity". The modules are imported before the files are digested: after an
  edit between the two, the digest is of other code than what runs. `RunsAsFrozen` excepts the runs of a
  process during whose start, up to its last digest, the tree was edited; even their catalog is the frozen one.
* The same text says "Public trial spending is conservatively included in the study ledger delta";
  so it is, and `analyze_exposed_replication.py:92-99` then refuses the replication, complete or
  not. `RefusedForCause` names it among the causes.
* An exception at a stop probe, in a branch's finish or at the start (`research.py:186`, `252`,
  `140`) leaves `collect_task_tree` and is caught at line 567 only: the manifest is `partial`
  and the traces' files remain, but the tree's summary and cost are not in it. `CostsAreTheLedgers` says
  so: after a failure what is recorded is at most what was spent.
* `sandbox/runner.py:232` promises "Independent module state per v2 case". The repository's
  own modules are loaded anew; a library such as `math` is not, and keeps what a candidate
  changed in it. `GradeIsTrue` excepts candidates that do so.
* A request that takes more than three seconds to arrive is answered with an execution error
  (`sandbox.py:473`), and is thus a failed test. What fails a candidate by an execution error is, in
  `FailureIsDeserved`: it was not acceptable; it exceeded a limit; it is a lone function that raises when
  loaded; it spoiled its arguments; or, with no fault of its own, a wait ran out (that one, or the
  container's) or the daemon died under the container. Nothing else does.

## 4. Theorems

Every invariant and every action property that a passing run checks is also a theorem. TLAPS checks
each of them for every value of the constants that satisfies the assumptions of its
module: `LedgerAssumption`, `TrialsAssumption`, `BrokerAssumption`, `StudyAssumption`,
`RunQueueAssumption`, `EpisodeAssumption`, `ExecutorAssumption`, `StudyPlanAssumption`,
`CampaignAssumption`, `AttemptAssumption` and `ResearchAssumption` (the types of the constants, the bounds
that constructors and validation enforce, and the order of the periods that the code has as literals).
Each safety theorem goes the same way: an
invariant is strengthened until it is inductive (`Init...`, one lemma per action or group of actions,
`Step...`), and the property follows from it.

* `TotalsProofs`: `Total` over rows, by induction over the row number: a pointwise bound, the
  effect of changing one row, the sum of two columns, naturalness; `TotalAppend` and `Regroup` for
  totals over a record that grows. They are why `Totals` uses a recursive function.
* `LedgerProofs`: `IInv` is inductive (`InitIInv`, `StepIInv`). It strengthens the checked
  invariants with *Shape*: an absent row is empty; a row that is
  reserved or uncertain charges exactly its reservation; a call that is open or denied has a row
  that is not settled. Without it a settlement could not be shown to keep
  the committed sums. `RollingAlways` states the rolling day for every integer instant, not
  only for stamps, because a new row moves windows that end between stamps. From `IInv`
  follow `TypeOK`, `CommittedWithinCaps`, `RollingDayWithinCap`, `OverrunLatched`,
  `UnknownKeepsReservation`, the action properties `AccountedForever` and
  `NoSpendAfterOverrun`, and `Spec => Authority!Spec`, the refinement: `Reserve` is an
  `Authorize`, a settlement below or at the reservation a `Release`, one above it an
  `Overrun`, and everything else stutters. Through the refinement, the charged sums themselves
  stay within every cap until an overrun (`ChargedWithinCaps`).
* `RecruiterProofs`, the tables: `TSpec => Spec`, `OneRequestPerJob` and `TrialAllowance`. Most operations are
  evidently steps of the ledger or leave it alone; recovery is not, because it settles the rows of
  every interrupted job in one transaction. It is *one* step of the ledger because one job runs at
  a time (*OneRunning*) and a job has one row, even when it was pruned
  (`OneRequestPerJob`). *OwnedRows* says that a trial's row was reserved by the trial, so a
  later call cannot bring it into a period. *InAllowance* is stated for every integer period, not for
  the day of some stamp, because a reservation with an old stamp lands in an old period. `TrialLimits` counts rows that pruning
  deletes. *Forgotten* says how old a deleted job or session must have been, *Sessioned* that every
  admitted job used up a session of its own; so a deleted row is outside the period of any later
  clock, given that what a window and a late clock span is shorter than what is kept
  (`Window + Lag <= SessionTTL + 1` and `Day + Lag <= Retention + 1` in `TrialsAssumption`). The code
  has 600 seconds and 900 (`state.py:135`, `20`), a day and seven (`state.py:22`); a wait for the lock is far shorter than
  the difference.
* `RecruiterProofs`, the process: `RunningIsOwned`, `CallsMatchJobs` and `OutcomesStand`, which have the
  hypothesis `~Overlap`; TLC shows that the first fails without it (section 3). (That `BSpec => TSpec`
  needs no condition and is a lemma only.) *Lifecycle*: a worker that is there has left
  no thread behind, and a process that is down has neither. *Owned*: a worker is busy with the only
  running job. *Matched*: a call in flight is pending for the worker's job; unless SQLite failed,
  the job that the worker or the thread left behind is about to end has nothing pending. `OutcomesStand` uses
  all of them: a late thread may finish after the recovery at the stop, but then finds a job that is not running,
  and the next process starts only when that thread is gone.
* `ResearchProofs`, a bench study: `StudyWithinCap`, without a hypothesis. The study compares two totals of the
  whole ledger, so the proof must say what the first one was: *Anchored*, the total it started from
  is the sum of rows that are final and of the reservations that were pending. The former cannot be lowered any
  more, the latter by `Lowered` at most, hence what the study's own calls bind is at most that more than the
  growth it measures. *Cleared*: what was asked for
  still fits when it is reserved in the next transaction, whatever happened between.
* `ResearchProofs`, the v0.1 study (`RSInv`): `RowsFormATree`, `CostsAreTheLedgers`, `AggregateIsTrue`,
  `NothingAfterExhaustion`. The search is a recursion, so the proof says what its frames remember: they
  are one path from the root (*Trail*), each begins where a recorded row ended (*Rooted*), and
  below a frame nothing is recorded but by way of the actions it has tried (*Explored*), so that the next
  action is new. `StepIs`: whatever a step answers or raises, the growth of the episode's
  cost is what the ledger was charged by settled rows (`Settled`: a reservation that SQLite would not settle is
  charged and pending, and changes neither side). *Halting* follows an exhaustion from the frame
  that met it to the end, *Closing* and *Watching* the manifest into the reader's hands: it is either
  still "running", and refused, or the last one, whose files do not change any more.
* `EvidenceProofs`, a study (`SInv`): `CompleteIsTrue`, `RefusedForCut`, `FittedWhole`,
  `EvaluatedFrozen`. *Held* is the episode between its end and its line in the index; *OnDisk*, *Indexed* and
  *Episodes* relate the run files, the index and the transitions at every point between two writes;
  *Pinned* says which controller the manifest may name, that what it was fitted to has not grown since, and that the
  controller in memory is the one on disk but for a study that ended before its file was written (*Unsaved*);
  *Counts* that a study which nothing stopped has counted exactly the indexed runs. *Reading*
  carries them over the reader's steps, as files only grow. That the plan exists is a
  lemma too: any finite set of tasks that are told apart by family and ID can be put in order.
* `EvidenceProofs`, campaigns (`CInv`): `RunsAsFrozen`, `AnalysedIsTheRecord`, `RefusedForCause`.
  *Imported*: what a process imported is what is on disk unless the tree was edited since, so a digest that fits is of
  the imported source or of a process that `edited` marks (*Verified*).
  Only the process that holds the lock writes, and it writes the plan up to a row (*Own*); a
  directory whose last manifest is written does not change again (*Lies*). Others spend at any
  moment, so the ledger is kept by whose charges they are: the growth of the campaigns' own is the runs' cost
  (*Paid*), unless an episode broke, and the rest of the delta is the others'. What
  an analysis read first is then still so when it reads the rest (*Analysis*).
* `RunQueueProofs`: `QueueLimits`, `RunningIsExecutedOrStray`, `NeverReplayed` and `PageComplete`. *Identified*: a
  run whose identifiers are forgotten is older than any day that still counts it (`Day + Lag <= Keep + 1`). *LateThreads*: a
  thread that still writes to a run either finds it running or the run is a stray, and no two
  threads have the same other run. *Executed* says that the worker has the only running run that is no stray,
  *PageIsRight* that what a page was told of the end is so and stays so between its two reads.
* `ExecutorProofs`: `SlotsAreHeld`, `FailureIsDeserved` and `GradeIsTrue`, for any submissions, callers
  and slots. *AllSound* follows one handler: what it may answer,
  that an execution error has a fault of the infrastructure or a candidate that ended its own run, and that a
  container is there while it is waited for. `AcceptedLoads`: a repository that passed validation has no cycle or missing
  module left for the runner, so that what it prints is what each case deserves.
* `RepoEpisodeProofs`: all four invariants of the episode and `RetryKeepsModel`. They are not
  inductive alone. *Room*: the loop goes on only while every limit leaves room for one more
  decision and request, which is what makes the retry after a backoff legal though nobody asks
  the mask. *Outstanding*: a request that is out fitted both caps when it was made and
  is counted once more than the ledger has seen; a backoff follows only a request that reached
  its model. *Roles*: only a request makes the model strong, so there is one escalation at
  most and the first request is never refused by the mask. *Measured*: an episode that ends
  with its status still `running` has measured the files it submits. `SelectIsLegal` shows
  for every selector that what it returns is in the mask; each action has its own lemma.

`CommittedWithinCaps` speaks of what reservations *bind* (the smaller of charged and
reserved), because charged amounts alone are not bounded: one overrun may exceed
a cap, and an imported calibration is subject to none.

`TypeOK`, `OverrunLatched` and `UnknownKeepsReservation` are proved only; with a proof for every
value of the constants a run of theirs has nothing to add.

Only model-checked: liveness (`JobsDrain`, `StopsComplete`, `QueueDrains`, `EvaluationsEnd`), because
TLAPS does not handle fairness and ENABLED here; and, naturally, the three disagreements of section 3.

## 5. Not modelled

* What a prompt, a patch, a result or an event contains: no property depends on it.
* Wall-clock steps backwards: `Trials` takes the clock to be monotonic between
  readings; `Ledger` does not assume even that.
* The gateway is stateless; a lost answer or a repeated submission is another `Admit`
  attempt in `Trials`.
* Pages, catalogs, the rendering of reports and installers: no state that changes. Statistics
  (intervals, sensitivity analyses) are pure functions of the runs that `AnalysedIsTheRecord` is about.
* The numbers in a fitted controller. Which actions are supported decides what may be chosen;
  which of them is best does not matter to any property.
* That a frozen document is of its commit: the freeze reads the source twice (`CheckCommit`,
  `FreezeDocument`), and nothing is claimed of an edit between the two.
* Whether a candidate solves a task is a choice, not a consequence of its text.
* Byte limits of the executor's protocol and the container's kernel restrictions: data and configuration.

## 6. Plan

Every component that keeps state has a module. What would come next:

1. Proofs: the parts of the liveness properties that are about safety, such as what each wait of a
   stopping process is for.
2. `RepoEpisode` in `Study` and `Campaign`, whose episodes are outcomes now: the abstract episode
   as the specification that `RepoEpisode` implements.
3. The gateway and the broker's handlers as a request and an answer with a time limit, in place of
   the repeated `Admit`.

The runs are at the size that is practical to recheck as a whole. A new component joins them by
replacing the shallowest properties or by merging runs, as `MCEvidence` and `MCResearch` do.
