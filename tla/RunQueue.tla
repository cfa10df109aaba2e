------------------------------ MODULE RunQueue ------------------------------
(***************************************************************************)
(* The v0.1 public application: the durable run queue of                   *)
(* src/forgerl/store.py, the worker and process of src/forgerl/app.py that *)
(* work on it, and the page that watches a run.  Store methods are single  *)
(* transactions.  The worker calls them in threads (asyncio.to_thread):    *)
(* when its wait is cancelled, by the run's time limit or by a stop, the   *)
(* thread goes on and commits when it gets the write lock, or gives up.    *)
(*                                                                         *)
(* Runs are numbered in the order of their admission.                      *)
(***************************************************************************)
EXTENDS Integers, FiniteSets

CONSTANTS
    NRuns,               \* runs considered
    Session, Address,    \* signed session and address hashes
    Times,               \* readings of time.time()
    Day, Keep,           \* 86400, and how long identifiers are kept (172800)
    Lag,                 \* longest wait for the write lock (10 s)
    PerSession,          \* runs of a session in a day (2)
    PerAddress,          \* runs of an address in a day (3)
    MaxActive,           \* runs queued or running (3)
    MaxEvents,           \* bound: events of one run
    MaxTroubles          \* bound: stops, kills and failures of SQLite, together

Run == 1..NRuns

ASSUME RunQueueAssumption ==
    /\ NRuns \in Nat \ {0} /\ Times \subseteq Nat /\ Lag \in Nat
    /\ Day \in Nat /\ Keep \in Nat /\ Day + Lag <= Keep + 1
    /\ PerSession \in Nat /\ PerAddress \in Nat /\ MaxActive \in Nat
    /\ MaxEvents \in Nat /\ MaxTroubles \in Nat

VARIABLES
    clock,    \* time.time(), taken not to run backwards
    runs,     \* the runs table
    events,   \* how many events a run has: their seq is 1, 2, ...
    proc,     \* down, up, stopping, stuck (a cancellation was swallowed)
    worker,   \* the worker task, its run, the result it is about to write
    late,     \* threads that the worker no longer waits for
    strays,   \* history: runs whose time limit left a thread behind
    page,     \* a browser that watches run 1
    troubles  \* stops, kills and failures so far

vars == <<clock, runs, events, proc, worker, late, strays, page, troubles>>

Outcome == {"completed", "failed"}    \* "budget_exhausted" is one more "failed"
Terminal == Outcome \cup {"interrupted"}
Nobody == "nobody"    \* NULL
Status == {"none", "queued", "running"} \cup Terminal
NoWorker == [pc |-> "gone", run |-> 0, result |-> "none"]
Idle == [NoWorker EXCEPT !.pc = "idle"]

Is(status) == {r \in Run : runs[r].status \in status}
Works == proc \in {"up", "stopping", "stuck"}
Trouble == troubles < MaxTroubles /\ troubles' = troubles + 1
tables == <<clock, runs, events>>
others == <<strays, page>>

-----------------------------------------------------------------------------
(* Store.  "by" remembers whose run it was when the identifiers are gone;  *)
(* no operation reads it.                                                  *)

\* Faulty: identifiers go with the end of the run.
ForgottenWhenOver(table) ==
    [r \in Run |-> IF table[r].status \in Terminal
                   THEN [table[r] EXCEPT !.session = Nobody, !.address = Nobody]
                   ELSE table[r]]

\* UPDATE runs SET session_hash=NULL, ip_hash=NULL WHERE created < now-172800
Forgotten(table) ==
    [r \in Run |-> IF table[r].status # "none" /\ table[r].created < clock - Keep
                   THEN [table[r] EXCEPT !.session = Nobody, !.address = Nobody]
                   ELSE table[r]]

\* add_event: MAX(seq)+1, inside the transaction that inserts it.
Logged(r) == [events EXCEPT ![r] = @ + 1]

\* finish_run: an unconditional UPDATE.
Written(r, status) == [runs EXCEPT ![r].status = status]

-----------------------------------------------------------------------------
(* POST /api/runs: admit.  "now" is read before the lock is waited for,    *)
(* and the answer of live_state before that.                               *)

Recent == {t \in Times : clock - Lag <= t /\ t <= clock}
Young(now) == {r \in Is(Status \ {"none"}) : runs[r].created > now - Day}

Admit(r, s, a, now) ==
    /\ proc = "up"
    /\ runs[r].status = "none" /\ \A q \in 1..(r-1) : runs[q].status # "none"
    /\ Cardinality(Is({"queued", "running"})) < MaxActive
    /\ Cardinality({q \in Young(now) : runs[q].session = s}) < PerSession
    /\ Cardinality({q \in Young(now) : runs[q].address = a}) < PerAddress
    /\ runs' = [runs EXCEPT ![r] = [status |-> "queued", created |-> now, session |-> s,
                                    address |-> a, by |-> <<s, a>>]]
    /\ UNCHANGED <<clock, events, proc, worker, late, others, troubles>>

-----------------------------------------------------------------------------
(* worker(app).  An SQLite error while expiring or claiming is retried; in *)
(* an event or an interim result it fails the run; in the last finish_run  *)
(* it ends the task.                                                       *)

ExpireIdentifiers ==
    /\ Works /\ worker.pc = "idle"
    /\ runs' = Forgotten(runs)
    /\ UNCHANGED <<clock, events, proc, worker, late, others, troubles>>

\* ORDER BY created LIMIT 1: rows with equal stamps come in any order.
Oldest == {r \in Is({"queued"}) : \A q \in Is({"queued"}) : runs[r].created <= runs[q].created}

\* Faulty: claim waits for running rows, as the recruiter's does.
ClaimWhenNoneRuns ==
    /\ Works /\ worker.pc = "idle" /\ Is({"running"}) = {}
    /\ \E r \in Oldest :
          /\ runs' = Written(r, "running")
          /\ worker' = [pc |-> "episode", run |-> r, result |-> "none"]
    /\ UNCHANGED <<clock, events, proc, late, others, troubles>>

Claim ==
    /\ Works /\ worker.pc = "idle"
    /\ \E r \in Oldest :
          /\ runs' = Written(r, "running")
          /\ worker' = [pc |-> "episode", run |-> r, result |-> "none"]
    /\ UNCHANGED <<clock, events, proc, late, others, troubles>>

Emit ==
    /\ Works /\ worker.pc = "episode" /\ events[worker.run] < MaxEvents
    /\ events' = Logged(worker.run)
    /\ UNCHANGED <<clock, runs, proc, worker, late, others, troubles>>

\* Faulty: the interim result of a passing step carries the final status.
SaveAsCompleted ==
    /\ Works /\ worker.pc = "episode"
    /\ runs' = Written(worker.run, "completed")
    /\ UNCHANGED <<clock, events, proc, worker, late, others, troubles>>

\* After each step: finish_run with a result whose status is "running".
SaveInterim ==
    /\ Works /\ worker.pc = "episode"
    /\ runs' = Written(worker.run, "running")
    /\ UNCHANGED <<clock, events, proc, worker, late, others, troubles>>

\* Finished, out of allowance, failed at the provider or in an exception.
EpisodeEnds ==
    /\ Works /\ worker.pc = "episode"
    /\ \E result \in Outcome : worker' = [worker EXCEPT !.pc = "finishing", !.result = result]
    /\ UNCHANGED <<tables, proc, late, others, troubles>>

\* What an episode may be waiting for in a thread when it is cancelled.
Pending(r) ==
    {[does |-> "save", run |-> r, status |-> "running"]} \cup
    {e \in {[does |-> "event", run |-> r, status |-> "none"]} : events[r] < MaxEvents}

\* asyncio.timeout(510) cancels whatever is awaited inside it.
TimeLimit ==
    /\ Works /\ worker.pc = "episode"
    /\ worker' = [worker EXCEPT !.pc = "finishing", !.result = "failed"]
    /\ \/ UNCHANGED <<late, strays>>
       \/ \E thread \in Pending(worker.run) :
             /\ late' = late \cup {thread}
             /\ strays' = strays \cup {worker.run}
    /\ UNCHANGED <<tables, proc, page, troubles>>

WorkerFinish ==
    /\ Works /\ worker.pc = "finishing"
    /\ runs' = Written(worker.run, worker.result)
    /\ worker' = Idle
    /\ UNCHANGED <<clock, events, proc, late, others, troubles>>

WorkerDies ==
    /\ Works /\ worker.pc = "finishing" /\ Trouble
    /\ worker' = [worker EXCEPT !.pc = "dead"]
    /\ UNCHANGED <<tables, proc, late, others>>

\* A thread nobody waits for gets the lock, or its busy timeout ends.
LateThread ==
    /\ \E thread \in late :
          /\ late' = late \ {thread}
          /\ \/ thread.does = "claim" /\ Oldest = {} /\ UNCHANGED <<runs, events>>
             \/ /\ thread.does = "claim"
                /\ \E r \in Oldest : runs' = Written(r, "running")
                /\ UNCHANGED events
             \/ /\ thread.does = "save"
                /\ runs' = Written(thread.run, thread.status)
                /\ UNCHANGED events
             \/ /\ thread.does = "event"
                /\ events' = IF events[thread.run] < MaxEvents THEN Logged(thread.run)
                                                              ELSE events
                /\ UNCHANGED runs
    /\ UNCHANGED <<clock, proc, worker, others, troubles>>

LateThreadFails ==
    /\ Trouble
    /\ \E thread \in late : late' = late \ {thread}
    /\ UNCHANGED <<tables, proc, worker, others>>

-----------------------------------------------------------------------------
(* lifespan.                                                               *)

\* Faulty: nothing is recovered, ...
RecoveredNothing == runs

\* ... or the run is queued again.
Requeued ==
    [r \in Run |-> IF runs[r].status = "running"
                   THEN [runs[r] EXCEPT !.status = "queued"] ELSE runs[r]]

\* recover(): no run is running when a process starts ...
Recovered ==
    [r \in Run |-> IF runs[r].status = "running"
                   THEN [runs[r] EXCEPT !.status = "interrupted"] ELSE runs[r]]

\* ... and old identifiers go.  A page's request went with the old process.
Boot ==
    /\ proc = "down"
    /\ runs' = Forgotten(Recovered)
    /\ proc' = "up" /\ worker' = Idle
    /\ page' = [page EXCEPT !.asked = "no"]
    /\ UNCHANGED <<clock, events, late, strays, troubles>>

\* work.cancel()
Shutdown ==
    /\ proc = "up" /\ Trouble
    /\ proc' = "stopping"
    /\ UNCHANGED <<tables, worker, late, others>>

\* CancelledError is raised again; the thread it interrupts goes on.
WorkerCancelled ==
    /\ proc = "stopping" /\ worker.pc \in {"idle", "episode", "finishing"}
    /\ \/ UNCHANGED late
       \/ /\ worker.pc = "idle"
          /\ late' = late \cup {[does |-> "claim", run |-> 0, status |-> "none"]}
       \/ /\ worker.pc = "episode"
          /\ \E thread \in Pending(worker.run) : late' = late \cup {thread}
       \/ /\ worker.pc = "finishing"
          /\ late' = late \cup {[does |-> "save", run |-> worker.run,
                                 status |-> worker.result]}
    /\ worker' = NoWorker
    /\ UNCHANGED <<tables, proc, others, troubles>>

\* SQLite fails while a model request settles its cancellation: that error
\* replaces CancelledError, and "except Exception" carries on.
CancelSwallowed ==
    /\ proc = "stopping" /\ worker.pc = "episode" /\ Trouble
    /\ proc' = "stuck"
    /\ worker' = [worker EXCEPT !.pc = "finishing", !.result = "failed"]
    /\ UNCHANGED <<tables, late, others>>

\* The worker was awaited (a dead one raises); threads are joined.
Exit ==
    /\ proc = "stopping" /\ worker.pc \in {"gone", "dead"} /\ late = {}
    /\ proc' = "down" /\ worker' = NoWorker
    /\ UNCHANGED <<tables, late, others, troubles>>

Kill ==
    /\ proc # "down" /\ Trouble
    /\ proc' = "down" /\ worker' = NoWorker /\ late' = {}
    /\ UNCHANGED <<tables, others>>

-----------------------------------------------------------------------------
(* GET /api/runs/1, as pollRun repeats it until the status is terminal:    *)
(* the row and the events are read by two connections, in this order.      *)

PageAsks ==
    /\ proc = "up" /\ ~page.done /\ page.asked = "no"
    /\ runs[1].status # "none"
    /\ page' = [page EXCEPT !.asked = IF runs[1].status \in Terminal THEN "over" ELSE "active"]
    /\ UNCHANGED <<tables, proc, worker, late, strays, troubles>>

\* renderRun merges the events and, on a terminal status, polling stops.
PageAnswered ==
    /\ proc = "up" /\ page.asked # "no"
    /\ page' = [asked |-> "no", seen |-> events[1], done |-> page.asked = "over"]
    /\ UNCHANGED <<tables, proc, worker, late, strays, troubles>>

Tick(t) ==
    /\ clock < t
    /\ clock' = t
    /\ UNCHANGED <<runs, events, proc, worker, late, others, troubles>>

-----------------------------------------------------------------------------
QInit ==
    /\ clock \in {t \in Times : \A u \in Times : t <= u}
    /\ runs = [r \in Run |-> [status |-> "none", created |-> 0, session |-> Nobody,
                              address |-> Nobody, by |-> <<>>]]
    /\ events = [r \in Run |-> 0]
    /\ proc = "down" /\ worker = NoWorker /\ late = {} /\ strays = {}
    /\ page = [asked |-> "no", seen |-> 0, done |-> FALSE]
    /\ troubles = 0

QNext ==
    \/ \E r \in Run, s \in Session, a \in Address, now \in Recent : Admit(r, s, a, now)
    \/ ExpireIdentifiers \/ Claim \/ Emit \/ SaveInterim \/ EpisodeEnds \/ TimeLimit
    \/ WorkerFinish \/ WorkerDies \/ LateThread \/ LateThreadFails
    \/ Boot \/ Shutdown \/ WorkerCancelled \/ CancelSwallowed \/ Exit \/ Kill
    \/ PageAsks \/ PageAnswered
    \/ \E t \in Times : Tick(t)

QSpec == QInit /\ [][QNext]_vars

\* The worker and its threads run, the time limit ends every episode, the
\* service manager restarts the process.
FairQSpec ==
    /\ QSpec
    /\ WF_vars(Claim) /\ WF_vars(EpisodeEnds \/ TimeLimit) /\ WF_vars(WorkerFinish)
    /\ WF_vars(LateThread) /\ WF_vars(WorkerCancelled) /\ WF_vars(Exit) /\ WF_vars(Boot)
-----------------------------------------------------------------------------
(***************************************************************************)
(* Properties.                                                             *)
(***************************************************************************)

\* No day, wherever it ends, holds more runs of a session or an address than
\* its limit, though admissions wait for the lock with old stamps and the
\* identifiers that are counted are dropped in the end.
AdmittedIn(t) == {r \in Is(Status \ {"none"}) : t - Day < runs[r].created /\ runs[r].created <= t}
DailyQuota ==
    \A t \in Times :
        /\ \A s \in Session : Cardinality({r \in AdmittedIn(t) : runs[r].by[1] = s}) <= PerSession
        /\ \A a \in Address : Cardinality({r \in AdmittedIn(t) : runs[r].by[2] = a}) <= PerAddress

\* A run that the table calls running is the live worker's, whatever threads,
\* kills and failures came before ...
RunningIsExecuted ==
    proc \in {"up", "stuck"} /\ worker.pc # "dead" =>
        \A r \in Is({"running"}) : worker.run = r

\* ... except one whose time limit left its interim write behind.
RunningIsExecutedOrStray ==
    proc \in {"up", "stuck"} /\ worker.pc # "dead" =>
        \A r \in Is({"running"}) \ strays : worker.run = r

\* Runs move one way and are never replayed; an outcome stands, but for the
\* interim write of a run whose time limit left it behind.
Moves(r, a, b) ==
    \/ a = b
    \/ a = "none" /\ b = "queued"
    \/ a = "queued" /\ b = "running"
    \/ a = "running" /\ b \in Terminal
    \/ a \in Terminal /\ b \in {"running"} \cup Outcome /\ r \in strays
NeverReplayed ==
    [][\A r \in Run : Moves(r, runs[r].status, runs'[r].status)]_vars

\* The bounded queue, counting only runs that did not outlive their worker.
QueueBounded == Cardinality(Is({"queued", "running"}) \ strays) <= MaxActive

\* The limits of admission, over days and at every moment.
QueueLimits == DailyQuota /\ QueueBounded

\* The page that stopped polling shows the whole trace: the status it read
\* before the events promises that none will follow.
PageComplete == page.done /\ 1 \notin strays => page.seen = events[1]

\* Every queued run is started, whatever rows stay behind it: unlike the
\* recruiter's, this claim waits for no running row.
QueueDrains ==
    \A r \in Run : runs[r].status = "queued" ~> runs[r].status # "queued" \/ worker.pc = "dead"

=============================================================================
