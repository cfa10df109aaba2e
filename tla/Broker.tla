------------------------------- MODULE Broker -------------------------------
(***************************************************************************)
(* The recruiter broker process (src/forgerl/recruiter/broker.py): who     *)
(* calls the operations of Trials.tla, and in which order.  Requests and   *)
(* the provider's reserve and settle run on the event loop; the worker     *)
(* claims and finishes in threads, which a cancelled worker leaves behind; *)
(* the process can be stopped, killed and started again.                   *)
(***************************************************************************)
EXTENDS Trials

CONSTANTS
    MaxStops,   \* bound: orderly stops considered
    MaxKills,   \* bound: kills considered
    MaxErrors,  \* bound: failures of SQLite considered
    Overlap     \* a new process may start while the old one is on its way out

ASSUME BrokerAssumption ==
    MaxStops \in Nat /\ MaxKills \in Nat /\ MaxErrors \in Nat /\ Overlap \in BOOLEAN

VARIABLES
    proc,    \* down, up, stopping (worker cancelled), stuck, closed (lock released)
    worker,  \* the worker task: where it is, on which job, with which call and result
    late,    \* the thread a cancelled worker left behind
    budget   \* stops, kills and errors so far

brokerVars == <<proc, worker, late, budget>>
bvars == <<tvars, brokerVars>>

Idle == [pc |-> "idle", job |-> 0, call |-> 0, result |-> "none"]
Gone == [Idle EXCEPT !.pc = "gone"]
NoThread == [does |-> "nothing", job |-> 0, result |-> "none"]

Runs == proc \in {"up", "stopping", "stuck"}
Spend(what, bound) ==
    budget[what] < bound /\ budget' = [budget EXCEPT ![what] = @ + 1]
Fails == Spend("errors", MaxErrors)

\* A provider call of the worker ends, and nothing else moves.
Ends(step) == step /\ UNCHANGED trialVars

-----------------------------------------------------------------------------
(* Requests, while lifespan serves them.                                   *)

RequestSession(now) ==
    /\ proc = "up"
    /\ \E s \in Session, c \in Client : StartSession(s, c, now)
    /\ UNCHANGED brokerVars

Submit(now) ==
    /\ proc = "up" /\ worker.pc # "dead"
    /\ \E j \in Job, s \in Session : Admit(j, s, now)
    /\ UNCHANGED brokerVars

-----------------------------------------------------------------------------
(* work(app): hourly prune, claim, one bounded episode, finish.            *)

WorkerPrune(now) ==
    /\ Runs /\ worker.pc = "idle"
    /\ Prune(now)
    /\ UNCHANGED brokerVars

WorkerClaim(now) ==
    /\ Runs /\ worker.pc = "idle"
    /\ \/ \E j \in Job :
             /\ Claim(j, now)
             /\ worker' = [Idle EXCEPT !.pc = "episode", !.job = j]
       \/ ClaimNone(now) /\ UNCHANGED worker
    /\ UNCHANGED <<proc, late, budget>>

\* RepoProvider.generate, through PublicChargeAdapter.  A refused
\* reservation raises and leaves the episode to end.
WorkerReserve(now) ==
    /\ Runs /\ worker.pc = "episode"
    /\ \E i \in Charge, n \in Amounts :
          /\ ReserveForJob(i, worker.job, n, now)
          /\ worker' = [worker EXCEPT !.pc = "calling", !.call = i]
    /\ UNCHANGED <<proc, late, budget>>

WorkerSettle ==
    /\ Runs /\ worker.pc = "calling"
    /\ Ends(\/ \E cost \in Bills : SettleReported(worker.call, cost)
            \/ SettleUnknown(worker.call))
    /\ worker' = [worker EXCEPT !.pc = "episode", !.call = 0]
    /\ UNCHANGED <<proc, late, budget>>

WorkerDenied ==
    /\ Runs /\ worker.pc = "calling"
    /\ Ends(Deny(worker.call))
    /\ UNCHANGED brokerVars

\* sqlite3.OperationalError out of generate: "except Exception" in work.
WorkerSettleFails ==
    /\ Runs /\ worker.pc = "calling" /\ Fails
    /\ Ends(Crash(worker.call))
    /\ worker' = [worker EXCEPT !.pc = "finishing", !.call = 0, !.result = "finished"]
    /\ UNCHANGED <<proc, late>>

EpisodeEnds ==
    /\ Runs /\ worker.pc = "episode"
    /\ worker' = [worker EXCEPT !.pc = "finishing", !.result = "finished"]
    /\ UNCHANGED <<tvars, proc, late, budget>>

\* wait_for cancels run_episode, whose pending call settles as unknown.
EpisodeTimeout ==
    /\ Runs /\ worker.pc \in {"episode", "calling"}
    /\ IF worker.pc = "calling" THEN Ends(SettleUnknown(worker.call))
                                ELSE UNCHANGED tvars
    /\ worker' = [worker EXCEPT !.pc = "finishing", !.call = 0, !.result = "interrupted"]
    /\ UNCHANGED <<proc, late, budget>>

WorkerFinish ==
    /\ Runs /\ worker.pc = "finishing"
    /\ Finish(worker.job, worker.result)
    /\ worker' = Idle
    /\ UNCHANGED <<proc, late, budget>>

\* SQLite fails in prune, claim or finish: nothing catches it, the task ends.
WorkerDies ==
    /\ Runs /\ worker.pc \in {"idle", "finishing"} /\ Fails
    /\ worker' = [worker EXCEPT !.pc = "dead"]
    /\ UNCHANGED <<tvars, proc, late>>

-----------------------------------------------------------------------------
(* lifespan.                                                               *)

\* Faulty: no recovery at startup.
BootOnly ==
    /\ proc = "down" \/ (Overlap /\ proc = "closed")
    /\ proc' = "up" /\ worker' = Idle
    /\ UNCHANGED <<tvars, late, budget>>

\* The lock is free, recover() runs before the first request is served.
Boot ==
    /\ proc = "down" \/ (Overlap /\ proc = "closed")
    /\ Recover
    /\ proc' = "up" /\ worker' = Idle
    /\ UNCHANGED <<late, budget>>

\* app.state.worker.cancel()
Shutdown ==
    /\ proc = "up" /\ Spend("stops", MaxStops)
    /\ proc' = "stopping"
    /\ UNCHANGED <<tvars, worker, late>>

\* Faulty: "except BaseException" keeps the worker going.
WorkerCatchesCancel ==
    /\ proc = "stopping" /\ worker.pc = "calling"
    /\ Ends(SettleUnknown(worker.call))
    /\ proc' = "stuck"
    /\ worker' = [worker EXCEPT !.pc = "finishing", !.call = 0, !.result = "finished"]
    /\ UNCHANGED <<late, budget>>

\* CancelledError reaches the worker: a pending call settles as unknown; a
\* claim or finish under way goes on in its thread.
WorkerCancelled ==
    /\ proc = "stopping" /\ worker.pc \in {"idle", "episode", "calling", "finishing"}
    /\ IF worker.pc = "calling" THEN Ends(SettleUnknown(worker.call))
                                ELSE UNCHANGED tvars
    /\ \/ UNCHANGED late
       \/ worker.pc = "idle" /\ late' = [NoThread EXCEPT !.does = "claim"]
       \/ /\ worker.pc = "finishing"
          /\ late' = [does |-> "finish", job |-> worker.job, result |-> worker.result]
    /\ worker' = Gone
    /\ UNCHANGED <<proc, budget>>

\* ... unless SQLite fails while the episode handles it: that exception
\* replaces the cancellation, and the worker carries on.
CancelSwallowed ==
    /\ proc = "stopping" /\ worker.pc = "calling" /\ Fails
    /\ Ends(SettleUnknown(worker.call) \/ Crash(worker.call))
    /\ proc' = "stuck"
    /\ worker' = [worker EXCEPT !.pc = "finishing", !.call = 0, !.result = "finished"]
    /\ UNCHANGED late

\* Faulty: the worker is cancelled and not awaited.
CloseDownEarly ==
    /\ proc = "stopping"
    /\ Recover
    /\ proc' = "closed"
    /\ UNCHANGED <<worker, late, budget>>

\* recover() and lock.close(), once the worker was awaited.
CloseDown ==
    /\ proc = "stopping" /\ worker.pc = "gone"
    /\ Recover
    /\ proc' = "closed"
    /\ UNCHANGED <<worker, late, budget>>

\* Awaiting a dead worker raises: no recover(), the exit frees the lock.
CloseDead ==
    /\ proc = "stopping" /\ worker.pc = "dead"
    /\ proc' = "down" /\ worker' = Gone
    /\ UNCHANGED <<tvars, late, budget>>

\* asyncio.run joins the executor's threads before the process exits.
Exit ==
    /\ proc = "closed" /\ late = NoThread
    /\ proc' = "down"
    /\ UNCHANGED <<tvars, worker, late, budget>>

LateThread(now) ==
    /\ \/ late.does = "claim" /\ (ClaimNone(now) \/ \E j \in Job : Claim(j, now))
       \/ late.does = "finish" /\ Finish(late.job, late.result)
    /\ late' = NoThread
    /\ UNCHANGED <<proc, worker, budget>>

\* Power, SIGKILL, out of memory: threads and open transactions end with it.
Kill ==
    /\ proc # "down" /\ Spend("kills", MaxKills)
    /\ IF worker.pc = "calling" THEN Ends(Crash(worker.call)) ELSE UNCHANGED tvars
    /\ proc' = "down" /\ worker' = Gone /\ late' = NoThread

-----------------------------------------------------------------------------
\* Unrelated calls and operators, in other processes.
Unrelated ==
    /\ Elsewhere \/ \E i \in Charge : owner[i] = 0 /\ Settle(i)
    /\ UNCHANGED brokerVars

Time == (\E t \in Times : Tick(t)) /\ UNCHANGED brokerVars

BInit ==
    /\ TInit
    /\ proc = "down" /\ worker = Gone /\ late = NoThread
    /\ budget = [stops |-> 0, kills |-> 0, errors |-> 0]

WorkerStep ==
    \/ \E now \in Recent : WorkerClaim(now) \/ WorkerReserve(now)
    \/ WorkerSettle \/ WorkerDenied \/ EpisodeEnds \/ EpisodeTimeout \/ WorkerFinish

BNext ==
    \/ \E now \in Recent :
          RequestSession(now) \/ Submit(now) \/ WorkerPrune(now) \/ LateThread(now)
    \/ WorkerStep
    \/ WorkerSettleFails \/ WorkerDies
    \/ Boot \/ Shutdown \/ WorkerCancelled \/ CancelSwallowed
    \/ CloseDown \/ CloseDead \/ Exit \/ Kill
    \/ Unrelated \/ Time

BSpec == BInit /\ [][BNext]_bvars

\* The event loop and its threads run, cancellation is delivered, and
\* systemd starts a broker that is down (Restart=on-failure, or its operator
\* after an orderly stop).
Fairness ==
    /\ WF_bvars(\E now \in Recent : WorkerClaim(now))
    /\ WF_bvars(WorkerSettle \/ EpisodeEnds \/ EpisodeTimeout)
    /\ WF_bvars(WorkerFinish)
    /\ WF_bvars(WorkerCancelled) /\ WF_bvars(CloseDown) /\ WF_bvars(CloseDead)
    /\ WF_bvars(\E now \in Recent : LateThread(now))
    /\ WF_bvars(Exit) /\ WF_bvars(Boot)

FairBSpec == BSpec /\ Fairness
-----------------------------------------------------------------------------
(***************************************************************************)
(* Properties.                                                             *)
(***************************************************************************)

\* The worker's call in flight belongs to a running job and a row that is
\* still to be settled: no recovery interrupts a job under its episode.
CallInFlight ==
    worker.pc = "calling" =>
        /\ jobs[worker.job].status = "running"
        /\ owner[worker.call] = worker.job
        /\ charges[worker.call].status = "reserved"

\* While a process with a live worker runs, a running job is that worker's:
\* threads left behind by an earlier worker, kills and recoveries leave no
\* job that claim() would wait for and nobody works on.  (broker.py:160: "An
\* OS-held lock prevents duplicate workers and unsafe restart recovery.")
RunningIsOwned ==
    proc \in {"up", "stuck"} /\ worker.pc # "dead" =>
        \A j \in Is({"running"}) :
            worker.pc \in {"episode", "calling", "finishing"} /\ worker.job = j

\* A reservation that no call will settle any more belongs to a running
\* job, where the next recover() finds it (unless SQLite failed).
PendingIsRecoverable ==
    budget.errors = 0 =>
        \A i \in Charge : charges[i].status = "reserved" /\ owner[i] # 0 =>
            jobs[owner[i]].status = "running"

\* Calls, rows and jobs agree, before and after any recovery.
CallsMatchJobs == CallInFlight /\ PendingIsRecoverable

\* Every admitted job leaves the queue and the worker, through stops, kills
\* and restarts, unless the worker died of an SQLite error and nobody
\* restarts the broker, or swallowed its cancellation.
JobsDrain ==
    \A j \in Job : jobs[j].status \in {"queued", "running"} ~>
        \/ jobs[j].status \in Terminal \cup {"gone"}
        \/ worker.pc = "dead"

\* A stop completes.
StopsComplete == proc = "stopping" ~> proc = "down" \/ budget.errors > 0

\* A trial runs once and its first outcome is its last: the worker, the thread
\* that a cancelled worker left behind and the recoveries at a stop and a
\* start may commit in any order, and still a job ends only while it runs,
\* with the result of its own episode or, when no worker is there, as
\* interrupted.  (state.py:288-293, which broker.py:142 calls in a thread.)
OutcomesStand ==
    [][\A j \in Job :
          LET before == jobs[j].status
              after == jobs'[j].status
          IN /\ before \in Terminal \cup {"gone"} => after \in {before, "gone"}
             /\ before = "running" /\ after # before =>
                   \/ worker.pc = "finishing" /\ worker.job = j /\ worker.result = after
                   \/ late.does = "finish" /\ late.job = j /\ late.result = after
                   \/ worker.pc = "gone" /\ after = "interrupted"]_bvars

=============================================================================
