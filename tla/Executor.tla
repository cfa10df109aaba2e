------------------------------ MODULE Executor ------------------------------
(***************************************************************************)
(* How a candidate repair is tested: evaluate (forgerl/sandbox.py for one  *)
(* function, forgerl/bench/sandbox.py for a repository) validates it,      *)
(* sends it without the expected answers to the executor broker, and       *)
(* grades what comes back.  The broker has a few slots, taken without      *)
(* waiting; a handler runs one container (sandbox/runner.py) and removes   *)
(* it.  The Docker daemon may be down or hang, a wait may time out, the    *)
(* caller may give up first, and the broker may be restarted.              *)
(*                                                                         *)
(* A result is "unavailable", which ends an episode as an infrastructure   *)
(* failure, or it is graded: it becomes a failed test of the candidate.    *)
(***************************************************************************)
EXTENDS Naturals, Sequences, FiniteSets

CONSTANTS
    Callers,      \* threads that evaluate candidates, one at a time each
    Permitted,    \* those whose uid FORGERL_EXECUTOR_ALLOWED_UIDS lists
    Submissions,  \* what they may submit, by number: a task and a candidate for it
    Libraries,    \* ALLOWED_MODULES
    SlotCount,    \* the semaphore's initial value, 2 in the code
    MaxFiles,     \* MAX_FILES
    MaxCalls,     \* bound on the evaluations of a behaviour
    MaxRestarts   \* bound on restarts of the broker

ASSUME ExecutorAssumption ==
    /\ Permitted \subseteq Callers /\ SlotCount \in Nat \ {0}
    /\ MaxFiles \in Nat \ {0} /\ MaxCalls \in Nat /\ MaxRestarts \in Nat
    /\ \A s \in DOMAIN Submissions :
          \A cases \in {Submissions[s].task.public, Submissions[s].task.hidden} :
             cases \in Seq({cases[k] : k \in DOMAIN cases})
    /\ \A s \in DOMAIN Submissions :
          Submissions[s].task.kind # "repository" =>
             DOMAIN Submissions[s].files = {"solution"} /\ Submissions[s].task.entry = "solution"
    /\ "solution" \notin Libraries

VARIABLES
    calls,       \* the evaluations so far, seen by their callers
    handlers,    \* the broker's thread for each of them
    free,        \* the semaphore
    containers,  \* names of the containers that exist
    daemon,      \* "up", "down" or "hung"
    restarts

xvars == <<calls, handlers, free, containers, daemon, restarts>>

-----------------------------------------------------------------------------
(* Validation, by the caller and again by the broker.                      *)

\* Some modules import each other in a circle.
Cyclic(files) ==
    \E S \in (SUBSET DOMAIN files) \ {{}} : \A m \in S : files[m].imports \cap S # {}

\* validate_files
ValidFiles(files, entry) ==
    /\ Cardinality(DOMAIN files) \in 1..MaxFiles
    /\ entry \in DOMAIN files /\ files[entry].defined
    /\ DOMAIN files \cap Libraries = {}
    /\ \A m \in DOMAIN files : /\ files[m].form = "supported"
                               /\ files[m].imports \subseteq DOMAIN files \cup Libraries
    /\ ~Cyclic(files)

\* validate_edits
ValidEdits(task, files) ==
    /\ DOMAIN files = DOMAIN task.files
    /\ \A m \in DOMAIN files : files[m] # task.files[m] => m \in task.editable
    /\ ValidFiles(files, task.entry)

\* validate_source, for the one file "solution"
ValidSource(s) ==
    /\ s.form = "supported" /\ s.defined /\ s.imports \subseteq Libraries

Accepted(sub) ==
    IF sub.task.kind = "repository" THEN ValidEdits(sub.task, sub.files)
    ELSE ValidSource(sub.files["solution"])

-----------------------------------------------------------------------------
(* In the container.                                                       *)

\* checked_tree and load, from the entry module on
Loads(files, entry) ==
    LET closed == {S \in SUBSET DOMAIN files :
                      entry \in S /\ \A m \in S : files[m].imports \cap DOMAIN files \subseteq S}
        reached == {m \in DOMAIN files : \A S \in closed : m \in S}
    IN /\ \A m \in DOMAIN files : /\ files[m].form = "supported"
                                  /\ files[m].imports \subseteq DOMAIN files \cup Libraries
       /\ ~Cyclic([m \in reached |-> files[m]])
       /\ files[entry].defined

\* What the candidate does with a case when it has run `before` others in the
\* state it keeps: a stateful one is only right the first time.
Does(sub, case, before) ==
    LET right == sub.does = "right" /\ (sub.keeps = "nothing" \/ before = 0)
    IN [name |-> case.name, mutated |-> sub.does = "mutates",
        error |-> IF sub.does \in {"raises", "fails to load"} THEN "ValueError" ELSE "none",
        actual |-> IF right \/ sub.does = "mutates" THEN case.want ELSE "other"]

\* Faulty: a repository is loaded once for all its cases.
RowsOfOneLoad(sub, cases) ==
    [k \in DOMAIN cases |->
        IF sub.task.kind = "repository" /\ ~Loads(sub.files, sub.task.entry)
        THEN [name |-> cases[k].name, mutated |-> FALSE, error |-> "ImportError", actual |-> "other"]
        ELSE Does(sub, cases[k], k - 1)]

\* The loop over the cases: a repository's modules are loaded anew for each,
\* the libraries, and a lone function's module, only once.  Inside the loop's
\* try, what a repository raises as it is loaded is the error of a case.
RunnerRows(sub, cases) ==
    [k \in DOMAIN cases |->
        IF sub.task.kind = "repository" /\ ~Loads(sub.files, sub.task.entry)
        THEN [name |-> cases[k].name, mutated |-> FALSE, error |-> "ImportError", actual |-> "other"]
        ELSE Does(sub, cases[k],
                  IF sub.task.kind = "repository" /\ sub.keeps # "in libraries" THEN 0 ELSE k - 1)]

\* What ends the runner by exit 1, not a case: a lone function is loaded outside
\* the try, and so are the arguments written out again after a call, which a
\* candidate may have spoiled with what JSON cannot hold.
RunnerFails(sub, cases) ==
    \/ sub.task.kind # "repository"
       /\ (sub.does = "fails to load" \/ ~Loads(sub.files, sub.task.entry))
    \/ sub.does = "spoils" /\ Loads(sub.files, sub.task.entry) /\ cases # <<>>

\* It exceeds a limit of time, memory, processes or output.
Exceeds(sub) == sub.does = "exceeds"

-----------------------------------------------------------------------------
(* Results and grades.                                                     *)

Nothing == [kind |-> "nothing"]           \* the connection closes without an answer
Unavailable == [kind |-> "unavailable"]
ExecutionError == [kind |-> "execution_error"]
Rows(rows) == [kind |-> "rows", rows |-> rows]

What(call) == Submissions[call.sub]
Cases(call) == IF call.hidden THEN What(call).task.hidden ELSE What(call).task.public

\* _validate_result
Validated(result, cases) ==
    IF result.kind # "rows" THEN result
    ELSE IF /\ Len(result.rows) = Len(cases)
            /\ \A k \in DOMAIN cases : result.rows[k].name = cases[k].name
         THEN result ELSE ExecutionError

\* Whether a case counts as passed.
Passes(task, case, row) ==
    /\ ~(task.unchanged /\ row.mutated)
    /\ IF case.raises # "none" THEN row.error = case.raises
       ELSE row.error = "none" /\ row.actual = case.want

Grade(call, result) ==
    [k \in DOMAIN Cases(call) |->
        result.kind = "rows" /\ Passes(What(call).task, Cases(call)[k], result.rows[k])]

-----------------------------------------------------------------------------
(* The caller.                                                             *)

Finish(call, result) ==
    [call EXCEPT !.state = IF result.kind \in {"nothing", "unavailable"} THEN "unavailable"
                           ELSE "graded",
                 !.by_error = result.kind = "execution_error",
                 !.grade = IF result.kind \in {"nothing", "unavailable"} THEN <<>>
                           ELSE Grade(call, result)]

NoHandler == [pc |-> "closed", result |-> Nothing, fault |-> "none"]

\* evaluate: validate, connect and send.
Evaluate(c, sub, hidden) ==
    /\ Len(calls) < MaxCalls
    /\ \A i \in DOMAIN calls : calls[i].state = "waiting" => calls[i].caller # c
    /\ LET call == [caller |-> c, sub |-> sub, hidden |-> hidden, state |-> "waiting",
                    by_error |-> FALSE, grade |-> <<>>]
       IN \/ /\ Accepted(Submissions[sub])
             /\ calls' = Append(calls, call)
             /\ handlers' = Append(handlers, [NoHandler EXCEPT !.pc = "accepted"])
          \/ /\ ~Accepted(Submissions[sub])  \* SandboxRejected
             /\ calls' = Append(calls, Finish(call, ExecutionError))
             /\ handlers' = Append(handlers, NoHandler)
    /\ UNCHANGED <<free, containers, daemon, restarts>>

\* execute_broker returns or raises.
Receive(i) ==
    /\ calls[i].state = "waiting" /\ handlers[i].pc = "closed"
    /\ calls' = [calls EXCEPT ![i] = Finish(@, Validated(handlers[i].result, Cases(@)))]
    /\ UNCHANGED <<handlers, free, containers, daemon, restarts>>

\* Its own timeout, which a handler may outlast.
GiveUp(i) ==
    /\ calls[i].state = "waiting" /\ handlers[i].pc # "closed"
    /\ calls' = [calls EXCEPT ![i] = Finish(@, Unavailable)]
    /\ UNCHANGED <<handlers, free, containers, daemon, restarts>>

-----------------------------------------------------------------------------
(* The broker.                                                             *)

\* Faulty: a name for what runs, not for the run.
NameOfCandidate(i) == calls[i].sub
\* "forgerl-" and a uuid
Name(i) == i

Go(i, pc, result, fault) ==
    handlers' = [handlers EXCEPT ![i] = [pc |-> pc, result |-> result, fault |-> fault]]

\* The peer's uid is not listed.
TurnAway(i) ==
    /\ handlers[i].pc = "accepted" /\ calls[i].caller \notin Permitted
    /\ Go(i, "closed", Nothing, "none")
    /\ UNCHANGED <<calls, free, containers, daemon, restarts>>

\* No slot is free.
Refuse(i) ==
    /\ handlers[i].pc = "accepted" /\ calls[i].caller \in Permitted /\ free = 0
    /\ Go(i, "closed", Unavailable, "none")
    /\ UNCHANGED <<calls, free, containers, daemon, restarts>>

Acquire(i) ==
    /\ handlers[i].pc = "accepted" /\ calls[i].caller \in Permitted /\ free > 0
    /\ free' = free - 1
    /\ Go(i, "reading", Nothing, "none")
    /\ UNCHANGED <<calls, containers, daemon, restarts>>

\* The request arrives, or not within three seconds.
Read(i) ==
    /\ handlers[i].pc = "reading"
    /\ \/ Go(i, "starting", Nothing, "none")
       \/ Go(i, "releasing", ExecutionError, "late")
    /\ UNCHANGED <<calls, free, containers, daemon, restarts>>

\* docker run: exit 125 or 127, or 1 and one of the connection messages, is
\* "unavailable"; so is a docker program that cannot be started.
Start(i) ==
    /\ handlers[i].pc = "starting"
    /\ \/ /\ daemon = "up" /\ Name(i) \notin containers
          /\ containers' = containers \cup {Name(i)}
          /\ Go(i, "running", Nothing, "none")
       \/ /\ daemon = "down" \/ Name(i) \in containers
          /\ Go(i, "cleaning", Unavailable, "none")
          /\ UNCHANGED containers
    /\ UNCHANGED <<calls, free, daemon, restarts>>

\* The container ends.
RunEnds(i) ==
    /\ handlers[i].pc = "running" /\ daemon = "up" /\ Name(i) \in containers
    /\ containers' = containers \ {Name(i)}
    /\ Go(i, "cleaning",
          IF Exceeds(What(calls[i])) \/ RunnerFails(What(calls[i]), Cases(calls[i]))
          THEN ExecutionError
          ELSE Rows(RunnerRows(What(calls[i]), Cases(calls[i]))), "none")
    /\ UNCHANGED <<calls, free, daemon, restarts>>

\* It was removed under the runner: killed, exit 137.
Removed(i) ==
    /\ handlers[i].pc = "running" /\ handlers[i].fault = "none" /\ Name(i) \notin containers
    /\ Go(i, "cleaning", ExecutionError, "none")
    /\ UNCHANGED <<calls, free, containers, daemon, restarts>>

\* The daemon went down under it; only some of docker's messages are known.
Lost(i) ==
    /\ handlers[i].pc = "running" /\ handlers[i].fault = "daemon"
    /\ \E result \in {Unavailable, ExecutionError} : Go(i, "cleaning", result, "daemon")
    /\ UNCHANGED <<calls, free, containers, daemon, restarts>>

\* Faulty: what never started has nothing to wait for.
TimesOutOnceStarted(i) ==
    /\ handlers[i].pc = "running" /\ Name(i) \in containers
    /\ Go(i, "cleaning", ExecutionError, "time")
    /\ UNCHANGED <<calls, free, containers, daemon, restarts>>

\* EXECUTION_TIMEOUT, on a candidate that does not end, a slow host or a hung
\* daemon; the killed docker client may itself fail to end, and then the
\* exception of the second wait passes every handler's except clause.
TimesOut(i) ==
    /\ handlers[i].pc = "running" \/ (handlers[i].pc = "starting" /\ daemon = "hung")
    /\ \E result \in {ExecutionError, Nothing} : Go(i, "cleaning", result, "time")
    /\ UNCHANGED <<calls, free, containers, daemon, restarts>>

\* docker rm --force, for three seconds at most; its failure is ignored.
Remove(i) ==
    /\ handlers[i].pc = "cleaning"
    /\ containers' \in IF daemon = "up" THEN {containers \ {Name(i)}}
                       ELSE {containers, containers \ {Name(i)}}
    /\ handlers' = [handlers EXCEPT ![i].pc = "releasing"]
    /\ UNCHANGED <<calls, free, daemon, restarts>>

\* Faulty: released where an exception that is not expected does not pass.
ReleaseIfAnswering(i) ==
    /\ handlers[i].pc = "releasing"
    /\ free' = IF handlers[i].result = Nothing THEN free ELSE free + 1
    /\ handlers' = [handlers EXCEPT ![i].pc = "closed"]
    /\ UNCHANGED <<calls, containers, daemon, restarts>>

\* The finally clause; what answer there is is written just afterwards.
Release(i) ==
    /\ handlers[i].pc = "releasing"
    /\ free' = free + 1
    /\ handlers' = [handlers EXCEPT ![i].pc = "closed"]
    /\ UNCHANGED <<calls, containers, daemon, restarts>>

\* The broker stops and starts: its connections close, its containers stay.
Restart ==
    /\ restarts < MaxRestarts
    /\ restarts' = restarts + 1 /\ free' = SlotCount
    /\ handlers' = [i \in DOMAIN handlers |->
                       IF handlers[i].pc = "closed" THEN handlers[i] ELSE NoHandler]
    /\ UNCHANGED <<calls, containers, daemon>>

\* A container nobody waits for any more ends by its own limits.
Expire ==
    /\ \E n \in containers : /\ \A i \in DOMAIN handlers : handlers[i].pc = "running" => Name(i) # n
                             /\ containers' = containers \ {n}
    /\ UNCHANGED <<calls, handlers, free, daemon, restarts>>

\* A daemon that stops takes its containers along.
DaemonChanges ==
    /\ \/ daemon = "up" /\ daemon' \in {"down", "hung"}
       \/ daemon # "up" /\ daemon' = "up"
    /\ IF daemon' = "down"
       THEN /\ containers' = {}
            /\ handlers' = [i \in DOMAIN handlers |->
                               IF handlers[i].pc = "running" THEN [handlers[i] EXCEPT !.fault = "daemon"]
                               ELSE handlers[i]]
       ELSE UNCHANGED <<containers, handlers>>
    /\ UNCHANGED <<calls, free, restarts>>

-----------------------------------------------------------------------------
ExecutorInit ==
    /\ calls = <<>> /\ handlers = <<>> /\ free = SlotCount
    /\ containers = {} /\ daemon = "up" /\ restarts = 0

Handle(i) ==
    \/ TurnAway(i) \/ Refuse(i) \/ Acquire(i) \/ Read(i) \/ Start(i) \/ RunEnds(i)
    \/ Removed(i) \/ Lost(i) \/ TimesOut(i) \/ Remove(i) \/ Release(i)

ExecutorNext ==
    \/ \E c \in Callers, sub \in DOMAIN Submissions, hidden \in BOOLEAN : Evaluate(c, sub, hidden)
    \/ \E i \in DOMAIN calls : Receive(i) \/ GiveUp(i) \/ Handle(i)
    \/ Restart \/ Expire \/ DaemonChanges

\* Some thread runs whenever one can, and every wait of the broker's is bounded.
Work == \E i \in DOMAIN calls : Handle(i) \/ Receive(i)
ExecutorSpec == ExecutorInit /\ [][ExecutorNext]_xvars /\ WF_xvars(Work)
-----------------------------------------------------------------------------
(* Properties.                                                             *)

Holding == {i \in DOMAIN handlers : handlers[i].pc \notin {"accepted", "closed"}}

\* A slot is taken exactly while a handler works for a caller: none is lost
\* on any path of a failing execution, nor given back twice.
SlotsAreHeld == free + Cardinality(Holding) = SlotCount

\* What a candidate itself does that ends its run: it exceeds a limit, spoils
\* its arguments or, a lone function, raises while it is loaded.
EndsItsRun(sub) ==
    \/ sub.does \in {"exceeds", "spoils"}
    \/ sub.does = "fails to load" /\ sub.task.kind # "repository"

\* A candidate fails for an execution error only if it is not acceptable or
\* ended its run itself, unless a wait ran out or the daemon died under it: no
\* refusal, full broker, restart or absent daemon is a failed test, and what
\* the host accepts the runner finds no fault with before it runs it.
FailureIsDeserved ==
    \A i \in DOMAIN calls : calls[i].state = "graded" /\ calls[i].by_error =>
        ~Accepted(What(calls[i])) \/ EndsItsRun(What(calls[i])) \/ handlers[i].fault # "none"

\* A repository that keeps no state in the libraries passes exactly the cases
\* it solves alone, in a process of its own: whatever one case leaves behind is
\* not there for the next, and the loader knows every module that the host
\* has accepted.
GradeIsTrue ==
    \A i \in DOMAIN calls :
        calls[i].state = "graded" /\ ~calls[i].by_error /\ What(calls[i]).keeps # "in libraries"
          /\ What(calls[i]).task.kind = "repository" =>
        \A k \in DOMAIN Cases(calls[i]) :
            calls[i].grade[k] <=> LET case == Cases(calls[i])[k]
                                  IN Passes(What(calls[i]).task, case, Does(What(calls[i]), case, 0))

\* Every evaluation ends by an answer of the broker, even with a daemon that
\* hangs for ever: callers need no timeout of their own for that.  (A behaviour
\* has finitely many evaluations, and an ended one does not wait again.)
EvaluationsEnd == []<>(\A i \in DOMAIN calls : calls[i].state # "waiting")
=============================================================================
