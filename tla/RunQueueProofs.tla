--------------------------- MODULE RunQueueProofs ---------------------------
(***************************************************************************)
(* The public run queue for any number of runs, sessions, addresses,       *)
(* events, stops, kills and failures.  Its worker owns what is running,    *)
(* runs are never replayed, and a page that stopped polling is complete.   *)
(* The three are inductive with what the threads nobody waits for may      *)
(* still do (LateThreads): while a worker lives they belong to runs whose  *)
(* time limit left them; after a cancellation there is one more.           *)
(***************************************************************************)
EXTENDS RunQueue, FiniteSetTheorems, TLAPS

RunRow == [status : Status, created : Nat, session : Session \cup {Nobody},
           address : Address \cup {Nobody}, by : (Session \X Address) \cup {<<>>}]
Thread == [does : {"claim", "save", "event"}, run : Nat,
           status : {"none", "running"} \cup Outcome]

Types ==
    /\ runs \in [Run -> RunRow]
    /\ events \in [Run -> Nat]
    /\ proc \in {"down", "up", "stopping", "stuck"}
    /\ worker \in [pc : {"gone", "idle", "episode", "finishing", "dead"},
                   run : Nat, result : {"none"} \cup Outcome]
    /\ late \subseteq Thread
    /\ strays \subseteq Run
    /\ page \in [asked : {"no", "active", "over"}, seen : Nat, done : BOOLEAN]

Started == {"running"} \cup Terminal

\* The process, its worker and its threads end together; a worker that is
\* executing has a run that the table calls running.
Lifecycle ==
    /\ proc = "down" => worker.pc = "gone" /\ late = {}
    /\ worker.pc = "gone" => proc \in {"down", "stopping"}
    /\ worker.pc \in {"episode", "finishing"} =>
          worker.run \in Run /\ runs[worker.run].status = "running"
    /\ worker.pc = "finishing" => worker.result \in Outcome
    /\ \A r \in strays : runs[r].status \in Started

\* What a thread that nobody waits for may still write.
LateThreads ==
    /\ \A t \in late : t.does \in {"save", "event"} =>
          /\ t.run \in Run
          /\ runs[t.run].status = "running" \/ t.run \in strays
          /\ t.does = "save" => t.status \in {"running"} \cup Outcome
    /\ \A t, u \in late : t.run = u.run /\ t.run \in Run \ strays => t = u
    /\ worker.pc # "gone" => \A t \in late :
          /\ t.does \in {"save", "event"} /\ t.run \in strays
          /\ t.does = "save" => t.status = "running"

\* A live worker's run is the only one that is running, strays apart.
Executed ==
    worker.pc \notin {"gone", "dead"} =>
        \A r \in Run \ strays : runs[r].status = "running" =>
            worker.pc \in {"episode", "finishing"} /\ worker.run = r

\* A page that was told the run is over has it told rightly.
PageIsRight ==
    1 \notin strays =>
        /\ page.asked = "over" \/ page.done => runs[1].status \in Terminal
        /\ page.done => page.seen = events[1]

QInv == Types /\ Lifecycle /\ LateThreads /\ Executed /\ PageIsRight

AllMove == \A r \in Run : Moves(r, runs[r].status, runs'[r].status)

-----------------------------------------------------------------------------
LEMMA Writes ==
    ASSUME runs \in [Run -> RunRow], NEW r \in Run, NEW status \in Status
    PROVE  /\ Written(r, status) \in [Run -> RunRow]
           /\ \A q \in Run : Written(r, status)[q].status =
                                IF q = r THEN status ELSE runs[q].status
BY DEF Written, RunRow

LEMMA Forgets ==
    ASSUME NEW table \in [Run -> RunRow]
    PROVE  /\ Forgotten(table) \in [Run -> RunRow]
           /\ \A r \in Run : Forgotten(table)[r].status = table[r].status
BY DEF Forgotten, RunRow

LEMMA Recovers ==
    ASSUME runs \in [Run -> RunRow]
    PROVE  /\ Recovered \in [Run -> RunRow]
           /\ \A r \in Run : Recovered[r].status =
                 IF runs[r].status = "running" THEN "interrupted" ELSE runs[r].status
BY DEF Recovered, RunRow, Status, Terminal, Outcome

LEMMA StatusFacts ==
    /\ Status = {"none", "queued", "running", "completed", "failed", "interrupted"}
    /\ Terminal = {"completed", "failed", "interrupted"}
    /\ Outcome = {"completed", "failed"}
    /\ 1 \in Run
BY RunQueueAssumption DEF Status, Terminal, Outcome, Run

\* Claim, SaveInterim and WorkerFinish: a live worker writes the status of
\* the run it takes or has, and nothing else changes but itself.
LEMMA WorkerWrites ==
    ASSUME QInv, UNCHANGED <<events, proc, late, strays, page>>,
           NEW r \in Run, NEW status \in {"running"} \cup Outcome, runs' = Written(r, status),
           worker' \in [pc : {"idle", "episode"}, run : Nat, result : {"none"} \cup Outcome],
           worker'.pc = "episode" => worker'.run = r /\ status = "running",
           worker'.pc = "idle" => status # "running",
           \/ worker.pc = "idle" /\ runs[r].status = "queued" /\ status = "running"
           \/ worker.pc \in {"episode", "finishing"} /\ worker.run = r
    PROVE  QInv' /\ AllMove
<1>0. runs[r].status = "running" \/ (runs[r].status = "queued" /\ status = "running")
  BY DEF QInv, Lifecycle
<1>1. /\ runs' \in [Run -> RunRow] /\ runs \in [Run -> RunRow]
      /\ \A q \in Run : runs'[q].status = IF q = r THEN status ELSE runs[q].status
  BY Writes, StatusFacts DEF QInv, Types
<1>2. Types'
  BY <1>1 DEF QInv, Types
<1>3. Lifecycle'
  BY <1>1, StatusFacts DEF QInv, Types, Lifecycle, Started
<1>4. LateThreads'
  BY <1>1, StatusFacts DEF QInv, Types, LateThreads
<1>5. Executed'
  BY <1>1, StatusFacts DEF QInv, Types, Executed
<1>6. PageIsRight'
  BY <1>0, <1>1, StatusFacts DEF QInv, Types, PageIsRight
<1>7. AllMove
  BY <1>0, <1>1, StatusFacts DEF AllMove, Moves
<1> QED BY <1>2, <1>3, <1>4, <1>5, <1>6, <1>7 DEF QInv

\* Steps that leave the runs alone.
LEMMA RunsStay ==
    ASSUME Types, runs' = runs
    PROVE  AllMove
BY DEF AllMove, Moves

LEMMA AdmitStep ==
    ASSUME QInv, NEW r \in Run, NEW s \in Session, NEW a \in Address, NEW now \in Recent,
           Admit(r, s, a, now)
    PROVE  QInv' /\ AllMove
<1>1. /\ runs' \in [Run -> RunRow] /\ runs \in [Run -> RunRow] /\ runs[r].status = "none"
      /\ \A q \in Run : runs'[q].status = IF q = r THEN "queued" ELSE runs[q].status
  <2>1. [status |-> "queued", created |-> now, session |-> s, address |-> a, by |-> <<s, a>>]
           \in RunRow
    BY RunQueueAssumption DEF RunRow, Status, Recent
  <2> QED BY <2>1 DEF Admit, QInv, Types
<1>2. UNCHANGED <<events, proc, worker, late, strays, page>>
  BY DEF Admit, others
<1> QED BY <1>1, <1>2, StatusFacts
        DEF QInv, Types, Lifecycle, Started, LateThreads, Executed, PageIsRight, AllMove, Moves

LEMMA WorkerSteps ==
    ASSUME QInv,
           \/ ExpireIdentifiers \/ Claim \/ Emit \/ SaveInterim \/ EpisodeEnds \/ TimeLimit
           \/ WorkerFinish \/ WorkerDies
    PROVE  QInv' /\ AllMove
<1> USE StatusFacts
<1>1. CASE ExpireIdentifiers
  <2>1. /\ runs' \in [Run -> RunRow] /\ \A q \in Run : runs'[q].status = runs[q].status
        /\ UNCHANGED <<events, proc, worker, late, strays, page>>
    BY <1>1, Forgets DEF ExpireIdentifiers, others, QInv, Types
  <2> QED BY <2>1 DEF QInv, Types, Lifecycle, LateThreads, Executed, PageIsRight, AllMove, Moves
<1>2. CASE Claim
  <2>1. PICK r \in Run : /\ runs[r].status = "queued" /\ runs' = Written(r, "running")
                         /\ worker' = [pc |-> "episode", run |-> r, result |-> "none"]
    BY <1>2 DEF Claim, Oldest, Is
  <2>2. worker.pc = "idle" /\ UNCHANGED <<events, proc, late, strays, page>> /\ r \in Nat
    BY <1>2 DEF Claim, others, Run
  <2> QED BY <2>1, <2>2, WorkerWrites
<1>3. CASE Emit
  <2>1. /\ worker.pc = "episode" /\ worker.run \in Run /\ runs[worker.run].status = "running"
        /\ events' = [events EXCEPT ![worker.run] = @ + 1]
        /\ UNCHANGED <<runs, proc, worker, late, strays, page>>
    BY <1>3 DEF Emit, Logged, others, QInv, Lifecycle
  <2>2. events' \in [Run -> Nat] /\ \A q \in Run : q # worker.run => events'[q] = events[q]
    BY <2>1 DEF QInv, Types
  <2> QED BY <2>1, <2>2, RunsStay
          DEF QInv, Types, Lifecycle, LateThreads, Executed, PageIsRight
<1>4. CASE SaveInterim
  <2>1. /\ worker.pc = "episode" /\ worker.run \in Run /\ runs' = Written(worker.run, "running")
        /\ UNCHANGED <<events, proc, worker, late, strays, page>>
    BY <1>4 DEF SaveInterim, others, QInv, Lifecycle
  <2>2. worker' \in [pc : {"idle", "episode"}, run : Nat, result : {"none"} \cup Outcome]
    BY <2>1 DEF QInv, Types
  <2> QED BY <2>1, <2>2, WorkerWrites
<1>5. CASE EpisodeEnds
  <2>1. PICK result \in Outcome : worker' = [worker EXCEPT !.pc = "finishing", !.result = result]
    BY <1>5 DEF EpisodeEnds
  <2>2. worker.pc = "episode" /\ UNCHANGED <<runs, events, proc, late, strays, page>>
    BY <1>5 DEF EpisodeEnds, others, tables
  <2> QED BY <2>1, <2>2, RunsStay
          DEF QInv, Types, Lifecycle, LateThreads, Executed, PageIsRight
<1>6. CASE TimeLimit
  <2>1. /\ worker.pc = "episode" /\ worker.run \in Run /\ runs[worker.run].status = "running"
        /\ worker' = [worker EXCEPT !.pc = "finishing", !.result = "failed"]
        /\ UNCHANGED <<runs, events, proc, page>>
    BY <1>6 DEF TimeLimit, tables, QInv, Lifecycle
  <2>2. worker' \in [pc : {"finishing"}, run : {worker.run}, result : {"failed"}]
    BY <2>1 DEF QInv, Types
  <2>3. CASE UNCHANGED <<late, strays>>
    BY <2>1, <2>2, <2>3, RunsStay
       DEF QInv, Types, Lifecycle, LateThreads, Executed, PageIsRight
  <2>4. ASSUME NEW thread \in Pending(worker.run), late' = late \cup {thread},
               strays' = strays \cup {worker.run}
        PROVE  QInv' /\ AllMove
    <3>1. /\ thread \in Thread /\ thread.does \in {"save", "event"} /\ thread.run = worker.run
          /\ thread.does = "save" => thread.status = "running"
      BY <2>1 DEF Pending, Thread, Run
    <3>2. Types'
      BY <2>1, <2>2, <2>4, <3>1 DEF QInv, Types
    <3>3. LateThreads'
      BY <2>1, <2>2, <2>4, <3>1 DEF QInv, Types, LateThreads
    <3> QED BY <2>1, <2>2, <2>4, <3>2, <3>3, RunsStay
            DEF QInv, Types, Lifecycle, Started, Executed, PageIsRight
  <2> QED BY <1>6, <2>3, <2>4 DEF TimeLimit
<1>7. CASE WorkerFinish
  <2>1. /\ worker.pc = "finishing" /\ worker.run \in Run /\ worker.result \in Outcome
        /\ runs' = Written(worker.run, worker.result) /\ worker' = Idle
        /\ UNCHANGED <<events, proc, late, strays, page>>
    BY <1>7 DEF WorkerFinish, others, QInv, Lifecycle
  <2> QED BY <2>1, WorkerWrites DEF Idle, NoWorker
<1>8. CASE WorkerDies
  <2>1. /\ worker.pc = "finishing" /\ worker' = [worker EXCEPT !.pc = "dead"]
        /\ UNCHANGED <<runs, events, proc, late, strays, page>>
    BY <1>8 DEF WorkerDies, tables, others
  <2> QED BY <2>1, RunsStay DEF QInv, Types, Lifecycle, LateThreads, Executed, PageIsRight
<1> QED BY <1>1, <1>2, <1>3, <1>4, <1>5, <1>6, <1>7, <1>8

\* A thread writes its run or claims another, and there is one thread less.
LEMMA ThreadSteps ==
    ASSUME QInv, LateThread \/ LateThreadFails
    PROVE  QInv' /\ AllMove
<1> USE StatusFacts
<1>1. /\ UNCHANGED <<proc, worker, strays, page>> /\ late' \subseteq late
      /\ runs \in [Run -> RunRow]
  BY DEF LateThread, LateThreadFails, others, tables, QInv, Types
<1>2. CASE LateThreadFails
  <2>1. UNCHANGED <<runs, events>>
    BY <1>2 DEF LateThreadFails, tables
  <2> QED BY <1>1, <2>1, RunsStay
          DEF QInv, Types, Lifecycle, LateThreads, Executed, PageIsRight
<1>3. CASE LateThread
  <2>1. PICK t \in late :
           /\ late' = late \ {t}
           /\ \/ runs' = runs /\ events' = events
              \/ /\ t.does = "claim" /\ events' = events
                 /\ \E r \in Oldest : runs' = Written(r, "running")
              \/ t.does = "save" /\ runs' = Written(t.run, t.status) /\ events' = events
              \/ t.does = "event" /\ runs' = runs /\ events' = Logged(t.run)
    BY <1>3 DEF LateThread
  <2>2. CASE runs' = runs /\ events' = events
    BY <1>1, <2>2, RunsStay DEF QInv, Types, Lifecycle, LateThreads, Executed, PageIsRight
  <2>3. ASSUME t.does = "claim", events' = events, NEW r \in Oldest, runs' = Written(r, "running")
        PROVE  QInv' /\ AllMove
    <3>1. /\ r \in Run /\ runs[r].status = "queued" /\ worker.pc = "gone"
          /\ runs' \in [Run -> RunRow]
          /\ \A q \in Run : runs'[q].status = IF q = r THEN "running" ELSE runs[q].status
      BY <1>1, <2>3, Writes DEF Oldest, Is, QInv, LateThreads
    <3>2. LateThreads'
      BY <1>1, <3>1 DEF QInv, LateThreads
    <3> QED BY <1>1, <2>3, <3>1, <3>2
            DEF QInv, Types, Lifecycle, Started, Executed, PageIsRight, AllMove, Moves
  <2>4. CASE t.does = "save" /\ runs' = Written(t.run, t.status) /\ events' = events
    <3>1. /\ t.run \in Run /\ t.status \in {"running"} \cup Outcome
          /\ runs[t.run].status \in Started
          /\ runs[t.run].status = "running" \/ t.run \in strays
          /\ worker.pc # "gone" => t.run \in strays /\ t.status = "running"
      BY <2>4 DEF QInv, Lifecycle, LateThreads, Started
    <3>2. /\ runs' \in [Run -> RunRow]
          /\ \A q \in Run : runs'[q].status = IF q = t.run THEN t.status ELSE runs[q].status
      BY <1>1, <2>4, <3>1, Writes
    <3>3. LateThreads'
      <4>1. \A u \in late' : u # t /\ (u.run \in Run \ strays => u.run # t.run)
        BY <2>1 DEF QInv, LateThreads
      <4> QED BY <1>1, <3>1, <3>2, <4>1 DEF QInv, LateThreads
    <3>4. AllMove
      BY <3>1, <3>2 DEF AllMove, Moves, Started
    <3>5. Lifecycle'
      <4>1. \A q \in Run : runs[q].status \in Started => runs'[q].status \in Started
        BY <3>1, <3>2 DEF Started
      <4>2. worker.pc # "gone" => \A q \in Run : runs[q].status = "running" =>
                                                   runs'[q].status = "running"
        BY <3>1, <3>2
      <4>3. worker.pc \in {"episode", "finishing"} => worker.pc # "gone"
        OBVIOUS
      <4>4. proc = "down" => late' = {}
        BY <1>1 DEF QInv, Lifecycle
      <4> QED BY <1>1, <4>1, <4>2, <4>3, <4>4 DEF QInv, Types, Lifecycle
    <3>6. Executed' /\ PageIsRight'
      BY <1>1, <2>4, <3>1, <3>2 DEF QInv, Executed, PageIsRight
    <3> QED BY <1>1, <2>4, <3>2, <3>3, <3>4, <3>5, <3>6 DEF QInv, Types
  <2>5. CASE t.does = "event" /\ runs' = runs /\ events' = Logged(t.run)
    <3>1. t.run \in Run /\ (runs[t.run].status = "running" \/ t.run \in strays)
      BY <2>5 DEF QInv, LateThreads
    <3>2. events' \in [Run -> Nat] /\ \A q \in Run : q # t.run => events'[q] = events[q]
      BY <2>5, <3>1 DEF QInv, Types, Logged
    <3> QED BY <1>1, <2>5, <3>1, <3>2, RunsStay
            DEF QInv, Types, Lifecycle, LateThreads, Executed, PageIsRight
  <2> QED BY <2>1, <2>2, <2>3, <2>4, <2>5
<1> QED BY <1>2, <1>3

\* The process starts, stops and dies.
LEMMA ProcessSteps ==
    ASSUME QInv, Boot \/ Shutdown \/ WorkerCancelled \/ CancelSwallowed \/ Exit \/ Kill
    PROVE  QInv' /\ AllMove
<1> USE StatusFacts
<1>1. CASE Boot
  <2>1. /\ runs' \in [Run -> RunRow] /\ runs \in [Run -> RunRow]
        /\ \A r \in Run : runs'[r].status = IF runs[r].status = "running" THEN "interrupted"
                                                                        ELSE runs[r].status
    BY <1>1, Recovers, Forgets DEF Boot, QInv, Types
  <2>2. /\ late = {} /\ proc' = "up" /\ worker' = Idle /\ UNCHANGED <<events, late, strays>>
        /\ page' = [page EXCEPT !.asked = "no"]
    BY <1>1 DEF Boot, QInv, Lifecycle
  <2>3. worker' \in [pc : {"idle"}, run : {0}, result : {"none"}]
    BY <2>2 DEF Idle, NoWorker
  <2>4. /\ page' \in [asked : {"no"}, seen : Nat, done : BOOLEAN]
        /\ page'.done = page.done /\ page'.seen = page.seen
    BY <2>2 DEF QInv, Types
  <2> QED BY <2>1, <2>2, <2>3, <2>4
          DEF QInv, Types, Lifecycle, Started, LateThreads, Executed, PageIsRight, AllMove, Moves
<1>2. CASE Shutdown
  BY <1>2, RunsStay DEF Shutdown, tables, others,
     QInv, Types, Lifecycle, LateThreads, Executed, PageIsRight
<1>3. CASE WorkerCancelled
  <2>1. /\ worker.pc \in {"idle", "episode", "finishing"} /\ worker' = NoWorker
        /\ proc = "stopping" /\ UNCHANGED <<runs, events, proc, strays, page>>
    BY <1>3 DEF WorkerCancelled, tables, others
  <2>2. /\ worker' \in [pc : {"gone"}, run : {0}, result : {"none"}]
    BY <2>1 DEF NoWorker
  <2>3. \/ late' = late
        \/ \E t \in Thread :
              /\ late' = late \cup {t}
              /\ \/ t.does = "claim" /\ t.run = 0
                 \/ /\ t.does \in {"save", "event"} /\ t.run = worker.run
                    /\ t.run \in Run /\ runs[t.run].status = "running"
                    /\ t.does = "save" => t.status \in {"running"} \cup Outcome
    <3>1. CASE worker.pc = "idle"
      BY <1>3, <3>1 DEF WorkerCancelled, Thread
    <3>2. CASE worker.pc = "episode"
      <4>1. worker.run \in Run /\ runs[worker.run].status = "running" /\ worker.run \in Nat
        BY <3>2 DEF QInv, Lifecycle, Run
      <4>2. late' = late \/ \E t \in Pending(worker.run) : late' = late \cup {t}
        BY <1>3, <3>2 DEF WorkerCancelled
      <4>3. CASE late' = late
        BY <4>3
      <4>4. ASSUME NEW t \in Pending(worker.run), late' = late \cup {t}
            PROVE  \E u \in Thread :
                      /\ late' = late \cup {u}
                      /\ u.does \in {"save", "event"} /\ u.run = worker.run
                      /\ u.run \in Run /\ runs[u.run].status = "running"
                      /\ u.does = "save" => u.status \in {"running"} \cup Outcome
        <5>1. /\ t \in Thread /\ t.does \in {"save", "event"} /\ t.run = worker.run
              /\ t.does = "save" => t.status = "running"
          BY <4>1 DEF Pending, Thread
        <5> QED BY <4>1, <4>4, <5>1, Zenon
      <4> QED BY <4>2, <4>3, <4>4
    <3>3. CASE worker.pc = "finishing"
      <4>1. /\ worker.run \in Run /\ runs[worker.run].status = "running" /\ worker.run \in Nat
            /\ worker.result \in Outcome
        BY <3>3 DEF QInv, Lifecycle, Run
      <4> DEFINE t == [does |-> "save", run |-> worker.run, status |-> worker.result]
      <4>2. t \in Thread
        BY <4>1 DEF Thread
      <4>3. late' = late \/ late' = late \cup {t}
        BY <1>3, <3>3 DEF WorkerCancelled
      <4>4. t.does = "save" /\ t.run = worker.run /\ t.status = worker.result
        OBVIOUS
      <4> HIDE DEF t
      <4> QED BY <4>1, <4>2, <4>3, <4>4
    <3> QED BY <2>1, <3>1, <3>2, <3>3
  <2>4. late' \subseteq Thread
    BY <2>3 DEF QInv, Types
  <2>5. LateThreads'
    <3>1. CASE late' = late
      BY <2>1, <2>2, <3>1 DEF QInv, LateThreads
    <3>2. ASSUME NEW t \in Thread, late' = late \cup {t},
                 \/ t.does = "claim" /\ t.run = 0
                 \/ /\ t.does \in {"save", "event"} /\ t.run = worker.run
                    /\ t.run \in Run /\ runs[t.run].status = "running"
                    /\ t.does = "save" => t.status \in {"running"} \cup Outcome
          PROVE  LateThreads'
      <4>1. \A u \in late : u.run \in strays /\ u.does \in {"save", "event"}
        BY <2>1 DEF QInv, LateThreads
      <4>2. 0 \notin Run
        BY RunQueueAssumption DEF Run
      <4>3. \A u, v \in late' : u.run = v.run /\ u.run \in Run \ strays' => u = v
        BY <2>1, <3>2, <4>1
      <4>4. \A u \in late' : u.does \in {"save", "event"} =>
              /\ u.run \in Run
              /\ runs'[u.run].status = "running" \/ u.run \in strays'
              /\ u.does = "save" => u.status \in {"running"} \cup Outcome
        BY <2>1, <3>2 DEF QInv, LateThreads
      <4> QED BY <2>2, <4>3, <4>4 DEF LateThreads
    <3> QED BY <2>3, <3>1, <3>2
  <2> QED BY <2>1, <2>2, <2>4, <2>5, RunsStay
          DEF QInv, Types, Lifecycle, Executed, PageIsRight
<1>4. CASE CancelSwallowed
  <2>1. /\ worker.pc = "episode" /\ worker' = [worker EXCEPT !.pc = "finishing", !.result = "failed"]
        /\ proc' = "stuck" /\ UNCHANGED <<runs, events, late, strays, page>>
    BY <1>4 DEF CancelSwallowed, tables, others
  <2>2. worker' \in [pc : {"finishing"}, run : {worker.run}, result : {"failed"}]
    BY <2>1 DEF QInv, Types
  <2> QED BY <2>1, <2>2, RunsStay
          DEF QInv, Types, Lifecycle, LateThreads, Executed, PageIsRight
<1>5. CASE Exit \/ Kill
  <2>1. /\ worker' = NoWorker /\ proc' = "down" /\ late' = {}
        /\ UNCHANGED <<runs, events, strays, page>>
    BY <1>5 DEF Exit, Kill, tables, others
  <2>2. worker' \in [pc : {"gone"}, run : {0}, result : {"none"}]
    BY <2>1 DEF NoWorker
  <2> QED BY <2>1, <2>2, RunsStay
          DEF QInv, Types, Lifecycle, LateThreads, Executed, PageIsRight
<1> QED BY <1>1, <1>2, <1>3, <1>4, <1>5

LEMMA PageSteps ==
    ASSUME QInv, PageAsks \/ PageAnswered \/ \E t \in Times : Tick(t)
    PROVE  QInv' /\ AllMove
<1> USE StatusFacts
<1>1. UNCHANGED <<runs, events, proc, worker, late, strays>>
  BY DEF PageAsks, PageAnswered, Tick, tables, others
<1>2. CASE PageAsks
  <2>1. /\ page' = [page EXCEPT !.asked = IF runs[1].status \in Terminal THEN "over" ELSE "active"]
        /\ ~page.done
    BY <1>2 DEF PageAsks
  <2> QED BY <1>1, <2>1, RunsStay DEF QInv, Types, Lifecycle, LateThreads, Executed, PageIsRight
<1>3. CASE PageAnswered
  <2>1. page' = [asked |-> "no", seen |-> events[1], done |-> page.asked = "over"]
    BY <1>3 DEF PageAnswered
  <2> QED BY <1>1, <2>1, RunsStay DEF QInv, Types, Lifecycle, LateThreads, Executed, PageIsRight
<1>4. CASE \E t \in Times : Tick(t)
  BY <1>1, <1>4, RunsStay
     DEF Tick, others, QInv, Types, Lifecycle, LateThreads, Executed, PageIsRight
<1> QED BY <1>2, <1>3, <1>4

-----------------------------------------------------------------------------
LEMMA InitQInv == QInit => QInv
<1> SUFFICES ASSUME QInit PROVE QInv
  OBVIOUS
<1>1. Types
  BY StatusFacts DEF QInit, Types, RunRow, NoWorker
<1> QED BY <1>1 DEF QInit, NoWorker, QInv, Lifecycle, LateThreads, Executed, PageIsRight

LEMMA StepQInv == QInv /\ [QNext]_vars => QInv' /\ AllMove
<1> SUFFICES ASSUME QInv, [QNext]_vars PROVE QInv' /\ AllMove
  OBVIOUS
<1>1. CASE UNCHANGED vars
  BY <1>1, RunsStay DEF vars, QInv, Types, Lifecycle, LateThreads, Executed, PageIsRight
<1>2. CASE QNext
  BY <1>2, AdmitStep, WorkerSteps, ThreadSteps, ProcessSteps, PageSteps DEF QNext
<1> QED BY <1>1, <1>2

\* The strengthening holds in every reachable state.
THEOREM QueueInductive == QSpec => []QInv
BY InitQInv, StepQInv, PTL DEF QSpec

\* While a live worker's process runs, whatever the table calls running is
\* that worker's, but for what a time limit left behind (app.py's worker).
THEOREM WorkerOwnsRunning == QSpec => []RunningIsExecutedOrStray
<1>1. QInv => RunningIsExecutedOrStray
  BY DEF QInv, Lifecycle, Executed, RunningIsExecutedOrStray, Is
<1> QED BY <1>1, QueueInductive, PTL

\* No run is replayed and no outcome is taken back, through every thread,
\* kill and recovery, but for the interim write of a stray.
THEOREM RunsMoveOneWay == QSpec => NeverReplayed
<1>1. QInv /\ [QNext]_vars => [\A r \in Run : Moves(r, runs[r].status, runs'[r].status)]_vars
  BY StepQInv DEF AllMove
<1> QED BY <1>1, QueueInductive, PTL DEF QSpec, NeverReplayed

\* A page that stopped polling has every event of its run.
THEOREM PagesAreComplete == QSpec => []PageComplete
<1>1. QInv => PageComplete
  BY DEF QInv, PageIsRight, PageComplete
<1> QED BY <1>1, QueueInductive, PTL

-----------------------------------------------------------------------------
(* The limits of admission.  What is counted is a row's identifiers, and   *)
(* those go: DailyQuota is inductive with the fact that they went only     *)
(* from rows that no admission counts any more (Identified), one whose     *)
(* stamp is as old as its wait for the lock included: Day + Lag <= Keep+1. *)

Identified ==
    \A r \in Run : runs[r].status # "none" =>
        /\ runs[r].by \in Session \X Address
        /\ \/ <<runs[r].session, runs[r].address>> = runs[r].by
           \/ runs[r].created < clock - Keep

LInv == clock \in Times /\ Identified /\ QueueLimits

Active == Is({"queued", "running"})

LEMMA FiniteRuns == \A S \in SUBSET Run : IsFiniteSet(S) /\ Cardinality(S) \in Nat
<1>1. IsFiniteSet(Run)
  BY FS_Interval, RunQueueAssumption DEF Run
<1> QED BY <1>1, FS_Subset, FS_CardinalityType

\* What a step that admits nothing does to the rows.
RowsKept ==
    \A r \in Run :
        /\ runs'[r].status = "none" <=> runs[r].status = "none"
        /\ runs'[r].status = "queued" => runs[r].status = "queued"
        /\ runs'[r].created = runs[r].created /\ runs'[r].by = runs[r].by
        /\ \/ runs'[r].session = runs[r].session /\ runs'[r].address = runs[r].address
           \/ runs[r].created < clock - Keep

LEMMA NothingAdmitted ==
    ASSUME QInv, QInv', AllMove, LInv, RowsKept, strays \subseteq strays',
           clock' = clock \/ \E t \in Times : Tick(t)
    PROVE  LInv'
<1>1. clock' \in Times /\ clock' \in Int /\ clock \in Int /\ clock <= clock' /\ Keep \in Nat
  BY RunQueueAssumption DEF LInv, Tick
<1>2. Identified'
  <2> SUFFICES ASSUME NEW r \in Run, runs'[r].status # "none"
               PROVE  /\ runs'[r].by \in Session \X Address
                      /\ \/ <<runs'[r].session, runs'[r].address>> = runs'[r].by
                         \/ runs'[r].created < clock' - Keep
    BY DEF Identified
  <2>1. runs[r].created \in Int /\ runs[r].status # "none"
        /\ runs'[r].created = runs[r].created /\ runs'[r].by = runs[r].by
    BY DEF RowsKept, QInv, Types, RunRow
  <2>2. /\ runs[r].by \in Session \X Address
        /\ \/ <<runs[r].session, runs[r].address>> = runs[r].by
           \/ runs[r].created < clock - Keep
    BY <2>1 DEF LInv, Identified
  <2>3. CASE runs'[r].session = runs[r].session /\ runs'[r].address = runs[r].address
    <3>1. <<runs'[r].session, runs'[r].address>> = <<runs[r].session, runs[r].address>>
      BY <2>3
    <3>2. runs[r].created < clock - Keep => runs[r].created < clock' - Keep
      BY <1>1, <2>1
    <3> QED BY <2>1, <2>2, <3>1, <3>2, Zenon
  <2>4. CASE runs[r].created < clock - Keep
    BY <1>1, <2>1, <2>2, <2>4
  <2> QED BY <2>3, <2>4 DEF RowsKept
<1>3. DailyQuota'
  <2> SUFFICES ASSUME NEW t \in Times
               PROVE  /\ \A s \in Session :
                            Cardinality({r \in AdmittedIn(t)' : runs'[r].by[1] = s}) <= PerSession
                      /\ \A a \in Address :
                            Cardinality({r \in AdmittedIn(t)' : runs'[r].by[2] = a}) <= PerAddress
    BY Zenon DEF DailyQuota
  <2>1. AdmittedIn(t)' = AdmittedIn(t) /\ AdmittedIn(t) \subseteq Run
    <3>1. \A r \in Run : r \in AdmittedIn(t)' <=> r \in AdmittedIn(t)
      BY DEF AdmittedIn, RowsKept, Is, QInv, Types, RunRow
    <3> QED BY <3>1 DEF AdmittedIn, Is
  <2>2. ASSUME NEW s
        PROVE  /\ {r \in AdmittedIn(t)' : runs'[r].by[1] = s} = {r \in AdmittedIn(t) : runs[r].by[1] = s}
               /\ {r \in AdmittedIn(t)' : runs'[r].by[2] = s} = {r \in AdmittedIn(t) : runs[r].by[2] = s}
    BY <2>1 DEF RowsKept
  <2> QED BY <2>2 DEF LInv, QueueLimits, DailyQuota
<1>4. QueueBounded'
  <2>1. (Active \ strays)' \subseteq Active \ strays
    BY StatusFacts DEF Active, Is, AllMove, Moves, RowsKept
  <2>2. Active \ strays \in SUBSET Run
    BY DEF Active, Is
  <2>3. /\ Cardinality((Active \ strays)') <= Cardinality(Active \ strays)
        /\ Cardinality((Active \ strays)') \in Nat /\ Cardinality(Active \ strays) \in Nat
    BY <2>1, <2>2, FiniteRuns, FS_Subset
  <2>4. MaxActive \in Nat /\ Cardinality(Active \ strays) <= MaxActive
    BY RunQueueAssumption DEF LInv, QueueLimits, QueueBounded, Active
  <2>5. Cardinality((Active \ strays)') <= MaxActive
    BY <2>3, <2>4
  <2> QED BY <2>5 DEF QueueBounded, Active
<1> QED BY <1>1, <1>2, <1>3, <1>4 DEF LInv, QueueLimits

\* A day that ends when the stamp is read or later holds nothing that the
\* admission did not count.
LEMMA Counted ==
    ASSUME QInv, LInv, NEW now \in Recent, NEW t \in Times, now <= t, NEW r \in AdmittedIn(t)
    PROVE  /\ r \in Young(now) /\ r \in Run /\ runs[r].by \in Session \X Address
           /\ runs[r].session = runs[r].by[1] /\ runs[r].address = runs[r].by[2]
<1>1. /\ now \in Int /\ clock \in Int /\ t \in Int /\ Day \in Nat /\ Keep \in Nat /\ Lag \in Nat
      /\ clock - Lag <= now /\ Day + Lag <= Keep + 1
  BY RunQueueAssumption DEF Recent, LInv
<1>2. /\ r \in Run /\ runs[r].status \in Status \ {"none"} /\ runs[r].created \in Int
      /\ t - Day < runs[r].created
  BY DEF AdmittedIn, Is, QInv, Types, RunRow
<1>3. r \in Young(now)
  BY <1>1, <1>2 DEF Young, Is
<1>4. runs[r].by \in Session \X Address
      /\ <<runs[r].session, runs[r].address>> = runs[r].by
  BY <1>1, <1>2 DEF LInv, Identified
<1>5. <<runs[r].session, runs[r].address>>[1] = runs[r].session
      /\ <<runs[r].session, runs[r].address>>[2] = runs[r].address
  OBVIOUS
<1> QED BY <1>2, <1>3, <1>4, <1>5, Zenon

\* One more than what the admission counted below its limit.
LEMMA OneMore ==
    ASSUME NEW T \in SUBSET Run, NEW S \in SUBSET T, NEW r, r \notin S,
           NEW K \in Nat, Cardinality(T) < K
    PROVE  Cardinality(S \cup {r}) <= K
<1>1. IsFiniteSet(S) /\ Cardinality(S) \in Nat /\ IsFiniteSet(T) /\ Cardinality(T) \in Nat
  BY FiniteRuns
<1>2. Cardinality(S) <= Cardinality(T)
  BY <1>1, FS_Subset
<1>3. Cardinality(S \cup {r}) = Cardinality(S) + 1
  BY <1>1, FS_AddElement
<1> QED BY <1>1, <1>2, <1>3

LEMMA AdmitLimits ==
    ASSUME QInv, QInv', LInv, NEW r \in Run, NEW s \in Session, NEW a \in Address,
           NEW now \in Recent, Admit(r, s, a, now)
    PROVE  LInv'
<1> DEFINE row == [status |-> "queued", created |-> now, session |-> s,
                   address |-> a, by |-> <<s, a>>]
<1>1. /\ runs[r].status = "none" /\ clock' = clock /\ strays' = strays
      /\ Cardinality(Active) < MaxActive
      /\ Cardinality({q \in Young(now) : runs[q].session = s}) < PerSession
      /\ Cardinality({q \in Young(now) : runs[q].address = a}) < PerAddress
      /\ runs' = [runs EXCEPT ![r] = row]
  BY DEF Admit, others, Active
<1>2. runs'[r] = row /\ \A q \in Run \ {r} : runs'[q] = runs[q]
  BY <1>1 DEF QInv, Types
<1>3. Young(now) \in SUBSET Run /\ Active \in SUBSET Run
      /\ PerSession \in Nat /\ PerAddress \in Nat /\ MaxActive \in Nat
  BY RunQueueAssumption DEF Young, Active, Is
<1>4. Identified'
  BY <1>1, <1>2 DEF LInv, Identified
<1>5. DailyQuota'
  <2> SUFFICES ASSUME NEW t \in Times
               PROVE  /\ \A d \in Session :
                            Cardinality({q \in AdmittedIn(t)' : runs'[q].by[1] = d}) <= PerSession
                      /\ \A d \in Address :
                            Cardinality({q \in AdmittedIn(t)' : runs'[q].by[2] = d}) <= PerAddress
    BY Zenon DEF DailyQuota
  <2>1. \A q \in Run \ {r} : q \in AdmittedIn(t)' <=> q \in AdmittedIn(t)
    BY <1>2 DEF AdmittedIn, Is
  <2>2. AdmittedIn(t) \subseteq Run \ {r} /\ AdmittedIn(t)' \subseteq Run
    BY <1>1 DEF AdmittedIn, Is
  <2>3. runs'[r].by[1] = s /\ runs'[r].by[2] = a /\ runs'[r].created = now
    BY <1>2
  <2>4. ASSUME NEW d,
               r \in AdmittedIn(t)' => runs'[r].by[1] # d
        PROVE  {q \in AdmittedIn(t)' : runs'[q].by[1] = d} = {q \in AdmittedIn(t) : runs[q].by[1] = d}
    BY <1>2, <2>1, <2>2, <2>4
  <2>5. ASSUME NEW d,
               r \in AdmittedIn(t)' => runs'[r].by[2] # d
        PROVE  {q \in AdmittedIn(t)' : runs'[q].by[2] = d} = {q \in AdmittedIn(t) : runs[q].by[2] = d}
    BY <1>2, <2>1, <2>2, <2>5
  <2>6. ASSUME r \in AdmittedIn(t)'
        PROVE  \A q \in AdmittedIn(t) :
                  /\ q \in Young(now) /\ runs[q].session = runs[q].by[1]
                  /\ runs[q].address = runs[q].by[2]
    <3>1. now <= t
      BY <2>3, <2>6 DEF AdmittedIn
    <3> QED BY <3>1, Counted
  <2>7. ASSUME NEW d \in Session
        PROVE  Cardinality({q \in AdmittedIn(t)' : runs'[q].by[1] = d}) <= PerSession
    <3> DEFINE S == {q \in AdmittedIn(t) : runs[q].by[1] = d}
               T == {q \in Young(now) : runs[q].session = s}
    <3>1. CASE r \in AdmittedIn(t)' /\ d = s
      <4>1. {q \in AdmittedIn(t)' : runs'[q].by[1] = d} = S \cup {r}
        BY <1>2, <2>1, <2>2, <2>3, <3>1
      <4>2. S \subseteq T /\ T \in SUBSET Run /\ r \notin S
        BY <1>3, <2>2, <2>6, <3>1
      <4>3. Cardinality(S \cup {r}) <= PerSession
        <5> HIDE DEF S
        <5> QED BY <1>1, <1>3, <4>2, OneMore
      <4> HIDE DEF S
      <4> QED BY <4>1, <4>3, Zenon
    <3>2. CASE ~(r \in AdmittedIn(t)' /\ d = s)
      <4>1. {q \in AdmittedIn(t)' : runs'[q].by[1] = d} = S
        BY <2>3, <2>4, <3>2
      <4>2. Cardinality(S) <= PerSession
        BY DEF LInv, QueueLimits, DailyQuota
      <4> HIDE DEF S
      <4> QED BY <4>1, <4>2, Zenon
    <3> QED BY <3>1, <3>2
  <2>8. ASSUME NEW d \in Address
        PROVE  Cardinality({q \in AdmittedIn(t)' : runs'[q].by[2] = d}) <= PerAddress
    <3> DEFINE S == {q \in AdmittedIn(t) : runs[q].by[2] = d}
               T == {q \in Young(now) : runs[q].address = a}
    <3>1. CASE r \in AdmittedIn(t)' /\ d = a
      <4>1. {q \in AdmittedIn(t)' : runs'[q].by[2] = d} = S \cup {r}
        BY <1>2, <2>1, <2>2, <2>3, <3>1
      <4>2. S \subseteq T /\ T \in SUBSET Run /\ r \notin S
        BY <1>3, <2>2, <2>6, <3>1
      <4>3. Cardinality(S \cup {r}) <= PerAddress
        <5> HIDE DEF S
        <5> QED BY <1>1, <1>3, <4>2, OneMore
      <4> HIDE DEF S
      <4> QED BY <4>1, <4>3, Zenon
    <3>2. CASE ~(r \in AdmittedIn(t)' /\ d = a)
      <4>1. {q \in AdmittedIn(t)' : runs'[q].by[2] = d} = S
        BY <2>3, <2>5, <3>2
      <4>2. Cardinality(S) <= PerAddress
        BY DEF LInv, QueueLimits, DailyQuota
      <4> HIDE DEF S
      <4> QED BY <4>1, <4>2, Zenon
    <3> QED BY <3>1, <3>2
  <2> QED BY <2>7, <2>8
<1>6. QueueBounded'
  <2>1. (Active \ strays)' \subseteq (Active \ strays) \cup {r}
    BY <1>1, <1>2 DEF Active, Is
  <2>2. r \notin Active
    BY <1>1 DEF Active, Is
  <2>3. Cardinality((Active \ strays) \cup {r}) <= MaxActive
    BY <1>1, <1>3, <2>2, OneMore
  <2>4. Active \ strays \in SUBSET Run /\ (Active \ strays) \cup {r} \in SUBSET Run
    BY <1>3
  <2>5. /\ IsFiniteSet((Active \ strays) \cup {r})
        /\ Cardinality((Active \ strays) \cup {r}) \in Nat
    BY <2>4, FiniteRuns
  <2>6. /\ Cardinality((Active \ strays)') <= Cardinality((Active \ strays) \cup {r})
        /\ Cardinality((Active \ strays)') \in Nat
    BY <2>1, <2>4, <2>5, FiniteRuns, FS_Subset
  <2>7. Cardinality((Active \ strays)') <= MaxActive
    BY <1>3, <2>3, <2>5, <2>6
  <2> QED BY <2>7 DEF QueueBounded, Active
<1> QED BY <1>1, <1>4, <1>5, <1>6 DEF LInv, QueueLimits

\* What every step but an admission writes.
LEMMA OtherSteps ==
    ASSUME QInv, AllMove, QNext,
           ~ \E r \in Run, s \in Session, a \in Address, now \in Recent : Admit(r, s, a, now)
    PROVE  RowsKept /\ strays \subseteq strays' /\ (clock' = clock \/ \E t \in Times : Tick(t))
<1>1. /\ \/ runs' = runs
         \/ runs' = Forgotten(runs)
         \/ runs' = Forgotten(Recovered)
         \/ \E r \in Run, status \in {"running"} \cup Outcome : runs' = Written(r, status)
      /\ strays \subseteq strays' /\ (clock' = clock \/ \E t \in Times : Tick(t))
  <2>1. CASE \/ ExpireIdentifiers \/ Emit \/ EpisodeEnds \/ TimeLimit
             \/ WorkerDies \/ LateThreadFails \/ Boot \/ Shutdown \/ WorkerCancelled
             \/ CancelSwallowed \/ Exit \/ Kill \/ PageAsks \/ PageAnswered
             \/ \E t \in Times : Tick(t)
    BY <2>1 DEF ExpireIdentifiers, Emit, EpisodeEnds, TimeLimit, WorkerDies, LateThreadFails,
       Boot, Shutdown, WorkerCancelled, CancelSwallowed, Exit, Kill, PageAsks, PageAnswered, Tick,
       tables, others
  <2>2. CASE Claim
    BY <2>2 DEF Claim, Oldest, Is, others
  <2>3. CASE SaveInterim \/ WorkerFinish
    BY <2>3 DEF SaveInterim, WorkerFinish, others, QInv, Lifecycle
  <2>4. CASE LateThread
    <3>1. UNCHANGED <<clock, strays>>
      BY <2>4 DEF LateThread, others
    <3>2. PICK t \in late :
             \/ runs' = runs
             \/ \E r \in Oldest : runs' = Written(r, "running")
             \/ t.does = "save" /\ runs' = Written(t.run, t.status)
      BY <2>4 DEF LateThread
    <3>3. t.does = "save" => t.run \in Run /\ t.status \in {"running"} \cup Outcome
      BY DEF QInv, LateThreads
    <3> QED BY <3>1, <3>2, <3>3 DEF Oldest, Is
  <2> QED BY <2>1, <2>2, <2>3, <2>4 DEF QNext
<1>2. RowsKept
  <2>1. CASE runs' = runs
    BY <2>1 DEF RowsKept
  <2>2. CASE runs' = Forgotten(runs)
    BY <2>2 DEF RowsKept, Forgotten, QInv, Types, RunRow
  <2>3. CASE runs' = Forgotten(Recovered)
    <3>1. Recovered \in [Run -> RunRow]
          /\ \A r \in Run : /\ Recovered[r].status = IF runs[r].status = "running" THEN "interrupted"
                                                     ELSE runs[r].status
                            /\ Recovered[r].created = runs[r].created /\ Recovered[r].by = runs[r].by
                            /\ Recovered[r].session = runs[r].session
                            /\ Recovered[r].address = runs[r].address
      BY Recovers DEF QInv, Types, Recovered, RunRow
    <3>2. ASSUME NEW table \in [Run -> RunRow], runs' = Forgotten(table), NEW r \in Run
          PROVE  /\ runs'[r].status = table[r].status
                 /\ runs'[r].created = table[r].created /\ runs'[r].by = table[r].by
                 /\ \/ runs'[r].session = table[r].session /\ runs'[r].address = table[r].address
                    \/ table[r].created < clock - Keep
      BY <3>2 DEF Forgotten, RunRow
    <3> QED BY <2>3, <3>1, <3>2 DEF RowsKept
  <2>4. ASSUME NEW r \in Run, NEW status \in {"running"} \cup Outcome, runs' = Written(r, status)
        PROVE  RowsKept
    <3>1. runs[r].status # "none"
      <4>1. runs'[r].status = status /\ status \in Status
        BY <2>4, Writes, StatusFacts DEF QInv, Types
      <4> QED BY <4>1, StatusFacts DEF AllMove, Moves
    <3>2. \A q \in Run : /\ runs'[q].created = runs[q].created /\ runs'[q].by = runs[q].by
                         /\ runs'[q].session = runs[q].session /\ runs'[q].address = runs[q].address
                         /\ runs'[q].status = IF q = r THEN status ELSE runs[q].status
      BY <2>4 DEF Written, QInv, Types, RunRow
    <3> QED BY <3>1, <3>2, StatusFacts DEF RowsKept
  <2> QED BY <1>1, <2>1, <2>2, <2>3, <2>4
<1> QED BY <1>1, <1>2

LEMMA InitLInv == QInit => LInv
<1> SUFFICES ASSUME QInit PROVE LInv
  OBVIOUS
<1>1. clock \in Times /\ Identified
  BY DEF QInit, Identified
<1>2. Cardinality({}) = 0
  BY FS_EmptySet
<1>3. ASSUME NEW t \in Times, NEW d
      PROVE  /\ {r \in AdmittedIn(t) : runs[r].by[1] = d} = {}
             /\ {r \in AdmittedIn(t) : runs[r].by[2] = d} = {}
  <2>1. AdmittedIn(t) = {}
    BY DEF QInit, AdmittedIn, Is
  <2> QED BY <2>1
<1>4. DailyQuota
  <2>1. PerSession \in Nat /\ PerAddress \in Nat
    BY RunQueueAssumption
  <2>2. ASSUME NEW t \in Times, NEW d
        PROVE  /\ Cardinality({r \in AdmittedIn(t) : runs[r].by[1] = d}) = 0
               /\ Cardinality({r \in AdmittedIn(t) : runs[r].by[2] = d}) = 0
    BY <1>2, <1>3, Zenon
  <2>3. ASSUME NEW t \in Times, NEW d
        PROVE  /\ Cardinality({r \in AdmittedIn(t) : runs[r].by[1] = d}) <= PerSession
               /\ Cardinality({r \in AdmittedIn(t) : runs[r].by[2] = d}) <= PerAddress
    <3>1. 0 <= PerSession /\ 0 <= PerAddress
      BY <2>1
    <3> QED BY <2>2, <3>1, Zenon
  <2> QED BY <2>3 DEF DailyQuota
<1>5. Is({"queued", "running"}) \ strays = {}
  BY DEF QInit, Is
<1>6. Cardinality(Is({"queued", "running"}) \ strays) = 0
  BY <1>2, <1>5, Zenon
<1>7. QueueBounded
  BY <1>6, RunQueueAssumption DEF QueueBounded
<1> QED BY <1>1, <1>4, <1>7 DEF LInv, QueueLimits

LEMMA StepLInv == QInv /\ LInv /\ [QNext]_vars => LInv'
<1> SUFFICES ASSUME QInv, LInv, [QNext]_vars PROVE LInv'
  OBVIOUS
<1>1. QInv' /\ AllMove
  BY StepQInv
<1>2. CASE UNCHANGED vars
  BY <1>1, <1>2, NothingAdmitted DEF vars, RowsKept
<1>3. CASE \E r \in Run, s \in Session, a \in Address, now \in Recent : Admit(r, s, a, now)
  BY <1>1, <1>3, AdmitLimits
<1>4. CASE /\ QNext
           /\ ~ \E r \in Run, s \in Session, a \in Address, now \in Recent : Admit(r, s, a, now)
  BY <1>1, <1>4, OtherSteps, NothingAdmitted
<1> QED BY <1>2, <1>3, <1>4

\* No day, wherever it ends, holds more runs of a session or an address than
\* its limit, and the queue its bound, though admissions commit with old
\* stamps and the identifiers they count are dropped (Store.admit_run,
\* expire_identifiers and recover).
THEOREM QueueLimitsHold == QSpec => []QueueLimits
<1>1. LInv => QueueLimits
  BY DEF LInv
<1>2. QSpec => []LInv
  BY InitLInv, StepLInv, QueueInductive, PTL DEF QSpec
<1> QED BY <1>1, <1>2, PTL

=============================================================================
