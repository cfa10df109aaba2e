------------------------------- MODULE Trials -------------------------------
(***************************************************************************)
(* The private tables of the recruiter trial (src/forgerl/recruiter/       *)
(* state.py) beside the charge ledger they share a database with: sessions,*)
(* jobs, and the rows of the ledger that belong to a job.  Each operation  *)
(* is one transaction of BrokerState, called here by anyone in any order;  *)
(* Broker.tla says who calls it when.  Calls that are rejected raise, roll *)
(* back and change nothing, so only the ones that commit are steps.        *)
(*                                                                         *)
(* Sessions and jobs are numbered in the order of their insertion.  A row  *)
(* that was pruned stays here with the status "gone", for the properties;  *)
(* no operation looks at it again.                                         *)
(***************************************************************************)
EXTENDS Ledger, FiniteSets

CONSTANTS
    Client,       \* private hashes of network addresses
    NSessions,    \* rows of recruiter_sessions considered
    NJobs,        \* rows of recruiter_jobs considered
    Lag,          \* longest wait for the write lock (busy_timeout, 10 s)
    Month,        \* length of a month, in units of time
    DayMicro, MonthMicro, RequestMicro,
    SessionTTL, QueueTTL, Retention,
    Window,       \* length of the session rate window (600)
    PerClient,    \* sessions of one client in it (3)
    PerWindow,    \* sessions of all clients in it (100)
    Others        \* what else touches the ledger: buckets, "operator", "calibration"

Session == 1..NSessions
Job == 1..NJobs

ASSUME TrialsAssumption ==
    /\ NSessions \in Nat /\ NJobs \in Nat /\ Lag \in Nat
    /\ Day > 0 /\ Month \in Nat \ {0}
    /\ DayMicro \in Nat /\ MonthMicro \in Nat
    /\ RequestMicro \in 0..MaxReservation
    /\ SessionTTL \in Nat /\ QueueTTL \in Nat /\ Retention \in Nat
    /\ Window \in Nat /\ PerClient \in Nat /\ PerWindow \in Nat
    /\ Window + Lag <= SessionTTL + 1 /\ Day + Lag <= Retention + 1
    /\ Times \subseteq Nat

VARIABLES
    clock,     \* time.time(), taken not to run backwards
    sessions,  \* recruiter_sessions
    jobs,      \* recruiter_jobs
    owner      \* the job in a charge's run_id, 0 when it is not a trial's

trialVars == <<clock, sessions, jobs, owner>>
tvars == <<vars, trialVars>>

Terminal == {"finished", "interrupted", "expired"}

Is(status) == {j \in Job : jobs[j].status \in status}
Kept(status) == status \notin {"none", "gone"}
ClientOf(j) == sessions[jobs[j].session].client

\* self.clock() is read before BEGIN IMMEDIATE waits for the write lock.
Recent == {t \in Times : clock - Lag <= t /\ t <= clock}

DayOf(t) == t \div Day
MonthOf(t) == t \div Month

-----------------------------------------------------------------------------
(* BrokerState.limits, as admit and reserve compare it.  Stamps are whole. *)

PublicSince(t) == ChargedPublicAfter(t - 1)

\* Faulty: the lifetime caps and the pause only.
WithinLifetime(n, now) ==
    /\ disabled = "none"
    /\ Charged("public") + n <= Cap["public"]
    /\ Charged("research") + Charged("public") + CalibrationCharge + n <= TotalCap

WithinAllowance(n, now) ==
    /\ disabled = "none"
    /\ PublicSince(Day * DayOf(now)) + n <= DayMicro
    /\ PublicSince(Month * MonthOf(now)) + n <= MonthMicro
    /\ Charged("public") + n <= Cap["public"]
    /\ Charged("research") + Charged("public") + CalibrationCharge + n <= TotalCap

-----------------------------------------------------------------------------
(* prune: old terminal jobs, then expired sessions that no job refers to.  *)

\* Faulty: a terminal job goes when it leaves the queue's horizon.
PrunedJobsEarly(now) ==
    [j \in Job |->
        IF jobs[j].status \in Terminal /\ jobs[j].created < now - QueueTTL
        THEN [jobs[j] EXCEPT !.status = "gone"] ELSE jobs[j]]

PrunedJobs(now) ==
    [j \in Job |->
        IF jobs[j].status \in Terminal /\ jobs[j].created < now - Retention
        THEN [jobs[j] EXCEPT !.status = "gone"] ELSE jobs[j]]

PrunedSessions(now) ==
    [s \in Session |->
        IF /\ sessions[s].status = "live"
           /\ sessions[s].created + SessionTTL < now
           /\ \A j \in Job : Kept(PrunedJobs(now)[j].status) => jobs[j].session # s
        THEN [sessions[s] EXCEPT !.status = "gone"] ELSE sessions[s]]

Prune(now) ==
    /\ jobs' = PrunedJobs(now)
    /\ sessions' = PrunedSessions(now)
    /\ UNCHANGED <<vars, clock, owner>>

-----------------------------------------------------------------------------
(* start_session: prune, then count the young sessions and insert.         *)

Young(now) == {s \in Session : /\ sessions[s].status = "live"
                               /\ sessions[s].created > now - Window}

StartSession(s, c, now) ==
    LET young == {r \in Young(now) : PrunedSessions(now)[r].status = "live"} IN
    /\ sessions[s].status = "none" /\ \A r \in 1..(s-1) : sessions[r].status # "none"
    /\ Cardinality({r \in young : sessions[r].client = c}) < PerClient
    /\ Cardinality(young) < PerWindow
    /\ jobs' = PrunedJobs(now)
    /\ sessions' = [PrunedSessions(now) EXCEPT ![s] =
           [status |-> "live", client |-> c, created |-> now, used |-> FALSE]]
    /\ UNCHANGED <<vars, clock, owner>>

-----------------------------------------------------------------------------
(* admit and claim.                                                        *)

\* UPDATE recruiter_jobs SET status='expired' WHERE queued AND expires<now.
Expired(now) ==
    [j \in Job |->
        IF jobs[j].status = "queued" /\ jobs[j].created + QueueTTL < now
        THEN [jobs[j] EXCEPT !.status = "expired"] ELSE jobs[j]]

QueueHasRoom(table) ==
    /\ Cardinality({k \in Job : table[k].status \in {"queued", "running"}}) < 3
    /\ Cardinality({k \in Job : table[k].status = "queued"}) < 2

HadTrialOn(c, now) ==
    \E k \in Job : /\ Kept(jobs[k].status) /\ ClientOf(k) = c
                   /\ jobs[k].created >= Day * DayOf(now)

\* The session's own client presents it; its expiry is compared with a
\* second reading of the clock, inside the transaction.
Admit(j, s, now) ==
    /\ jobs[j].status = "none" /\ \A k \in 1..(j-1) : jobs[k].status # "none"
    /\ sessions[s].status = "live" /\ sessions[s].created + SessionTTL >= clock
    /\ ~sessions[s].used
    /\ ~HadTrialOn(sessions[s].client, now)
    /\ WithinAllowance(RequestMicro, now)
    /\ QueueHasRoom(Expired(now))
    /\ sessions' = [sessions EXCEPT ![s].used = TRUE]
    /\ jobs' = [Expired(now) EXCEPT ![j] =
                   [status |-> "queued", session |-> s, created |-> now]]
    /\ UNCHANGED <<vars, clock, owner>>

\* ORDER BY created,id: ids are random, so equal stamps come in any order.
Oldest(table) ==
    LET queued == {k \in Job : table[k].status = "queued"} IN
    {k \in queued : \A l \in queued : table[k].created <= table[l].created}

\* claim() returns job j ...
Claim(j, now) ==
    /\ Is({"running"}) = {}
    /\ j \in Oldest(Expired(now))
    /\ jobs' = [Expired(now) EXCEPT ![j].status = "running"]
    /\ UNCHANGED <<vars, clock, sessions, owner>>

\* ... or None; what it expired is committed either way.
ClaimNone(now) ==
    /\ Is({"running"}) # {} \/ Oldest(Expired(now)) = {}
    /\ jobs' = Expired(now)
    /\ UNCHANGED <<vars, clock, sessions, owner>>

\* Faulty: Store.finish_run's unconditional UPDATE.
FinishAlways(j, result) ==
    /\ jobs' = [jobs EXCEPT ![j].status = result]
    /\ UNCHANGED <<vars, clock, sessions, owner>>

\* UPDATE ... WHERE status='running': a late result changes nothing.
Finish(j, result) ==
    /\ jobs' = IF jobs[j].status = "running"
               THEN [jobs EXCEPT ![j].status = result] ELSE jobs
    /\ UNCHANGED <<vars, clock, sessions, owner>>

-----------------------------------------------------------------------------
(* Money.                                                                  *)

\* Faulty: only a request still pending forbids another one.
ReserveWhenSettled(i, j, n, now) ==
    /\ n <= RequestMicro
    /\ WithinAllowance(n, now)
    /\ \A k \in Charge : owner[k] = j => charges[k].status # "reserved"
    /\ jobs[j].status = "running"
    /\ Reserve(i, "public", n, now)
    /\ owner' = [owner EXCEPT ![i] = j]
    /\ UNCHANGED <<clock, sessions, jobs>>

\* BrokerState.reserve: the ledger's allowances, the trial's own, one row
\* per job for ever, and only for a running job.
ReserveForJob(i, j, n, now) ==
    /\ n <= RequestMicro
    /\ WithinAllowance(n, now)
    /\ \A k \in Charge : owner[k] # j
    /\ jobs[j].status = "running"
    /\ Reserve(i, "public", n, now)
    /\ owner' = [owner EXCEPT ![i] = j]
    /\ UNCHANGED <<clock, sessions, jobs>>

\* Faulty: what an interrupted job reserved is given back.
RecoverRefunds ==
    /\ charges' = [i \in Charge |->
           IF charges[i].status = "reserved" /\ owner[i] \in Is({"running"})
           THEN [charges[i] EXCEPT !.status = "uncertain", !.charged = 0]
           ELSE charges[i]]
    /\ jobs' = [j \in Job |->
           IF jobs[j].status = "running"
           THEN [jobs[j] EXCEPT !.status = "interrupted"] ELSE jobs[j]]
    /\ UNCHANGED <<calibrated, disabled, call, clock, sessions, owner>>

\* recover: running jobs are interrupted, their pending rows uncertain.
Recover ==
    /\ charges' = [i \in Charge |->
           IF /\ charges[i].status = "reserved"
              /\ owner[i] \in Is({"running"})
           THEN [charges[i] EXCEPT !.status = "uncertain"] ELSE charges[i]]
    /\ jobs' = [j \in Job |->
           IF jobs[j].status = "running"
           THEN [jobs[j] EXCEPT !.status = "interrupted"] ELSE jobs[j]]
    /\ UNCHANGED <<calibrated, disabled, call, clock, sessions, owner>>

\* The end of a provider call.
Settle(i) ==
    /\ \/ \E cost \in Bills : SettleReported(i, cost)
       \/ SettleUnknown(i) \/ Deny(i) \/ Crash(i)
    /\ UNCHANGED trialVars

\* Processes that share the database: the public app, research, operators.
Elsewhere ==
    /\ \/ \E i \in Charge, b \in Others \cap Bucket, n \in Amounts, now \in Recent :
             Reserve(i, b, n, now)
       \/ "operator" \in Others /\ (Pause \/ Resume \/ ClearAccess)
       \/ "calibration" \in Others /\ ImportCalibration
    /\ UNCHANGED trialVars

Tick(t) ==
    /\ clock < t
    /\ clock' = t
    /\ UNCHANGED <<vars, sessions, jobs, owner>>

-----------------------------------------------------------------------------
TInit ==
    /\ Init
    /\ clock \in {t \in Times : \A u \in Times : t <= u}
    /\ sessions = [s \in Session |-> [status |-> "none", client |-> "nobody",
                                      created |-> 0, used |-> FALSE]]
    /\ jobs = [j \in Job |-> [status |-> "none", session |-> 0, created |-> 0]]
    /\ owner = [i \in Charge |-> 0]

TNext ==
    \/ \E now \in Recent :
          \/ Prune(now)
          \/ \E s \in Session, c \in Client : StartSession(s, c, now)
          \/ \E j \in Job, s \in Session : Admit(j, s, now)
          \/ \E j \in Job : Claim(j, now)
          \/ ClaimNone(now)
          \/ \E i \in Charge, j \in Job, n \in Amounts : ReserveForJob(i, j, n, now)
    \/ \E j \in Job, result \in {"finished", "interrupted"} : Finish(j, result)
    \/ Recover
    \/ \E i \in Charge : Settle(i)
    \/ Elsewhere
    \/ \E t \in Times : Tick(t)

TSpec == TInit /\ [][TNext]_tvars
-----------------------------------------------------------------------------
(***************************************************************************)
(* Properties.  They speak of pruned rows too.                             *)
(***************************************************************************)

Admitted == {j \in Job : jobs[j].status # "none"}

\* Admission counts, expiry, claims and recovery keep one job running and
\* two waiting at most (docs/RECRUITER_DEMO.md:80), whoever calls them.
AdmissionBounds ==
    /\ Cardinality(Is({"running"})) <= 1
    /\ Cardinality(Is({"queued"})) <= 2

\* A session starts one trial, however often and late its request is
\* repeated and whatever has been pruned since.
SessionSingleUse ==
    \A j, k \in Admitted : jobs[j].session = jobs[k].session => j = k

\* A client has one trial per UTC day: admission looks at job rows, so
\* pruning must not remove one while its day lasts for any waiting admit.
OneTrialPerDay ==
    \A j, k \in Admitted :
        ClientOf(j) = ClientOf(k) /\ DayOf(jobs[j].created) = DayOf(jobs[k].created)
            => j = k

\* No window holds more sessions of a client, or of all, than the limits:
\* sessions expire and are pruned, but not while they still count.
Started(t) == {s \in Session : /\ sessions[s].status # "none"
                               /\ t - Window < sessions[s].created
                               /\ sessions[s].created <= t}
SessionRate ==
    \A t \in Times :
        /\ Cardinality(Started(t)) <= PerWindow
        /\ \A c \in Client :
              Cardinality({s \in Started(t) : sessions[s].client = c}) <= PerClient

\* The limits of admission: each counts rows that other operations expire,
\* interrupt or prune in the meantime.
TrialLimits == AdmissionBounds /\ SessionSingleUse /\ OneTrialPerDay /\ SessionRate

\* A job makes one model request for ever, whatever it settled at and
\* whether or not its job row still exists.
OneRequestPerJob ==
    \A i, k \in Charge : owner[i] = owner[k] /\ owner[i] # 0 => i = k

\* What trials bind in a UTC day or month stays within the trial's daily
\* and monthly allowance, beside any other public traffic and in whatever
\* order stamped reservations commit.
TrialsBind(Period(_), p) ==
    Total([i \in Charge |-> IF owner[i] # 0 /\ Period(charges[i].created) = p
                            THEN Bound(i) ELSE 0], N)
TrialAllowance ==
    /\ \A d \in {DayOf(t) : t \in Times} : TrialsBind(DayOf, d) <= DayMicro
    /\ \A m \in {MonthOf(t) : t \in Times} : TrialsBind(MonthOf, m) <= MonthMicro

\* The trial's own reserve and recover are ledger steps: what holds of the
\* ledger holds with them.
ImplementsLedger == Spec

=============================================================================
