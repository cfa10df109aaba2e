--------------------------- MODULE RecruiterProofs ---------------------------
(***************************************************************************)
(* The recruiter, for any number of clients, sessions, jobs, calls, stops, *)
(* kills and failures of SQLite, and any allowances.                       *)
(*                                                                         *)
(* The tables beside the ledger (TInv): every step is a step of the        *)
(* ledger, a job makes one request, trials stay in their own allowance,    *)
(* and no limit is exceeded though rows it counts are pruned (AInv).       *)
(* Recovery rewrites all rows of all running jobs in one statement; that   *)
(* this is one step of the ledger needs the other two facts of TInv: one   *)
(* job runs, and it has one row.                                           *)
(*                                                                         *)
(* The broker takes only the steps of the tables, and with one process at  *)
(* a time a running job is the live worker's and no reservation is out of  *)
(* recovery's reach.  A thread that a cancelled worker left behind is the  *)
(* difficulty: the facts about it hold because the process waits for it    *)
(* before it ends.                                                         *)
(***************************************************************************)
EXTENDS Broker, LedgerProofs, FiniteSetTheorems

JobRow == [status : {"none", "queued", "running", "finished", "interrupted",
                     "expired", "gone"},
           session : Nat, created : Int]

Tables == owner \in [Charge -> {0} \cup Job] /\ jobs \in [Job -> JobRow]

OneRunning == \A j, k \in Job :
    jobs[j].status = "running" /\ jobs[k].status = "running" => j = k

\* A row of a trial was reserved by the trial and stays where it is.
OwnedRows == \A i \in Charge : owner[i] # 0 =>
    call[i] # "idle" /\ charges[i].bucket = "public"

\* What trials bind in period p, when periods have length L.
PeriodCol(L, p) == [i \in Charge |-> IF owner[i] # 0 /\ charges[i].created \div L = p
                                     THEN Bound(i) ELSE 0]
PeriodBind(L, p) == Total(PeriodCol(L, p), N)
InAllowance(L, m) == \A p \in Int : PeriodBind(L, p) <= m

TInv ==
    /\ IInv
    /\ Tables /\ OneRunning /\ OwnedRows /\ OneRequestPerJob
    /\ InAllowance(Day, DayMicro) /\ InAllowance(Month, MonthMicro)

-----------------------------------------------------------------------------
(* Recovery is a step of the ledger.                                       *)

LEMMA RecoverIsLedgerStep ==
    ASSUME IInv, Tables, OneRunning, OwnedRows, OneRequestPerJob, Recover
    PROVE  [Next]_vars
<1> DEFINE Pending(i) == charges[i].status = "reserved" /\ owner[i] \in Is({"running"})
<1>1. charges \in [Charge -> Row]
  BY DEF IInv, TypeOK
<1>2. charges' = [i \in Charge |-> IF Pending(i)
                                  THEN [charges[i] EXCEPT !.status = "uncertain"]
                                  ELSE charges[i]]
      /\ UNCHANGED <<calibrated, disabled, call>>
  BY DEF Recover
<1>3. \A i, k \in Charge : Pending(i) /\ Pending(k) => i = k
  <2> SUFFICES ASSUME NEW i \in Charge, NEW k \in Charge, Pending(i), Pending(k)
               PROVE  i = k
    OBVIOUS
  <2>1. owner[i] \in Job /\ owner[k] \in Job
        /\ jobs[owner[i]].status = "running" /\ jobs[owner[k]].status = "running"
    BY DEF Is
  <2>2. owner[i] = owner[k]
    BY <2>1 DEF OneRunning
  <2>3. owner[i] # 0
    BY <2>1, TrialsAssumption DEF Job
  <2> QED BY <2>2, <2>3 DEF OneRequestPerJob
<1>4. CASE \A i \in Charge : ~Pending(i)
  <2>1. charges' = charges
    BY <1>1, <1>2, <1>4
  <2> QED BY <1>2, <2>1 DEF vars
<1>5. ASSUME NEW i \in Charge, Pending(i) PROVE Next
  <2>1. charges[i].bucket = "public"
    <3>1. owner[i] # 0
      BY <1>5, TrialsAssumption DEF Is, Job
    <3> QED BY <3>1 DEF OwnedRows
  <2>2. \A k \in Charge : k # i => ~Pending(k)
    BY <1>3, <1>5
  <2>3. charges' = [charges EXCEPT ![i].status = "uncertain"]
    <3> HIDE DEF Pending
    <3> QED BY <1>1, <1>2, <1>5, <2>2
  <2>4. MarkUncertain(i)
    BY <1>2, <1>5, <2>1, <2>3 DEF MarkUncertain
  <2> QED BY <2>4 DEF Next
<1> QED BY <1>4, <1>5

\* So is every other step: a trial's reservation is a reservation.
LEMMA LedgerStep ==
    ASSUME TInv, [TNext]_tvars
    PROVE  [Next]_vars
<1>1. CASE UNCHANGED tvars
  BY <1>1 DEF tvars, vars
<1>2. ASSUME NEW now \in Recent, NEW i \in Charge, NEW j \in Job, NEW n \in Amounts,
             ReserveForJob(i, j, n, now)
      PROVE  Next
  BY <1>2 DEF ReserveForJob, Next, Recent, Bucket
<1>3. CASE Recover
  BY <1>3, RecoverIsLedgerStep DEF TInv
<1>4. ASSUME NEW i \in Charge, Settle(i) PROVE Next
  BY <1>4 DEF Settle, Next
<1>5. CASE Elsewhere
  BY <1>5 DEF Elsewhere, Next, Recent
<1>6. CASE UNCHANGED vars
  BY <1>6
<1>7. \/ UNCHANGED tvars \/ Recover \/ Elsewhere \/ UNCHANGED vars
      \/ \E i \in Charge : Settle(i)
      \/ \E now \in Recent, i \in Charge, j \in Job, n \in Amounts :
            ReserveForJob(i, j, n, now)
  BY DEF TNext, Prune, StartSession, Admit, Claim, ClaimNone, Finish, Tick
<1> QED BY <1>1, <1>2, <1>3, <1>4, <1>5, <1>6, <1>7

-----------------------------------------------------------------------------
(* Jobs and their rows.                                                    *)

LEMMA JobsStep ==
    ASSUME Tables, OneRunning, [TNext]_tvars
    PROVE  jobs' \in [Job -> JobRow] /\ OneRunning'
<1> DEFINE Goal == jobs' \in [Job -> JobRow] /\ OneRunning'
<1> USE DEF Tables, OneRunning, JobRow
<1>1. ASSUME NEW now PROVE /\ PrunedJobs(now) \in [Job -> JobRow]
                           /\ Expired(now) \in [Job -> JobRow]
                           /\ \A j \in Job :
                                 /\ PrunedJobs(now)[j].status = "running" => jobs[j].status = "running"
                                 /\ Expired(now)[j].status = "running" => jobs[j].status = "running"
  BY DEF PrunedJobs, Expired
<1>2. CASE jobs' = jobs
  BY <1>2
<1>3. ASSUME NEW now, jobs' = PrunedJobs(now) \/ jobs' = Expired(now) PROVE Goal
  BY <1>1, <1>3
<1>4. ASSUME NEW now \in Recent, NEW j \in Job, NEW s \in Session, Admit(j, s, now)
      PROVE  Goal
  <2>1. jobs' = [Expired(now) EXCEPT ![j] =
                    [status |-> "queued", session |-> s, created |-> now]]
    BY <1>4 DEF Admit
  <2>2. [status |-> "queued", session |-> s, created |-> now] \in JobRow
    BY TrialsAssumption DEF Session, Recent
  <2> QED BY <1>1, <2>1, <2>2
<1>5. ASSUME NEW now \in Recent, NEW j \in Job, Claim(j, now) PROVE Goal
  <2>1. jobs' = [Expired(now) EXCEPT ![j].status = "running"]
        /\ \A k \in Job : jobs[k].status # "running"
    BY <1>5 DEF Claim, Is
  <2> QED BY <1>1, <2>1
<1>6. ASSUME NEW j \in Job, NEW result \in {"finished", "interrupted"}, Finish(j, result)
      PROVE  Goal
  <2>1. jobs' = IF jobs[j].status = "running"
                THEN [jobs EXCEPT ![j].status = result] ELSE jobs
    BY <1>6 DEF Finish
  <2> QED BY <2>1
<1>7. CASE Recover
  BY <1>7 DEF Recover
<1>8. \/ jobs' = jobs \/ Recover
      \/ \E now : jobs' = PrunedJobs(now) \/ jobs' = Expired(now)
      \/ \E now \in Recent, j \in Job, s \in Session : Admit(j, s, now)
      \/ \E now \in Recent, j \in Job : Claim(j, now)
      \/ \E j \in Job, result \in {"finished", "interrupted"} : Finish(j, result)
  BY DEF TNext, tvars, trialVars, Prune, StartSession, ClaimNone, ReserveForJob, Settle,
         Elsewhere, Tick
<1> QED BY <1>2, <1>3, <1>4, <1>5, <1>6, <1>7, <1>8

\* A call once made is never idle again, and its row never changes bucket.
LEMMA CallsAdvance ==
    ASSUME IInv, [Next]_vars, NEW i \in Charge, call[i] # "idle"
    PROVE  call'[i] # "idle" /\ charges'[i].bucket = charges[i].bucket
<1> USE DEF IInv, TypeOK, Row
<1>1. CASE UNCHANGED vars
  BY <1>1 DEF vars
<1>2. ASSUME NEW k \in Charge, NEW b \in Bucket, NEW n \in Amounts, NEW now \in Times,
             Reserve(k, b, n, now) \/ Refuse(k, b, n, now)
      PROVE  call'[i] # "idle" /\ charges'[i].bucket = charges[i].bucket
  BY <1>2 DEF Reserve, Refuse, Arrives
<1>3. ASSUME NEW k \in Charge, NEW cost \in Bills, SettleReported(k, cost)
      PROVE  call'[i] # "idle" /\ charges'[i].bucket = charges[i].bucket
  BY <1>3 DEF SettleReported
<1>4. ASSUME NEW k \in Charge, SettleUnknown(k) \/ Deny(k) \/ Crash(k) \/ MarkUncertain(k)
      PROVE  call'[i] # "idle" /\ charges'[i].bucket = charges[i].bucket
  BY <1>4 DEF SettleUnknown, Deny, Crash, MarkUncertain
<1>5. CASE ImportCalibration \/ Pause \/ Resume \/ ClearAccess
  BY <1>5 DEF ImportCalibration, Pause, Resume, ClearAccess
<1> QED BY <1>1, <1>2, <1>3, <1>4, <1>5 DEF Next

LEMMA OwnersStep ==
    ASSUME TInv, [TNext]_tvars
    PROVE  owner' \in [Charge -> {0} \cup Job] /\ OwnedRows' /\ OneRequestPerJob'
<1> USE DEF Tables, OwnedRows, OneRequestPerJob
<1>1. IInv /\ [Next]_vars /\ Tables /\ OwnedRows /\ OneRequestPerJob
  BY LedgerStep DEF TInv
<1>2. CASE owner' = owner
  BY <1>1, <1>2, CallsAdvance
<1>3. ASSUME NEW now \in Recent, NEW i \in Charge, NEW j \in Job, NEW n \in Amounts,
             ReserveForJob(i, j, n, now)
      PROVE  owner' \in [Charge -> {0} \cup Job] /\ OwnedRows' /\ OneRequestPerJob'
  <2>1. owner' = [owner EXCEPT ![i] = j] /\ (\A k \in Charge : owner[k] # j)
    BY <1>3 DEF ReserveForJob
  <2>2. call'[i] # "idle" /\ charges'[i].bucket = "public"
    BY <1>1, <1>3 DEF ReserveForJob, Reserve, IInv, TypeOK
  <2>3. \A k \in Charge : k # i /\ owner[k] # 0 =>
            call'[k] # "idle" /\ charges'[k].bucket = "public"
    BY <1>1, CallsAdvance
  <2> QED BY <1>1, <2>1, <2>2, <2>3
<1>4. owner' = owner \/ \E now \in Recent, i \in Charge, j \in Job, n \in Amounts :
                           ReserveForJob(i, j, n, now)
  BY DEF TNext, tvars, trialVars, Prune, StartSession, Admit, Claim, ClaimNone, Finish,
         Recover, Settle, Elsewhere, Tick
<1> QED BY <1>2, <1>3, <1>4

-----------------------------------------------------------------------------
(* Allowances.                                                             *)

LEMMA PeriodStart ==
    ASSUME NEW x \in Int, NEW L \in Nat \ {0}
    PROVE  x \div L \in Int /\ L * (x \div L) \in Int /\ L * (x \div L) <= x
OBVIOUS

LEMMA PeriodColumns ==
    ASSUME TypeOK, NEW L \in Nat \ {0}
    PROVE  /\ \A p \in Int : PeriodCol(L, p) \in [1..N -> Int] /\ PeriodBind(L, p) \in Int
           /\ \A p \in Int : TypeOK' => PeriodCol(L, p)' \in [1..N -> Int]
<1>1. \A p \in Int : PeriodCol(L, p) \in [1..N -> Int]
  BY Columns DEF PeriodCol, Charge
<1>2. \A p \in Int : TypeOK' => PeriodCol(L, p)' \in [1..N -> Int]
  BY ColumnsNext DEF PeriodCol, Charge
<1> QED BY <1>1, <1>2, TotalInt, LedgerAssumption DEF PeriodBind

\* A step that takes over no row and raises no trial's bound keeps an
\* allowance.
LEMMA PeriodLowers ==
    ASSUME TypeOK, TypeOK', NEW L \in Nat \ {0}, NEW m \in Nat, InAllowance(L, m),
           owner' = owner,
           \A i \in Charge : owner[i] # 0 => charges'[i].created = charges[i].created
                                             /\ Bound(i)' <= Bound(i)
    PROVE  InAllowance(L, m)'
<1> SUFFICES ASSUME NEW p \in Int PROVE PeriodBind(L, p)' <= m
  BY DEF InAllowance
<1>1. N \in Nat /\ PeriodCol(L, p) \in [1..N -> Int] /\ PeriodCol(L, p)' \in [1..N -> Int]
  BY LedgerAssumption, PeriodColumns
<1>2. \A i \in 1..N : PeriodCol(L, p)'[i] <= PeriodCol(L, p)[i]
  BY Columns, ColumnsNext DEF PeriodCol, Charge
<1>3. Total(PeriodCol(L, p)', N) <= Total(PeriodCol(L, p), N)
  BY <1>1, <1>2, TotalMonotone
<1>4. PeriodBind(L, p)' = Total(PeriodCol(L, p)', N) /\ PeriodBind(L, p)' \in Int
  BY <1>1, TotalInt DEF PeriodBind, PeriodCol
<1>5. PeriodBind(L, p) = Total(PeriodCol(L, p), N) /\ PeriodBind(L, p) \in Int
  BY <1>1, TotalInt DEF PeriodBind
<1>6. PeriodBind(L, p) <= m
  BY DEF InAllowance
<1> QED BY <1>3, <1>4, <1>5, <1>6

\* What trials bind in a period is charged to the public bucket since the
\* period began, with which the broker compares a new reservation.
LEMMA PeriodUnderCharged ==
    ASSUME TypeOK, OwnedRows, NEW L \in Nat \ {0}, NEW p \in Int
    PROVE  PeriodBind(L, p) <= PublicSince(L * p) /\ PublicSince(L * p) \in Int
<1> DEFINE t == L * p - 1
<1>1. N \in Nat /\ t \in Int
  BY LedgerAssumption
<1>2. PeriodCol(L, p) \in [1..N -> Int] /\ AfterCol(t) \in [1..N -> Int]
  BY <1>1, Columns, PeriodColumns
<1>3. ASSUME NEW i \in 1..N PROVE PeriodCol(L, p)[i] <= AfterCol(t)[i]
  <2>1. /\ Bound(i) \in Nat /\ Bound(i) <= charges[i].charged
        /\ charges[i].charged \in Nat /\ charges[i].created \in Int
    BY Columns DEF TypeOK, Row, Charge
  <2>2. CASE owner[i] # 0 /\ charges[i].created \div L = p
    <3>1. charges[i].bucket = "public"
      BY <2>2 DEF OwnedRows, Charge
    <3>2. L * p <= charges[i].created /\ L * p \in Int
      BY <2>1, <2>2, PeriodStart
    <3>3. charges[i].created > t
      BY <2>1, <3>2
    <3> QED BY <2>1, <2>2, <3>1, <3>3 DEF PeriodCol, AfterCol, Charge
  <2>3. CASE ~(owner[i] # 0 /\ charges[i].created \div L = p)
    BY <2>1, <2>3 DEF PeriodCol, AfterCol, Charge
  <2> QED BY <2>2, <2>3
<1>4. Total(PeriodCol(L, p), N) <= Total(AfterCol(t), N) /\ Total(AfterCol(t), N) \in Int
  <2> HIDE DEF t
  <2> QED BY <1>1, <1>2, <1>3, TotalMonotone, TotalInt
<1> QED BY <1>4, SumsAreTotals DEF PeriodBind, PublicSince

\* A trial's reservation keeps an allowance it was compared with.
LEMMA PeriodReserve ==
    ASSUME TypeOK, TypeOK', Shape, Tables, OwnedRows,
           NEW L \in Nat \ {0}, NEW m \in Nat, InAllowance(L, m),
           NEW i \in Charge, NEW j \in Job, NEW n \in Nat, NEW now \in Int,
           PublicSince(L * (now \div L)) + n <= m,
           Reserve(i, "public", n, now), owner' = [owner EXCEPT ![i] = j]
    PROVE  InAllowance(L, m)'
<1> SUFFICES ASSUME NEW p \in Int PROVE PeriodBind(L, p)' <= m
  BY DEF InAllowance
<1>1. N \in Nat /\ PeriodCol(L, p) \in [1..N -> Int] /\ PeriodCol(L, p)' \in [1..N -> Int]
  BY LedgerAssumption, PeriodColumns
<1>2. owner[i] = 0 /\ owner'[i] = j /\ j # 0
  BY TrialsAssumption DEF Reserve, Arrives, OwnedRows, Tables, Job
<1>3. /\ charges'[i].created = now /\ charges'[i].charged = n /\ charges'[i].reserved = n
      /\ \A k \in Charge : k # i => charges'[k] = charges[k] /\ owner'[k] = owner[k]
  BY DEF Reserve, TypeOK, Tables
<1>4. \A k \in 1..N : k # i => PeriodCol(L, p)'[k] = PeriodCol(L, p)[k]
  BY <1>3 DEF PeriodCol, Bound, Charge
<1>5. PeriodCol(L, p)[i] = 0 /\ PeriodCol(L, p)'[i] = IF now \div L = p THEN n ELSE 0
  BY <1>2, <1>3 DEF PeriodCol, Bound
<1>6. Total(PeriodCol(L, p)', N) = Total(PeriodCol(L, p), N) - PeriodCol(L, p)[i]
                                   + PeriodCol(L, p)'[i]
  BY <1>1, <1>4, TotalUpdate DEF Charge
<1>7. PeriodBind(L, p)' = Total(PeriodCol(L, p)', N)
  BY DEF PeriodBind, PeriodCol
<1>8. PeriodBind(L, p) = Total(PeriodCol(L, p), N) /\ PeriodBind(L, p) \in Int
      /\ PeriodBind(L, p) <= m
  BY <1>1, TotalInt DEF PeriodBind, InAllowance
<1>9. PeriodBind(L, p)' = PeriodBind(L, p) + (IF now \div L = p THEN n ELSE 0)
  BY <1>5, <1>6, <1>7, <1>8
<1>10. CASE now \div L # p
  BY <1>8, <1>9, <1>10
<1>11. CASE now \div L = p
  <2>1. PeriodBind(L, p) <= PublicSince(L * p) /\ PublicSince(L * p) \in Int
    BY PeriodUnderCharged
  <2>2. PublicSince(L * p) + n <= m
    BY <1>11
  <2> QED BY <1>8, <1>9, <1>11, <2>1, <2>2
<1> QED BY <1>10, <1>11

LEMMA AllowanceStep ==
    ASSUME TInv, [TNext]_tvars
    PROVE  InAllowance(Day, DayMicro)' /\ InAllowance(Month, MonthMicro)'
<1>1. /\ IInv /\ [Next]_vars /\ TypeOK /\ TypeOK' /\ Shape /\ Tables /\ OwnedRows
      /\ InAllowance(Day, DayMicro) /\ InAllowance(Month, MonthMicro)
  BY LedgerStep, RowsStep DEF TInv, IInv
<1>2. /\ Day \in Nat \ {0} /\ Month \in Nat \ {0} /\ DayMicro \in Nat /\ MonthMicro \in Nat
      /\ Times \subseteq Nat /\ Amounts \subseteq Nat
  BY TrialsAssumption, LedgerAssumption
<1>3. CASE owner' = owner
  <2>1. \A i \in Charge : owner[i] # 0 => charges'[i].created = charges[i].created
                                           /\ Bound(i)' <= Bound(i)
    <3>1. ASSUME NEW k \in Charge, NEW b \in Bucket, NEW n \in Nat, NEW t \in Int,
                 Reserve(k, b, n, t), NEW i \in Charge, owner[i] # 0
          PROVE  charges'[i].created = charges[i].created /\ Bound(i)' <= Bound(i)
      <4>1. i # k
        BY <1>1, <3>1 DEF Reserve, Arrives, OwnedRows
      <4>2. charges'[i] = charges[i]
        BY <3>1, <4>1, <1>1 DEF Reserve, TypeOK
      <4>3. Bound(i) \in Nat /\ Bound(i)' = Bound(i)
        BY <1>1, <4>2, Columns DEF Bound
      <4> QED BY <4>2, <4>3
    <3> QED BY <1>1, <3>1, OnlyReserveRaises
  <2> QED BY <1>1, <1>2, <1>3, <2>1, PeriodLowers
<1>4. ASSUME NEW now \in Recent, NEW i \in Charge, NEW j \in Job, NEW n \in Amounts,
             ReserveForJob(i, j, n, now)
      PROVE  InAllowance(Day, DayMicro)' /\ InAllowance(Month, MonthMicro)'
  <2>1. now \in Int /\ n \in Nat
    BY <1>2 DEF Recent
  <2>2. Reserve(i, "public", n, now) /\ owner' = [owner EXCEPT ![i] = j]
    BY <1>4 DEF ReserveForJob
  <2>3. PublicSince(Day * (now \div Day)) + n <= DayMicro
        /\ PublicSince(Month * (now \div Month)) + n <= MonthMicro
    BY <1>4 DEF ReserveForJob, WithinAllowance, DayOf, MonthOf
  <2> QED BY <1>1, <1>2, <2>1, <2>2, <2>3, PeriodReserve
<1>5. owner' = owner \/ \E now \in Recent, i \in Charge, j \in Job, n \in Amounts :
                           ReserveForJob(i, j, n, now)
  BY DEF TNext, tvars, trialVars, Prune, StartSession, Admit, Claim, ClaimNone, Finish,
         Recover, Settle, Elsewhere, Tick
<1> QED BY <1>3, <1>4, <1>5

-----------------------------------------------------------------------------
LEMMA InitTInv == TInit => TInv
<1> SUFFICES ASSUME TInit PROVE TInv
  OBVIOUS
<1>1. IInv
  BY InitIInv DEF TInit
<1>2. Tables /\ OneRunning /\ OwnedRows /\ OneRequestPerJob
  BY DEF TInit, Tables, JobRow, OneRunning, OwnedRows, OneRequestPerJob
<1>3. ASSUME NEW L \in Nat \ {0}, NEW m \in Nat PROVE InAllowance(L, m)
  <2> SUFFICES ASSUME NEW p \in Int PROVE PeriodBind(L, p) <= m
    BY DEF InAllowance
  <2>1. PeriodCol(L, p) \in [1..N -> Int]
    BY <1>1, PeriodColumns DEF IInv
  <2>2. \A i \in 1..N : PeriodCol(L, p)[i] = 0
    BY DEF PeriodCol, TInit, Charge
  <2>3. Total(PeriodCol(L, p), N) = 0
    BY <2>1, <2>2, TotalZero, LedgerAssumption
  <2> QED BY <2>3 DEF PeriodBind
<1>4. InAllowance(Day, DayMicro) /\ InAllowance(Month, MonthMicro)
  BY <1>3, TrialsAssumption, LedgerAssumption
<1> QED BY <1>1, <1>2, <1>4 DEF TInv

LEMMA StepTInv == TInv /\ [TNext]_tvars => TInv'
<1> SUFFICES ASSUME TInv, [TNext]_tvars PROVE TInv'
  OBVIOUS
<1>1. IInv'
  BY LedgerStep, StepIInv DEF TInv
<1>2. jobs' \in [Job -> JobRow] /\ OneRunning'
  BY JobsStep DEF TInv
<1> QED BY <1>1, <1>2, OwnersStep, AllowanceStep DEF TInv, Tables

\* The strengthening holds in every reachable state.
THEOREM TrialsInductive == TSpec => []TInv
BY InitTInv, StepTInv, PTL DEF TSpec

\* The recruiter tables implement the ledger: every reservation, settlement
\* and recovery is a step of the ledger, so its caps and latches hold of them.
THEOREM TrialsRefineLedger == TSpec => ImplementsLedger
<1>1. TInit => Init
  BY DEF TInit
<1>2. TInv /\ [TNext]_tvars => [Next]_vars
  BY LedgerStep
<1> QED BY <1>1, <1>2, TrialsInductive, PTL DEF TSpec, ImplementsLedger, Spec

\* A job makes one model request for ever (BrokerState.reserve), whatever
\* was settled, recovered or pruned.
THEOREM OneRequest == TSpec => []OneRequestPerJob
<1>1. TInv => OneRequestPerJob
  BY DEF TInv
<1> QED BY <1>1, TrialsInductive, PTL

\* Trials bind no more in a UTC day or month than their allowance, beside any
\* other public spending and in whatever order stamped rows commit.
THEOREM AllowancesHold == TSpec => []TrialAllowance
<1>1. TInv => TrialAllowance
  <2> SUFFICES ASSUME TInv PROVE TrialAllowance
    OBVIOUS
  <2>1. /\ Day \in Nat \ {0} /\ Month \in Nat \ {0} /\ Times \subseteq Int
    BY TrialsAssumption, LedgerAssumption
  <2>2. ASSUME NEW t \in Times
        PROVE  TrialsBind(DayOf, DayOf(t)) <= DayMicro
               /\ TrialsBind(MonthOf, MonthOf(t)) <= MonthMicro
    <3>1. DayOf(t) \in Int /\ MonthOf(t) \in Int
      BY <2>1, PeriodStart DEF DayOf, MonthOf
    <3>2. TrialsBind(DayOf, DayOf(t)) = PeriodBind(Day, DayOf(t))
      BY DEF TrialsBind, DayOf, PeriodBind, PeriodCol
    <3>3. TrialsBind(MonthOf, MonthOf(t)) = PeriodBind(Month, MonthOf(t))
      BY DEF TrialsBind, MonthOf, PeriodBind, PeriodCol
    <3> QED BY <3>1, <3>2, <3>3 DEF TInv, InAllowance
  <2> QED BY <2>2 DEF TrialAllowance
<1> QED BY <1>1, TrialsInductive, PTL

-----------------------------------------------------------------------------
(* The limits of admission.                                                *)

SessionRow == [status : {"none", "live", "gone"}, client : Client \cup {"nobody"},
               created : Int, used : BOOLEAN]

\* Whatever was pruned is older than what any call still counts, though it
\* read its clock before it waited for the lock.
Forgotten ==
    /\ \A s \in Session : sessions[s].status = "gone" => sessions[s].created + SessionTTL < clock
    /\ \A j \in Job : jobs[j].status = "gone" => jobs[j].created < clock - Retention

\* A job that was admitted used up a session, and no two the same.
Sessioned == \A j \in Admitted :
    /\ jobs[j].session \in Session
    /\ sessions[jobs[j].session].status # "none" /\ sessions[jobs[j].session].used

AInv ==
    /\ clock \in Times /\ sessions \in [Session -> SessionRow]
    /\ Forgotten /\ Sessioned /\ TrialLimits

LEMMA Finite ==
    /\ \A S \in SUBSET Session : IsFiniteSet(S) /\ Cardinality(S) \in Nat
    /\ \A S \in SUBSET Job : IsFiniteSet(S) /\ Cardinality(S) \in Nat
<1>1. NSessions \in Nat /\ NJobs \in Nat
  BY TrialsAssumption
<1>2. IsFiniteSet(Session) /\ IsFiniteSet(Job)
  BY <1>1, FS_Interval DEF Session, Job
<1>3. \A S \in SUBSET Session : IsFiniteSet(S)
  BY <1>2, FS_Subset
<1>4. \A S \in SUBSET Job : IsFiniteSet(S)
  BY <1>2, FS_Subset
<1> QED BY <1>3, <1>4, FS_CardinalityType

LEMMA Clock ==
    ASSUME clock \in Times, NEW now \in Recent
    PROVE  now \in Int /\ clock \in Int /\ clock - Lag <= now /\ now <= clock
BY TrialsAssumption DEF Recent

\* The client of a session and of a job, the stamp of a job, and what was
\* admitted stay.
Stays ==
    /\ \A s \in Session : sessions[s].status # "none" =>
          /\ sessions'[s].status # "none" /\ sessions'[s].client = sessions[s].client
          /\ sessions'[s].created = sessions[s].created
          /\ sessions[s].used => sessions'[s].used
    /\ \A j \in Admitted : jobs'[j].session = jobs[j].session
                           /\ jobs'[j].created = jobs[j].created

\* A step that admits nothing keeps what is said of admitted jobs.
LEMMA NothingAdmitted ==
    ASSUME Sessioned, SessionSingleUse, OneTrialPerDay, Stays, Admitted' = Admitted,
           Admitted \subseteq Job
    PROVE  Sessioned' /\ SessionSingleUse' /\ OneTrialPerDay'
<1>1. ASSUME NEW j \in Admitted
      PROVE  /\ jobs'[j].session = jobs[j].session /\ jobs'[j].created = jobs[j].created
             /\ jobs[j].session \in Session /\ sessions'[jobs[j].session].status # "none"
             /\ sessions'[jobs[j].session].used
             /\ sessions'[jobs[j].session].client = sessions[jobs[j].session].client
  BY DEF Sessioned, Stays
<1>2. \A j \in Admitted : ClientOf(j)' = ClientOf(j) /\ DayOf(jobs'[j].created) = DayOf(jobs[j].created)
  BY <1>1 DEF ClientOf
<1>3. Sessioned'
  BY <1>1 DEF Sessioned
<1>4. SessionSingleUse'
  BY <1>1 DEF SessionSingleUse
<1>5. OneTrialPerDay'
  BY <1>2 DEF OneTrialPerDay
<1> QED BY <1>3, <1>4, <1>5

\* A step that starts no session keeps the rates.
LEMMA NothingStarted ==
    ASSUME SessionRate, Stays,
           \A s \in Session : sessions[s].status = "none" => sessions'[s].status = "none"
    PROVE  SessionRate'
<1> SUFFICES ASSUME NEW t \in Times
             PROVE  /\ Cardinality(Started(t)') <= PerWindow
                    /\ \A c \in Client :
                          Cardinality({s \in Started(t)' : sessions'[s].client = c}) <= PerClient
  BY Zenon DEF SessionRate
<1>1. Started(t)' = Started(t)
  BY DEF Started, Stays
<1>2. Cardinality(Started(t)') <= PerWindow
  BY <1>1 DEF SessionRate
<1>3. ASSUME NEW c \in Client
      PROVE  Cardinality({s \in Started(t)' : sessions'[s].client = c}) <= PerClient
  <2>1. {s \in Started(t)' : sessions'[s].client = c} = {s \in Started(t) : sessions[s].client = c}
    BY <1>1 DEF Started, Stays
  <2> QED BY <2>1 DEF SessionRate
<1> QED BY <1>2, <1>3

\* A step that queues nothing and claims nothing keeps the queue's bounds.
LEMMA NothingQueued ==
    ASSUME AdmissionBounds, Tables, jobs' \in [Job -> JobRow], OneRunning',
           Is({"queued"})' \subseteq Is({"queued"})
    PROVE  AdmissionBounds'
<1>1. Cardinality(Is({"queued"})') <= Cardinality(Is({"queued"}))
      /\ Cardinality(Is({"queued"})') \in Nat /\ Cardinality(Is({"queued"})) \in Nat
  BY Finite, FS_Subset DEF Is
<1>2. Cardinality(Is({"running"})') <= 1
  <2>1. CASE Is({"running"})' = {}
    BY <2>1, FS_EmptySet
  <2>2. CASE Is({"running"})' # {}
    <3>1. PICK j \in Job : j \in Is({"running"})'
      BY <2>2 DEF Is
    <3>2. Is({"running"})' = {j}
      BY <3>1 DEF Is, OneRunning
    <3>3. Cardinality(Is({"running"})') = 1
      BY <3>2, FS_Singleton, Zenon
    <3> QED BY <3>3
  <2> QED BY <2>1, <2>2
<1> QED BY <1>1, <1>2 DEF AdmissionBounds

-----------------------------------------------------------------------------
(* The operations, one by one.                                             *)

\* What the tables hold before a step, and what a step may be assumed to
\* keep of them.
Before == TInv /\ AInv /\ jobs' \in [Job -> JobRow] /\ OneRunning'
Goal == AInv'

LEMMA PruneStep ==
    ASSUME Before, NEW now \in Recent, jobs' = PrunedJobs(now), sessions' = PrunedSessions(now),
           clock' = clock
    PROVE  Goal
<1> USE DEF Before, Goal
<1>1. now \in Int /\ clock \in Int /\ now <= clock /\ SessionTTL \in Nat /\ Retention \in Nat
  BY Clock, TrialsAssumption DEF AInv
<1>2. /\ \A j \in Job : /\ jobs'[j].session = jobs[j].session /\ jobs'[j].created = jobs[j].created
                        /\ \/ jobs'[j].status = jobs[j].status
                           \/ /\ jobs'[j].status = "gone" /\ jobs[j].status \in Terminal
                              /\ jobs[j].created < now - Retention
      /\ \A s \in Session :
            /\ sessions'[s].client = sessions[s].client /\ sessions'[s].used = sessions[s].used
            /\ sessions'[s].created = sessions[s].created
            /\ \/ sessions'[s].status = sessions[s].status
               \/ /\ sessions'[s].status = "gone" /\ sessions[s].status = "live"
                  /\ sessions[s].created + SessionTTL < now
      /\ sessions' \in [Session -> SessionRow]
  BY DEF TInv, AInv, Tables, JobRow, SessionRow, PrunedJobs, PrunedSessions
<1>3. Stays /\ Admitted' = Admitted /\ Admitted \subseteq Job
      /\ Is({"queued"})' \subseteq Is({"queued"})
      /\ \A s \in Session : sessions[s].status = "none" => sessions'[s].status = "none"
  BY <1>2 DEF Stays, Admitted, Is, Terminal
<1>4. Forgotten'
  BY <1>1, <1>2 DEF AInv, Forgotten, TInv, Tables, JobRow, SessionRow
<1> QED BY <1>2, <1>3, <1>4, NothingAdmitted, NothingStarted, NothingQueued
        DEF AInv, TInv, TrialLimits

\* A step on the jobs alone: a status changes, from one of an admitted job
\* to another, and none is queued.
LEMMA JobStep ==
    ASSUME Before, UNCHANGED <<sessions, clock>>,
           \A j \in Job : /\ jobs'[j].session = jobs[j].session /\ jobs'[j].created = jobs[j].created
                          /\ \/ jobs'[j].status = jobs[j].status
                             \/ /\ jobs[j].status \notin {"none", "gone"}
                                /\ jobs'[j].status \notin {"none", "gone", "queued"}
    PROVE  Goal
<1> USE DEF Before, Goal
<1>1. Stays /\ Admitted' = Admitted /\ Admitted \subseteq Job
      /\ Is({"queued"})' \subseteq Is({"queued"})
      /\ \A s \in Session : sessions[s].status = "none" => sessions'[s].status = "none"
  BY DEF Stays, Admitted, Is
<1>2. Forgotten'
  BY DEF AInv, Forgotten
<1> QED BY <1>1, <1>2, NothingAdmitted, NothingStarted, NothingQueued
        DEF AInv, TInv, TrialLimits

LEMMA StatusSteps ==
    ASSUME Before, NEW now \in Recent,
           \/ \E j \in Job : Claim(j, now)
           \/ ClaimNone(now)
           \/ \E j \in Job, result \in {"finished", "interrupted"} : Finish(j, result)
           \/ Recover
    PROVE  Goal
<1> USE DEF TInv, Tables, JobRow
<1> DEFINE Moves(t) ==
      \A j \in Job : /\ t[j].session = jobs[j].session /\ t[j].created = jobs[j].created
                     /\ \/ t[j].status = jobs[j].status
                        \/ /\ jobs[j].status \notin {"none", "gone"}
                           /\ t[j].status \notin {"none", "gone", "queued"}
<1>1. Expired(now) \in [Job -> JobRow] /\ Moves(Expired(now))
  BY DEF Before, Expired
<1>2. ASSUME NEW j \in Job, Claim(j, now) PROVE Moves(jobs')
  <2>1. Expired(now)[j].status = "queued" /\ jobs' = [Expired(now) EXCEPT ![j].status = "running"]
    BY <1>2 DEF Claim, Oldest
  <2>2. jobs[j].status = "queued"
    BY <2>1 DEF Expired, Before
  <2> QED BY <1>1, <2>1, <2>2
<1>3. CASE ClaimNone(now)
  <2>1. jobs' = Expired(now)
    BY <1>3 DEF ClaimNone
  <2> HIDE DEF Moves
  <2>2. Moves(jobs')
    BY <1>1, <2>1
  <2> USE DEF Moves
  <2> QED BY <1>3, <2>2, JobStep DEF ClaimNone
<1>4. ASSUME NEW j \in Job, NEW result \in {"finished", "interrupted"}, Finish(j, result)
      PROVE  Moves(jobs')
  BY <1>4 DEF Finish, Before
<1>5. CASE Recover
  <2>1. Moves(jobs')
    BY <1>5 DEF Recover, Before
  <2> QED BY <1>5, <2>1, JobStep DEF Recover
<1>6. CASE \E j \in Job : Claim(j, now)
  BY <1>2, <1>6, JobStep DEF Claim
<1>7. CASE \E j \in Job, result \in {"finished", "interrupted"} : Finish(j, result)
  BY <1>4, <1>7, JobStep DEF Finish
<1> QED BY <1>3, <1>5, <1>6, <1>7

\* The sessions that a window of the past may count are still counted.
LEMMA StillCounted ==
    ASSUME AInv, NEW now \in Recent, NEW t \in Int, now <= t,
           NEW s \in Session, s \in Started(t)
    PROVE  s \in Young(now) /\ PrunedSessions(now)[s].status = "live"
<1>1. now \in Int /\ clock \in Int /\ Lag \in Nat /\ Window \in Nat /\ SessionTTL \in Nat
      /\ clock - Lag <= now /\ now <= clock /\ Window + Lag <= SessionTTL + 1
  BY Clock, TrialsAssumption DEF AInv
<1>2. sessions[s].created \in Int /\ sessions[s].status \in {"none", "live", "gone"}
      /\ sessions[s].status # "none" /\ t - Window < sessions[s].created
  BY DEF AInv, SessionRow, Started
<1>3. sessions[s].status = "live"
  BY <1>1, <1>2 DEF AInv, Forgotten
<1> QED BY <1>1, <1>2, <1>3 DEF Young, PrunedSessions

LEMMA StartStep ==
    ASSUME Before, NEW s \in Session, NEW c \in Client, NEW now \in Recent, StartSession(s, c, now)
    PROVE  Goal
<1> USE DEF Before, Goal
<1> DEFINE row == [status |-> "live", client |-> c, created |-> now, used |-> FALSE]
           young == {r \in Young(now) : PrunedSessions(now)[r].status = "live"}
<1>1. /\ now \in Int /\ clock \in Int /\ now <= clock
      /\ SessionTTL \in Nat /\ Retention \in Nat /\ Window \in Nat
      /\ Times \subseteq Int /\ PerWindow \in Nat /\ PerClient \in Nat
  BY Clock, TrialsAssumption DEF AInv
<1>2. /\ sessions[s].status = "none"
      /\ Cardinality({r \in young : sessions[r].client = c}) < PerClient
      /\ Cardinality(young) < PerWindow
      /\ jobs' = PrunedJobs(now) /\ sessions' = [PrunedSessions(now) EXCEPT ![s] = row]
      /\ clock' = clock
  BY DEF StartSession
<1>3. /\ \A j \in Job : /\ jobs'[j].session = jobs[j].session /\ jobs'[j].created = jobs[j].created
                        /\ \/ jobs'[j].status = jobs[j].status
                           \/ /\ jobs'[j].status = "gone" /\ jobs[j].status \in Terminal
                              /\ jobs[j].created < now - Retention
      /\ \A r \in Session \ {s} :
            /\ sessions'[r].client = sessions[r].client /\ sessions'[r].used = sessions[r].used
            /\ sessions'[r].created = sessions[r].created
            /\ \/ sessions'[r].status = sessions[r].status
               \/ /\ sessions'[r].status = "gone" /\ sessions[r].status = "live"
                  /\ sessions[r].created + SessionTTL < now
      /\ sessions'[s] = row
      /\ sessions' \in [Session -> SessionRow]
  <2> HIDE DEF row
  <2>1. row \in SessionRow
    BY <1>1 DEF SessionRow, row
  <2>2. PrunedSessions(now) \in [Session -> SessionRow]
    BY DEF AInv, SessionRow, PrunedSessions
  <2>3. sessions' \in [Session -> SessionRow] /\ sessions'[s] = row
        /\ \A r \in Session \ {s} : sessions'[r] = PrunedSessions(now)[r]
    BY <1>2, <2>1, <2>2
  <2>4. ASSUME NEW j \in Job
        PROVE  /\ jobs'[j].session = jobs[j].session /\ jobs'[j].created = jobs[j].created
               /\ \/ jobs'[j].status = jobs[j].status
                  \/ /\ jobs'[j].status = "gone" /\ jobs[j].status \in Terminal
                     /\ jobs[j].created < now - Retention
    BY <1>2 DEF TInv, Tables, JobRow, PrunedJobs
  <2>5. ASSUME NEW r \in Session \ {s}
        PROVE  /\ sessions'[r].client = sessions[r].client /\ sessions'[r].used = sessions[r].used
               /\ sessions'[r].created = sessions[r].created
               /\ \/ sessions'[r].status = sessions[r].status
                  \/ /\ sessions'[r].status = "gone" /\ sessions[r].status = "live"
                     /\ sessions[r].created + SessionTTL < now
    BY <2>3 DEF AInv, SessionRow, PrunedSessions
  <2> QED BY <2>3, <2>4, <2>5
<1>4. Stays /\ Admitted' = Admitted /\ Admitted \subseteq Job
      /\ Is({"queued"})' \subseteq Is({"queued"})
  <2> HIDE DEF row, young
  <2>1. \A j \in Job : /\ jobs'[j].status # "none" <=> jobs[j].status # "none"
                       /\ jobs'[j].status = "queued" => jobs[j].status = "queued"
    BY <1>3 DEF Terminal
  <2>2. Admitted' = Admitted /\ Admitted \subseteq Job
        /\ Is({"queued"})' \subseteq Is({"queued"})
    BY <2>1 DEF Admitted, Is
  <2>3. ASSUME NEW r \in Session, sessions[r].status # "none"
        PROVE  /\ sessions'[r].status # "none" /\ sessions'[r].client = sessions[r].client
               /\ sessions'[r].created = sessions[r].created
               /\ sessions[r].used => sessions'[r].used
    <3>1. r \in Session \ {s}
      BY <1>2, <2>3
    <3> QED BY <1>3, <2>3, <3>1
  <2> QED BY <1>3, <2>2, <2>3 DEF Stays
<1>5. Forgotten'
  <2>1. ASSUME NEW j \in Job, jobs'[j].status = "gone"
        PROVE  jobs'[j].created < clock' - Retention
    BY <1>1, <1>2, <1>3, <2>1 DEF AInv, Forgotten, TInv, Tables, JobRow
  <2>2. ASSUME NEW r \in Session, sessions'[r].status = "gone"
        PROVE  sessions'[r].created + SessionTTL < clock'
    <3>1. r \in Session \ {s}
      BY <1>3, <2>2
    <3> QED BY <1>1, <1>2, <1>3, <2>2, <3>1 DEF AInv, Forgotten, SessionRow
  <2> QED BY <2>1, <2>2 DEF Forgotten
<1>6. SessionRate'
  <2> SUFFICES ASSUME NEW t \in Times
               PROVE  /\ Cardinality(Started(t)') <= PerWindow
                      /\ \A d \in Client :
                            Cardinality({r \in Started(t)' : sessions'[r].client = d}) <= PerClient
    BY Zenon DEF SessionRate
  <2>1. \A r \in Session \ {s} : r \in Started(t)' <=> r \in Started(t)
    BY <1>3 DEF Started
  <2>2. Started(t) \subseteq Session \ {s}
    BY <1>2 DEF Started
  <2>3. CASE s \notin Started(t)'
    <3>1. Started(t)' = Started(t)
      BY <2>1, <2>2, <2>3 DEF Started
    <3>2. ASSUME NEW d \in Client
          PROVE  {r \in Started(t)' : sessions'[r].client = d} = {r \in Started(t) : sessions[r].client = d}
      BY <1>3, <2>2, <3>1
    <3>3. Cardinality(Started(t)') <= PerWindow
      BY <3>1 DEF AInv, TrialLimits, SessionRate
    <3>4. \A d \in Client :
             Cardinality({r \in Started(t)' : sessions'[r].client = d}) <= PerClient
      BY <3>2 DEF AInv, TrialLimits, SessionRate
    <3> QED BY <3>3, <3>4
  <2>4. CASE s \in Started(t)'
    <3>1. t \in Int /\ now <= t
      <4>1. sessions'[s].created = now
        BY <1>3
      <4> QED BY <1>1, <2>4, <4>1 DEF Started
    <3>2. Started(t) \subseteq young
      BY <3>1, StillCounted DEF Started
    <3>3. young \in SUBSET Session
      BY DEF Young
    <3>4. Started(t)' = Started(t) \cup {s}
      BY <2>1, <2>2, <2>4 DEF Started
    <3>5. Cardinality(Started(t)') <= PerWindow
      <4>1. Cardinality(Started(t)) <= Cardinality(young) /\ Cardinality(young) \in Nat
            /\ Cardinality(Started(t)) \in Nat
        BY <3>2, <3>3, Finite, FS_Subset
      <4>2. Cardinality(Started(t) \cup {s}) = Cardinality(Started(t)) + 1
        BY <2>2, <3>2, <3>3, Finite, FS_AddElement
      <4>3. Cardinality(Started(t)') = Cardinality(Started(t)) + 1
        BY <3>4, <4>2, Zenon
      <4>4. Cardinality(young) < PerWindow /\ PerWindow \in Nat
        BY <1>1, <1>2
      <4> HIDE DEF young
      <4> QED BY <4>1, <4>3, <4>4
    <3>6. ASSUME NEW d \in Client
          PROVE  Cardinality({r \in Started(t)' : sessions'[r].client = d}) <= PerClient
      <4> DEFINE old == {r \in Started(t) : sessions[r].client = d}
                 mine == {r \in young : sessions[r].client = c}
      <4>1. CASE d # c
        <5>1. {r \in Started(t)' : sessions'[r].client = d} = old
          BY <1>3, <2>2, <3>4, <4>1
        <5> QED BY <5>1 DEF AInv, TrialLimits, SessionRate
      <4>2. CASE d = c
        <5>1. {r \in Started(t)' : sessions'[r].client = d} = old \cup {s}
          BY <1>3, <2>2, <3>4, <4>2
        <5>2. old \subseteq mine /\ mine \in SUBSET Session /\ s \notin old
          BY <2>2, <3>2, <3>3, <4>2
        <5>3. Cardinality(old) <= Cardinality(mine) /\ Cardinality(mine) \in Nat
              /\ Cardinality(old) \in Nat
          <6> HIDE DEF old, mine
          <6> QED BY <5>2, Finite, FS_Subset
        <5>4. Cardinality(old \cup {s}) = Cardinality(old) + 1
          <6> HIDE DEF old, mine
          <6> QED BY <5>2, Finite, FS_AddElement
        <5>5. Cardinality({r \in Started(t)' : sessions'[r].client = d}) = Cardinality(old) + 1
          <6> HIDE DEF old
          <6> QED BY <5>1, <5>4, Zenon
        <5>6. Cardinality(mine) < PerClient /\ PerClient \in Nat
          BY <1>1, <1>2
        <5> HIDE DEF old, mine
        <5> QED BY <5>3, <5>5, <5>6
      <4> QED BY <4>1, <4>2
    <3> QED BY <3>5, <3>6
  <2> QED BY <2>3, <2>4
<1> QED BY <1>2, <1>3, <1>4, <1>5, <1>6, NothingAdmitted, NothingQueued
        DEF AInv, TInv, TrialLimits

\* A trial of today is a row that admission still finds.
LEMMA FoundToday ==
    ASSUME Before, NEW now \in Recent, NEW k \in Admitted,
           DayOf(jobs[k].created) = DayOf(now)
    PROVE  Kept(jobs[k].status) /\ jobs[k].created >= Day * DayOf(now)
<1>1. now \in Int /\ clock \in Int /\ Lag \in Nat /\ Day \in Nat \ {0} /\ Retention \in Nat
      /\ clock - Lag <= now /\ now <= clock /\ Day + Lag <= Retention + 1
  BY Clock, TrialsAssumption, LedgerAssumption DEF Before, AInv
<1>2. jobs[k].created \in Int /\ jobs[k].status # "none"
  BY DEF Before, TInv, Tables, JobRow, Admitted
<1>3. Day * DayOf(now) <= jobs[k].created
  BY <1>1, <1>2, PeriodStart DEF DayOf
<1>4. now < Day * DayOf(now) + Day /\ Day * DayOf(now) \in Int
  BY <1>1 DEF DayOf
<1>5. jobs[k].status # "gone"
  BY <1>1, <1>2, <1>3, <1>4 DEF Before, AInv, Forgotten, Admitted
<1> QED BY <1>2, <1>3, <1>5 DEF Kept

LEMMA AdmitStep ==
    ASSUME Before, NEW now \in Recent, NEW j \in Job, NEW s \in Session, Admit(j, s, now)
    PROVE  Goal
<1> USE DEF Before, Goal
<1>1. /\ jobs[j].status = "none" /\ sessions[s].status = "live" /\ ~sessions[s].used
      /\ ~HadTrialOn(sessions[s].client, now) /\ QueueHasRoom(Expired(now))
      /\ sessions' = [sessions EXCEPT ![s].used = TRUE] /\ clock' = clock
      /\ jobs' = [Expired(now) EXCEPT ![j] =
                     [status |-> "queued", session |-> s, created |-> now]]
  BY DEF Admit
<1>2. /\ \A k \in Job \ {j} :
            /\ jobs'[k].session = jobs[k].session /\ jobs'[k].created = jobs[k].created
            /\ Expired(now)[k].status = jobs'[k].status
            /\ \/ jobs'[k].status = jobs[k].status
               \/ jobs'[k].status = "expired" /\ jobs[k].status = "queued"
      /\ jobs'[j].status = "queued" /\ jobs'[j].session = s /\ jobs'[j].created = now
      /\ Expired(now)[j].status = "none"
  BY <1>1 DEF TInv, Tables, JobRow, Expired
<1>3. /\ sessions' \in [Session -> SessionRow] /\ sessions'[s].used
      /\ \A r \in Session : /\ sessions'[r].status = sessions[r].status
                            /\ sessions'[r].client = sessions[r].client
                            /\ sessions'[r].created = sessions[r].created
                            /\ sessions[r].used => sessions'[r].used
  BY <1>1 DEF AInv, SessionRow
<1>4. Admitted' = Admitted \cup {j} /\ j \notin Admitted /\ Admitted \subseteq Job
  BY <1>1, <1>2 DEF Admitted
<1>5. Stays
  BY <1>2, <1>3, <1>4 DEF Stays
<1>6. SessionRate'
  BY <1>3, <1>5, NothingStarted DEF AInv, TrialLimits
<1>7. Forgotten'
  BY <1>1, <1>2, <1>3 DEF AInv, Forgotten
<1>8. \A k \in Admitted : /\ jobs'[k].session = jobs[k].session /\ jobs'[k].created = jobs[k].created
                          /\ jobs[k].session \in Session /\ k # j
                          /\ sessions[jobs[k].session].status # "none"
                          /\ sessions[jobs[k].session].used /\ jobs[k].session # s
  BY <1>1, <1>2, <1>4 DEF AInv, Sessioned
<1>9. Sessioned'
  BY <1>1, <1>2, <1>3, <1>4, <1>8 DEF Sessioned
<1>10. SessionSingleUse'
  BY <1>2, <1>4, <1>8 DEF SessionSingleUse, AInv, TrialLimits
<1>11. OneTrialPerDay'
  <2>1. \A k \in Admitted : ClientOf(k)' = ClientOf(k)
    BY <1>3, <1>8 DEF ClientOf
  <2>2. ClientOf(j)' = sessions[s].client
    BY <1>2, <1>3 DEF ClientOf
  <2>3. ASSUME NEW k \in Admitted, ClientOf(k) = sessions[s].client,
               DayOf(jobs[k].created) = DayOf(now)
        PROVE  FALSE
    <3>1. Kept(jobs[k].status) /\ jobs[k].created >= Day * DayOf(now)
      BY <2>3, FoundToday
    <3> QED BY <1>1, <1>4, <2>3, <3>1 DEF HadTrialOn
  <2> QED BY <1>2, <1>4, <1>8, <2>1, <2>2, <2>3 DEF OneTrialPerDay, AInv, TrialLimits
<1>12. AdmissionBounds'
  <2> DEFINE waiting == {k \in Job : Expired(now)[k].status = "queued"}
  <2>1. Cardinality(waiting) < 2
    BY <1>1 DEF QueueHasRoom
  <2>2. Is({"queued"})' = waiting \cup {j} /\ waiting \in SUBSET Job /\ j \notin waiting
    BY <1>2 DEF Is
  <2>3. Cardinality(Is({"queued"})') <= 2
    <3> HIDE DEF waiting
    <3>1. Cardinality(waiting \cup {j}) = Cardinality(waiting) + 1 /\ Cardinality(waiting) \in Nat
      BY <2>2, Finite, FS_AddElement
    <3>2. Cardinality(Is({"queued"})') = Cardinality(waiting) + 1
      BY <2>2, <3>1, Zenon
    <3> QED BY <2>1, <3>1, <3>2
  <2>4. Is({"running"})' \subseteq Is({"running"})
    BY <1>2 DEF Is
  <2>5. Cardinality(Is({"running"})') <= 1
    <3>1. Cardinality(Is({"running"})') <= Cardinality(Is({"running"}))
          /\ Cardinality(Is({"running"})') \in Nat /\ Cardinality(Is({"running"})) \in Nat
      BY <2>4, Finite, FS_Subset DEF Is
    <3> QED BY <3>1 DEF AInv, TrialLimits, AdmissionBounds
  <2> QED BY <2>3, <2>5 DEF AdmissionBounds
<1> QED BY <1>1, <1>3, <1>6, <1>7, <1>9, <1>10, <1>11, <1>12 DEF AInv, TrialLimits

\* Time passes, or the step is not one of the tables.
LEMMA ClockStep ==
    ASSUME Before, UNCHANGED <<sessions, jobs>>, clock' = clock \/ \E t \in Times : Tick(t)
    PROVE  Goal
<1> USE DEF Before, Goal
<1>1. clock' \in Times /\ clock' \in Int /\ clock \in Int /\ clock <= clock'
  BY TrialsAssumption DEF AInv, Tick
<1>2. Stays /\ Admitted' = Admitted /\ Admitted \subseteq Job
      /\ Is({"queued"})' \subseteq Is({"queued"})
  BY DEF Stays, Admitted, Is
<1>3. Forgotten'
  BY <1>1, TrialsAssumption DEF AInv, Forgotten, TInv, Tables, JobRow, SessionRow
<1> QED BY <1>1, <1>2, <1>3, NothingAdmitted, NothingStarted, NothingQueued
        DEF AInv, TInv, TrialLimits

-----------------------------------------------------------------------------
LEMMA InitAInv == TInit => AInv
<1> SUFFICES ASSUME TInit PROVE AInv
  OBVIOUS
<1>1. clock \in Times /\ sessions \in [Session -> SessionRow] /\ Admitted = {}
  BY DEF TInit, SessionRow, Admitted
<1>2. Forgotten /\ Sessioned /\ SessionSingleUse /\ OneTrialPerDay
  BY <1>1 DEF TInit, Forgotten, Sessioned, SessionSingleUse, OneTrialPerDay
<1>3. AdmissionBounds
  <2>1. Is({"running"}) = {} /\ Is({"queued"}) = {}
    BY DEF TInit, Is
  <2>2. Cardinality({}) = 0
    BY FS_EmptySet
  <2>3. Cardinality(Is({"running"})) = 0 /\ Cardinality(Is({"queued"})) = 0
    BY <2>1, <2>2, Zenon
  <2> QED BY <2>3 DEF AdmissionBounds
<1>4. ASSUME NEW t \in Times, NEW c
      PROVE  Started(t) = {} /\ {s \in Started(t) : sessions[s].client = c} = {}
  BY DEF TInit, Started
<1>5. SessionRate
  BY <1>4, FS_EmptySet, TrialsAssumption DEF SessionRate
<1> QED BY <1>1, <1>2, <1>3, <1>5 DEF AInv, TrialLimits

LEMMA StepAInv == TInv /\ AInv /\ [TNext]_tvars => AInv'
<1> SUFFICES ASSUME TInv, AInv, [TNext]_tvars PROVE AInv'
  OBVIOUS
<1>1. Before
  BY JobsStep DEF Before, TInv
<1>2. \/ \E now \in Recent : Prune(now)
      \/ \E now \in Recent, s \in Session, c \in Client : StartSession(s, c, now)
      \/ \E now \in Recent, j \in Job, s \in Session : Admit(j, s, now)
      \/ \E now \in Recent : \/ \E j \in Job : Claim(j, now)
                             \/ ClaimNone(now)
      \/ \E j \in Job, result \in {"finished", "interrupted"} : Finish(j, result)
      \/ Recover
      \/ UNCHANGED <<sessions, jobs>> /\ (clock' = clock \/ \E t \in Times : Tick(t))
  BY DEF TNext, tvars, trialVars, ReserveForJob, Settle, Elsewhere, Tick
<1>3. clock \in Recent
  BY TrialsAssumption DEF AInv, Recent
<1>4. CASE \E now \in Recent : Prune(now)
  BY <1>1, <1>4, PruneStep DEF Goal, Prune
<1> QED BY <1>1, <1>2, <1>3, <1>4, StartStep, AdmitStep, StatusSteps, ClockStep DEF Goal

\* What admission promises holds at every moment: one trial runs and two
\* wait at most, a session starts one, a client has one in a day, and no
\* window holds more sessions than the rates (BrokerState.admit and
\* start_session), though claims, recoveries and pruning go on between.
THEOREM LimitsHold == TSpec => []TrialLimits
<1>1. AInv => TrialLimits
  BY DEF AInv
<1> QED BY <1>1, InitAInv, StepAInv, TrialsInductive, PTL DEF TSpec

-----------------------------------------------------------------------------
(* The broker.                                                             *)

Result == {"none", "finished", "interrupted"}

BTypes ==
    /\ proc \in {"down", "up", "stopping", "stuck", "closed"}
    /\ worker \in [pc : {"gone", "idle", "episode", "calling", "finishing", "dead"},
                   job : {0} \cup Job, call : {0} \cup Charge, result : Result]
    /\ late \in [does : {"nothing", "claim", "finish"}, job : {0} \cup Job, result : Result]
    /\ budget \in [stops : Nat, kills : Nat, errors : Nat]
    /\ worker.pc \in {"episode", "calling", "finishing"} => worker.job \in Job
    /\ worker.pc = "calling" => worker.call \in Charge
    /\ worker.pc = "finishing" => worker.result # "none"
    /\ late.does = "finish" => late.job \in Job /\ late.result # "none"

-----------------------------------------------------------------------------
(* Every step is a step of Trials.                                         *)

LEMMA TrialsStep ==
    ASSUME BTypes, [BNext]_bvars
    PROVE  [TNext]_tvars
<1>1. CASE UNCHANGED bvars
  BY <1>1 DEF bvars
<1>2. CASE UNCHANGED tvars
  BY <1>2
<1>3. ASSUME NEW now \in Recent,
             RequestSession(now) \/ Submit(now) \/ WorkerPrune(now)
             \/ WorkerClaim(now)
      PROVE  TNext
  BY <1>3 DEF RequestSession, Submit, WorkerPrune, WorkerClaim, TNext
<1>4. ASSUME NEW now \in Recent, WorkerReserve(now) PROVE TNext
  BY <1>4 DEF WorkerReserve, BTypes, TNext
<1>5. ASSUME NEW now \in Recent, LateThread(now) PROVE TNext
  <2>1. late.does = "finish" => late.job \in Job /\ late.result \in {"finished", "interrupted"}
    BY DEF BTypes, Result
  <2> QED BY <1>5, <2>1 DEF LateThread, TNext
<1>6. CASE WorkerFinish
  <2>1. worker.job \in Job /\ worker.result \in {"finished", "interrupted"}
    BY <1>6 DEF WorkerFinish, BTypes, Result
  <2> QED BY <1>6, <2>1 DEF WorkerFinish, TNext
<1>7. ASSUME worker.pc = "calling",
             \/ \E cost \in Bills : Ends(SettleReported(worker.call, cost))
             \/ Ends(SettleUnknown(worker.call)) \/ Ends(Deny(worker.call))
             \/ Ends(Crash(worker.call))
      PROVE  TNext
  <2>1. worker.call \in Charge
    BY <1>7 DEF BTypes
  <2>2. Settle(worker.call)
    BY <1>7 DEF Settle, Ends
  <2> QED BY <2>1, <2>2 DEF TNext
<1>8. CASE WorkerSettle \/ WorkerDenied \/ WorkerSettleFails
  BY <1>7, <1>8 DEF WorkerSettle, WorkerDenied, WorkerSettleFails, Ends
<1>9. CASE EpisodeTimeout \/ WorkerCancelled \/ CancelSwallowed \/ Kill
  BY <1>7, <1>9 DEF EpisodeTimeout, WorkerCancelled, CancelSwallowed, Kill, Ends
<1>10. CASE Boot \/ CloseDown
  BY <1>10 DEF Boot, CloseDown, TNext
<1>11. CASE Unrelated
  BY <1>11 DEF Unrelated, TNext
<1>12. CASE Time
  BY <1>12 DEF Time, TNext
<1>13. CASE EpisodeEnds \/ WorkerDies \/ Shutdown \/ CloseDead \/ Exit
  BY <1>13 DEF EpisodeEnds, WorkerDies, Shutdown, CloseDead, Exit
<1> QED BY <1>1, <1>2, <1>3, <1>4, <1>5, <1>6, <1>8, <1>9, <1>10, <1>11, <1>12, <1>13
        DEF BNext, WorkerStep

LEMMA BTypesStep ==
    ASSUME BTypes, [BNext]_bvars
    PROVE  BTypes'
<1> USE DEF BTypes, Result, Spend, Fails
<1>1. CASE UNCHANGED brokerVars
  BY <1>1 DEF brokerVars
<1>2. ASSUME NEW now \in Recent, WorkerClaim(now) PROVE BTypes'
  <2>1. UNCHANGED <<proc, late, budget>>
    BY <1>2 DEF WorkerClaim
  <2>2. worker' = worker \/ \E j \in Job :
            worker' = [pc |-> "episode", job |-> j, call |-> 0, result |-> "none"]
    BY <1>2 DEF WorkerClaim, Idle
  <2> QED BY <2>1, <2>2
<1>3. ASSUME NEW now \in Recent, WorkerReserve(now) PROVE BTypes'
  <2>1. PICK i \in Charge : worker' = [worker EXCEPT !.pc = "calling", !.call = i]
    BY <1>3 DEF WorkerReserve
  <2>2. worker.pc = "episode" /\ UNCHANGED <<proc, late, budget>>
    BY <1>3 DEF WorkerReserve
  <2>3. worker' = [pc |-> "calling", job |-> worker.job, call |-> i, result |-> worker.result]
    BY <2>1
  <2> QED BY <2>2, <2>3
<1>4. CASE WorkerSettle
  BY <1>4 DEF WorkerSettle
<1>5. CASE WorkerSettleFails \/ CancelSwallowed
  <2>1. worker' = [worker EXCEPT !.pc = "finishing", !.call = 0, !.result = "finished"]
        /\ worker.pc = "calling" /\ late' = late /\ proc' \in {proc, "stuck"}
        /\ budget' = [budget EXCEPT !["errors"] = @ + 1]
    BY <1>5 DEF WorkerSettleFails, CancelSwallowed
  <2>2. worker' = [pc |-> "finishing", job |-> worker.job, call |-> 0, result |-> "finished"]
    BY <2>1
  <2>3. budget' \in [stops : Nat, kills : Nat, errors : Nat]
    BY <2>1
  <2> QED BY <2>1, <2>2, <2>3
<1>6. CASE EpisodeEnds \/ EpisodeTimeout
  BY <1>6 DEF EpisodeEnds, EpisodeTimeout
<1>7. CASE WorkerFinish
  BY <1>7 DEF WorkerFinish, Idle
<1>8. CASE WorkerDies \/ Shutdown
  BY <1>8 DEF WorkerDies, Shutdown
<1>9. CASE Boot \/ CloseDown \/ CloseDead \/ Exit
  BY <1>9 DEF Boot, CloseDown, CloseDead, Exit, Idle, Gone
<1>10. CASE WorkerCancelled
  <2>1. worker' = Gone /\ UNCHANGED <<proc, budget>>
    BY <1>10 DEF WorkerCancelled
  <2>2. \/ late' = late
        \/ late' = [NoThread EXCEPT !.does = "claim"]
        \/ /\ worker.pc = "finishing"
           /\ late' = [does |-> "finish", job |-> worker.job, result |-> worker.result]
    BY <1>10 DEF WorkerCancelled
  <2> QED BY <2>1, <2>2 DEF Gone, Idle, NoThread
<1>11. ASSUME NEW now \in Recent, LateThread(now) PROVE BTypes'
  BY <1>11 DEF LateThread, NoThread
<1>12. CASE Kill
  BY <1>12 DEF Kill, Gone, Idle, NoThread
<1>13. \/ UNCHANGED brokerVars
       \/ \E now \in Recent : WorkerClaim(now) \/ WorkerReserve(now) \/ LateThread(now)
       \/ WorkerSettle \/ WorkerSettleFails \/ CancelSwallowed \/ EpisodeEnds \/ EpisodeTimeout
       \/ WorkerFinish \/ WorkerDies \/ Shutdown \/ Boot \/ CloseDown \/ CloseDead \/ Exit
       \/ WorkerCancelled \/ Kill
  BY DEF BNext, WorkerStep, bvars, RequestSession, Submit, WorkerPrune, WorkerDenied,
         Unrelated, Time
<1> QED BY <1>1, <1>2, <1>3, <1>4, <1>5, <1>6, <1>7, <1>8, <1>9, <1>10, <1>11, <1>12, <1>13

LEMMA BTypesInit == BInit => BTypes
BY DEF BInit, BTypes, Result, Gone, Idle, NoThread

\* The broker takes only the steps that the tables allow anyone, so what
\* holds of them and of the ledger holds under it.
LEMMA BrokerTakesTrialsSteps == BSpec => TSpec
<1>1. BInit => TInit
  BY DEF BInit
<1> QED BY <1>1, BTypesInit, BTypesStep, TrialsStep, PTL
        DEF BSpec, TSpec

-----------------------------------------------------------------------------
(* One process at a time: running jobs and pending rows.                   *)

Busy == worker.pc \in {"episode", "calling", "finishing"}

\* The running jobs, and the rows of jobs that are still to be settled.
Running == {j \in Job : jobs[j].status = "running"}
Pending == {i \in Charge : charges[i].status = "reserved" /\ owner[i] # 0}

\* The process, its worker and the thread left behind: a worker that is
\* there leaves no thread, and a process that is down has neither.
Lifecycle ==
    /\ proc \in {"down", "closed"} => worker.pc = "gone"
    /\ proc = "down" => late.does = "nothing"
    /\ worker.pc = "gone" => proc \in {"down", "stopping", "closed"}
    /\ late.does # "nothing" => worker.pc = "gone"

\* A live worker's job is the only one that is running.
Owned ==
    /\ Busy => worker.job \in Running
    /\ worker.pc \notin {"gone", "dead"} => \A j \in Running : Busy /\ worker.job = j

\* The call in flight is pending.  Unless SQLite failed, a pending row is of a
\* running job, and a job that is about to end, by the worker or by the
\* thread left behind, has none.
Matched ==
    /\ worker.pc = "calling" => worker.call \in Pending /\ owner[worker.call] = worker.job
    /\ budget.errors = 0 => \A i \in Pending :
          /\ owner[i] \in Running
          /\ worker.pc \in {"episode", "finishing"} => owner[i] # worker.job
          /\ late.does = "finish" => owner[i] # late.job

BInv == BTypes /\ Lifecycle /\ Owned /\ Matched

LEMMA JobFacts ==
    ASSUME Tables, Tables'
    PROVE  /\ jobs' = jobs => Running' = Running
           /\ \A now : Prune(now) => Running' = Running
           /\ \A now, s, c : StartSession(s, c, now) => Running' = Running
           /\ \A now, s : \A j \in Job : Admit(j, s, now) => Running' = Running
           /\ \A now : ClaimNone(now) => Running' = Running
           /\ \A now : \A j \in Job : Claim(j, now) => Running = {} /\ Running' = {j}
           /\ \A j \in Job, r \in {"finished", "interrupted"} :
                 Finish(j, r) => Running' = Running \ {j}
           /\ Recover => Running' = {}
<1> USE DEF Tables, JobRow, Running
<1>1. ASSUME NEW now
      PROVE  /\ PrunedJobs(now) \in [Job -> JobRow] /\ Expired(now) \in [Job -> JobRow]
             /\ \A j \in Job :
                   /\ PrunedJobs(now)[j].status = "running" <=> jobs[j].status = "running"
                   /\ Expired(now)[j].status = "running" <=> jobs[j].status = "running"
  BY DEF PrunedJobs, Expired, Terminal
<1>2. jobs' = jobs => Running' = Running
  OBVIOUS
<1>3. \A now : Prune(now) => Running' = Running
  BY <1>1 DEF Prune
<1>4. \A now, s, c : StartSession(s, c, now) => Running' = Running
  BY <1>1 DEF StartSession
<1>5. ASSUME NEW now, NEW s, NEW j \in Job, Admit(j, s, now) PROVE Running' = Running
  <2>1. /\ jobs[j].status = "none"
        /\ jobs' = [Expired(now) EXCEPT ![j] =
                       [status |-> "queued", session |-> s, created |-> now]]
    BY <1>5 DEF Admit
  <2>2. \A k \in Job : jobs'[k].status = "running" <=> jobs[k].status = "running"
    BY <1>1, <2>1
  <2> QED BY <2>2
<1>6. \A now : ClaimNone(now) => Running' = Running
  BY <1>1 DEF ClaimNone
<1>7. ASSUME NEW now, NEW j \in Job, Claim(j, now) PROVE Running = {} /\ Running' = {j}
  <2>1. /\ \A k \in Job : jobs[k].status # "running"
        /\ jobs' = [Expired(now) EXCEPT ![j].status = "running"]
    BY <1>7 DEF Claim, Is
  <2>2. \A k \in Job : jobs'[k].status = "running" <=> k = j
    BY <1>1, <2>1
  <2> QED BY <2>1, <2>2
<1>8. ASSUME NEW j \in Job, NEW r \in {"finished", "interrupted"}, Finish(j, r)
      PROVE  Running' = Running \ {j}
  BY <1>8 DEF Finish
<1>9. Recover => Running' = {}
  BY DEF Recover
<1> QED BY <1>2, <1>3, <1>4, <1>5, <1>6, <1>7, <1>8, <1>9

LEMMA RowFacts ==
    ASSUME TInv
    PROVE  /\ UNCHANGED <<vars, owner>> => Pending' = Pending
           /\ \A j \in Job : \A n, now : \A i \in Charge :
                 ReserveForJob(i, j, n, now) => /\ Pending' = Pending \cup {i}
                                                /\ owner' = [owner EXCEPT ![i] = j]
                                                /\ owner[i] = 0 /\ charges'[i].status = "reserved"
           /\ \A i \in Charge : \A cost :
                 SettleReported(i, cost) \/ SettleUnknown(i) =>
                    charges' = [charges EXCEPT ![i] = charges'[i]]
                    /\ charges'[i].status # "reserved"
           /\ \A i \in Charge : Deny(i) \/ Crash(i) => charges' = charges
           /\ Elsewhere => Pending' = Pending /\ owner' = owner
           /\ Recover => /\ Pending' = {i \in Pending : owner[i] \notin Running}
                         /\ owner' = owner
<1> USE DEF Pending
<1>1. charges \in [Charge -> Row] /\ Shape /\ Tables /\ OwnedRows
  BY DEF TInv, IInv, TypeOK
<1>2. UNCHANGED <<vars, owner>> => Pending' = Pending
  BY DEF vars
<1>3. ASSUME NEW j \in Job, NEW n, NEW now, NEW i \in Charge, ReserveForJob(i, j, n, now)
      PROVE  /\ Pending' = Pending \cup {i} /\ owner' = [owner EXCEPT ![i] = j]
             /\ owner[i] = 0 /\ charges'[i].status = "reserved"
  <2>1. owner[i] = 0 /\ owner' = [owner EXCEPT ![i] = j] /\ j # 0
    BY <1>1, <1>3, TrialsAssumption DEF ReserveForJob, Reserve, Arrives, OwnedRows, Tables, Job
  <2>2. /\ charges'[i].status = "reserved"
        /\ \A k \in Charge : k # i => charges'[k] = charges[k]
    BY <1>1, <1>3 DEF ReserveForJob, Reserve
  <2> QED BY <1>1, <2>1, <2>2 DEF Tables
<1>4. ASSUME NEW i \in Charge, NEW cost, SettleReported(i, cost) \/ SettleUnknown(i)
      PROVE  charges' = [charges EXCEPT ![i] = charges'[i]] /\ charges'[i].status # "reserved"
  BY <1>1, <1>4 DEF SettleReported, SettleUnknown, Row
<1>5. ASSUME NEW i \in Charge, Deny(i) \/ Crash(i) PROVE charges' = charges
  BY <1>5 DEF Deny, Crash
<1>6. ASSUME Elsewhere PROVE Pending' = Pending /\ owner' = owner
  <2>1. owner' = owner
    BY <1>6 DEF Elsewhere, trialVars
  <2>2. ASSUME NEW i \in Charge, NEW b, NEW n, NEW now, Reserve(i, b, n, now)
        PROVE  Pending' = Pending
    <3>1. owner[i] = 0 /\ \A k \in Charge : k # i => charges'[k] = charges[k]
      BY <1>1, <2>2 DEF Reserve, Arrives, OwnedRows
    <3> QED BY <2>1, <3>1
  <2>3. CASE charges' = charges
    BY <2>1, <2>3
  <2> QED BY <1>6, <2>1, <2>2, <2>3
          DEF Elsewhere, Pause, Resume, ClearAccess, ImportCalibration
<1>7. ASSUME Recover
      PROVE  Pending' = {i \in Pending : owner[i] \notin Running} /\ owner' = owner
  <2>1. \A i \in Charge : owner[i] \in Is({"running"}) <=> owner[i] \in Running
    BY DEF Is, Running
  <2> QED BY <1>1, <1>7, <2>1 DEF Recover, Row
<1> QED BY <1>2, <1>3, <1>4, <1>5, <1>6, <1>7

\* Steps after which the same jobs run, the same rows are pending, and no
\* worker, thread or process has moved.
LEMMA NothingMoves ==
    ASSUME BInv, BTypes', UNCHANGED <<proc, worker, late, budget, owner>>,
           Running' = Running, Pending' = Pending
    PROVE  BInv'
BY DEF BInv, Lifecycle, Owned, Matched, Busy

\* The row of the call in flight is settled: it is pending no more, and no
\* other row of its job ever was.
LEMMA CallSettles ==
    ASSUME TInv, BInv, worker.pc = "calling", UNCHANGED trialVars,
           \/ \E cost \in Bills : SettleReported(worker.call, cost)
           \/ SettleUnknown(worker.call)
    PROVE  /\ Pending' = Pending \ {worker.call} /\ Running' = Running /\ owner' = owner
           /\ \A i \in Pending' : owner[i] # worker.job
<1>1. worker.call \in Charge /\ worker.call \in Pending /\ owner[worker.call] = worker.job
  BY DEF BInv, BTypes, Matched
<1>2. charges' = [charges EXCEPT ![worker.call] = charges'[worker.call]]
      /\ charges'[worker.call].status # "reserved"
  BY <1>1, RowFacts
<1>3. owner' = owner /\ jobs' = jobs /\ charges \in [Charge -> Row]
  BY DEF trialVars, TInv, IInv, TypeOK
<1>4. Pending' = Pending \ {worker.call}
  BY <1>1, <1>2, <1>3 DEF Pending
<1>5. \A i \in Pending' : owner[i] # worker.job
  BY <1>1, <1>4 DEF TInv, OneRequestPerJob, Pending
<1> QED BY <1>3, <1>4, <1>5 DEF Running

LEMMA CallKeeps ==
    ASSUME TInv, BInv, worker.pc = "calling", UNCHANGED trialVars,
           Deny(worker.call) \/ Crash(worker.call)
    PROVE  Pending' = Pending /\ Running' = Running /\ owner' = owner
<1>1. worker.call \in Charge
  BY DEF BInv, BTypes
<1>2. charges' = charges
  BY <1>1, RowFacts
<1> QED BY <1>2 DEF trialVars, Pending, Running

LEMMA FailureCounts ==
    ASSUME budget \in [stops : Nat, kills : Nat, errors : Nat],
           budget' = [budget EXCEPT !["errors"] = @ + 1]
    PROVE  budget'.errors # 0
OBVIOUS

\* Requests, pruning, other processes and time.
LEMMA OutsideSteps ==
    ASSUME TInv, TInv', BInv, BTypes',
           \/ \E now \in Recent : RequestSession(now) \/ Submit(now) \/ WorkerPrune(now)
           \/ WorkerDenied \/ Unrelated \/ Time \/ UNCHANGED bvars
    PROVE  BInv'
<1>1. Tables /\ Tables'
  BY DEF TInv
<1>2. ASSUME NEW now \in Recent, RequestSession(now) \/ Submit(now) \/ WorkerPrune(now)
      PROVE  BInv'
  <2>1. UNCHANGED <<proc, worker, late, budget>> /\ UNCHANGED <<vars, owner>>
    BY <1>2 DEF RequestSession, Submit, WorkerPrune, brokerVars, StartSession, Admit, Prune
  <2>2. Running' = Running
    BY <1>1, <1>2, JobFacts DEF RequestSession, Submit, WorkerPrune
  <2> QED BY <2>1, <2>2, RowFacts, NothingMoves
<1>3. CASE WorkerDenied
  <2>1. worker.pc = "calling" /\ UNCHANGED trialVars /\ Deny(worker.call)
        /\ UNCHANGED <<proc, worker, late, budget>>
    BY <1>3 DEF WorkerDenied, Ends, brokerVars
  <2> QED BY <2>1, CallKeeps, NothingMoves
<1>4. CASE Unrelated
  <2>1. UNCHANGED <<proc, worker, late, budget>> /\ jobs' = jobs
    BY <1>4 DEF Unrelated, brokerVars, Elsewhere, Settle, trialVars
  <2>2. Running' = Running
    BY <2>1 DEF Running
  <2>3. Pending' = Pending /\ owner' = owner
    <3>1. CASE Elsewhere
      BY <3>1, RowFacts
    <3>2. ASSUME NEW i \in Charge, owner[i] = 0, Settle(i) PROVE Pending' = Pending /\ owner' = owner
      <4>1. owner' = owner /\ charges \in [Charge -> Row]
        BY <3>2 DEF Settle, trialVars, TInv, IInv, TypeOK
      <4>2. \A k \in Charge : k # i => charges'[k] = charges[k]
        BY <3>2, <4>1 DEF Settle, SettleReported, SettleUnknown, Deny, Crash
      <4> QED BY <3>2, <4>1, <4>2 DEF Pending
    <3> QED BY <1>4, <3>1, <3>2 DEF Unrelated
  <2> QED BY <2>1, <2>2, <2>3, NothingMoves
<1>5. CASE Time \/ UNCHANGED bvars
  <2>1. UNCHANGED <<proc, worker, late, budget>> /\ UNCHANGED <<charges, jobs, owner>>
    BY <1>5 DEF Time, Tick, brokerVars, bvars, tvars, trialVars, vars
  <2>2. Running' = Running /\ Pending' = Pending
    BY <2>1 DEF Running, Pending
  <2> QED BY <2>1, <2>2, NothingMoves
<1> QED BY <1>2, <1>3, <1>4, <1>5

LEMMA WorkerSteps ==
    ASSUME TInv, TInv', BInv, BTypes', WorkerStep \/ WorkerSettleFails \/ WorkerDies, ~WorkerDenied
    PROVE  BInv'
<1> USE DEF BInv, Lifecycle, Owned, Matched, Busy
<1>1. Tables /\ Tables'
  BY DEF TInv
<1>2. ASSUME NEW now \in Recent, WorkerClaim(now) PROVE BInv'
  <2>1. worker.pc = "idle" /\ UNCHANGED <<proc, late, budget>> /\ UNCHANGED <<vars, owner>>
    BY <1>2 DEF WorkerClaim, Claim, ClaimNone
  <2>2. Pending' = Pending
    BY <2>1, RowFacts
  <2>3. CASE ClaimNone(now) /\ worker' = worker
    BY <1>1, <2>1, <2>2, <2>3, JobFacts, NothingMoves
  <2>4. ASSUME NEW j \in Job, Claim(j, now), worker' = [Idle EXCEPT !.pc = "episode", !.job = j]
        PROVE  BInv'
    <3>1. Running = {} /\ Running' = {j}
      BY <1>1, <2>4, JobFacts
    <3>2. worker' = [pc |-> "episode", job |-> j, call |-> 0, result |-> "none"]
      BY <2>4 DEF Idle
    <3> QED BY <2>1, <2>2, <3>1, <3>2
  <2> QED BY <1>2, <2>3, <2>4 DEF WorkerClaim
<1>3. ASSUME NEW now \in Recent, WorkerReserve(now) PROVE BInv'
  <2>1. PICK i \in Charge, n \in Amounts :
           /\ ReserveForJob(i, worker.job, n, now)
           /\ worker' = [worker EXCEPT !.pc = "calling", !.call = i]
    BY <1>3 DEF WorkerReserve
  <2>2. worker.pc = "episode" /\ worker.job \in Job /\ UNCHANGED <<proc, late, budget>>
    BY <1>3 DEF WorkerReserve, BTypes
  <2>3. /\ Pending' = Pending \cup {i} /\ owner' = [owner EXCEPT ![i] = worker.job]
        /\ owner[i] = 0 /\ owner \in [Charge -> {0} \cup Job]
    BY <2>1, <2>2, RowFacts DEF TInv, Tables
  <2>4. Running' = Running
    BY <1>1, <2>1, JobFacts DEF ReserveForJob
  <2>5. worker' = [pc |-> "calling", job |-> worker.job, call |-> i, result |-> worker.result]
    BY <2>1 DEF BTypes
  <2>6. i \notin Pending /\ \A k \in Pending : k \in Charge /\ owner'[k] = owner[k]
    BY <2>3 DEF Pending
  <2> QED BY <2>2, <2>3, <2>4, <2>5, <2>6
<1>4. CASE WorkerSettle
  <2>1. /\ worker.pc = "calling" /\ UNCHANGED trialVars
        /\ (\E cost \in Bills : SettleReported(worker.call, cost)) \/ SettleUnknown(worker.call)
        /\ worker' = [worker EXCEPT !.pc = "episode", !.call = 0]
        /\ UNCHANGED <<proc, late, budget>>
    BY <1>4 DEF WorkerSettle, Ends
  <2>2. worker' = [pc |-> "episode", job |-> worker.job, call |-> 0, result |-> worker.result]
    BY <2>1 DEF BTypes
  <2>3. /\ Pending' = Pending \ {worker.call} /\ Running' = Running /\ owner' = owner
        /\ \A i \in Pending' : owner[i] # worker.job
    BY <2>1, CallSettles
  <2> QED BY <2>1, <2>2, <2>3
<1>5. CASE WorkerSettleFails
  <2>1. /\ worker.pc = "calling" /\ UNCHANGED trialVars /\ Crash(worker.call)
        /\ worker' = [worker EXCEPT !.pc = "finishing", !.call = 0, !.result = "finished"]
        /\ budget' = [budget EXCEPT !["errors"] = @ + 1]
        /\ UNCHANGED <<proc, late>>
    BY <1>5 DEF WorkerSettleFails, Ends, Fails, Spend
  <2>2. worker' = [pc |-> "finishing", job |-> worker.job, call |-> 0, result |-> "finished"]
    BY <2>1 DEF BTypes
  <2>3. budget'.errors # 0
    BY <2>1, FailureCounts DEF BTypes
  <2>4. Pending' = Pending /\ Running' = Running /\ owner' = owner
    BY <2>1, CallKeeps
  <2> QED BY <2>1, <2>2, <2>3, <2>4
<1>6. CASE EpisodeEnds
  <2>1. /\ worker.pc = "episode" /\ UNCHANGED <<charges, jobs, owner, proc, late, budget>>
        /\ worker' = [worker EXCEPT !.pc = "finishing", !.result = "finished"]
    BY <1>6 DEF EpisodeEnds, tvars, trialVars, vars
  <2>2. worker' = [pc |-> "finishing", job |-> worker.job, call |-> worker.call, result |-> "finished"]
    BY <2>1 DEF BTypes
  <2>3. Pending' = Pending /\ Running' = Running
    BY <2>1 DEF Pending, Running
  <2> QED BY <2>1, <2>2, <2>3
<1>7. CASE EpisodeTimeout
  <2>1. /\ worker.pc \in {"episode", "calling"} /\ UNCHANGED <<proc, late, budget>>
        /\ worker' = [worker EXCEPT !.pc = "finishing", !.call = 0, !.result = "interrupted"]
    BY <1>7 DEF EpisodeTimeout
  <2>2. worker' = [pc |-> "finishing", job |-> worker.job, call |-> 0, result |-> "interrupted"]
    BY <2>1 DEF BTypes
  <2>3. CASE worker.pc = "calling"
    <3>1. /\ Pending' = Pending \ {worker.call} /\ Running' = Running /\ owner' = owner
          /\ \A i \in Pending' : owner[i] # worker.job
      BY <1>7, <2>3, CallSettles DEF EpisodeTimeout, Ends
    <3> QED BY <2>1, <2>2, <2>3, <3>1
  <2>4. CASE worker.pc = "episode"
    <3>1. UNCHANGED <<charges, jobs, owner>>
      BY <1>7, <2>4 DEF EpisodeTimeout, tvars, trialVars, vars
    <3>2. Pending' = Pending /\ Running' = Running
      BY <3>1 DEF Pending, Running
    <3> QED BY <2>1, <2>2, <2>4, <3>1, <3>2
  <2> QED BY <2>1, <2>3, <2>4
<1>8. CASE WorkerFinish
  <2>1. /\ worker.pc = "finishing" /\ Finish(worker.job, worker.result) /\ worker' = Idle
        /\ worker.job \in Job /\ worker.result \in {"finished", "interrupted"}
        /\ UNCHANGED <<proc, late, budget>> /\ UNCHANGED <<vars, owner>>
    BY <1>8 DEF WorkerFinish, Finish, BTypes, Result
  <2>2. Pending' = Pending /\ Running' = Running \ {worker.job}
    BY <1>1, <2>1, RowFacts, JobFacts
  <2>3. worker'.pc = "idle"
    BY <2>1 DEF Idle
  <2> QED BY <2>1, <2>2, <2>3
<1>9. CASE WorkerDies
  <2>1. /\ worker.pc \in {"idle", "finishing"} /\ worker' = [worker EXCEPT !.pc = "dead"]
        /\ budget' = [budget EXCEPT !["errors"] = @ + 1]
        /\ UNCHANGED <<charges, jobs, owner, proc, late>>
    BY <1>9 DEF WorkerDies, Fails, Spend, tvars, trialVars, vars
  <2>2. worker'.pc = "dead" /\ budget'.errors # 0
    BY <2>1 DEF BTypes
  <2>3. Pending' = Pending /\ Running' = Running
    BY <2>1 DEF Pending, Running
  <2> QED BY <2>1, <2>2, <2>3
<1> QED BY <1>2, <1>3, <1>4, <1>5, <1>6, <1>7, <1>8, <1>9 DEF WorkerStep

\* Start, stop and death of the process, and the thread left behind.
LEMMA ProcessSteps ==
    ASSUME TInv, TInv', BInv, BTypes', ~Overlap,
           \/ Boot \/ Shutdown \/ WorkerCancelled \/ CancelSwallowed \/ CloseDown
           \/ CloseDead \/ Exit \/ Kill \/ \E now \in Recent : LateThread(now)
    PROVE  BInv'
<1> USE DEF BInv, Lifecycle, Owned, Matched, Busy
<1>1. Tables /\ Tables'
  BY DEF TInv
<1>2. ASSUME Recover PROVE Running' = {} /\ owner' = owner
                           /\ Pending' = {i \in Pending : owner[i] \notin Running}
  BY <1>1, <1>2, JobFacts, RowFacts
<1>3. CASE Boot
  <2>1. proc = "down" /\ Recover /\ worker' = Idle /\ proc' = "up" /\ UNCHANGED <<late, budget>>
    BY <1>3 DEF Boot
  <2>2. worker'.pc = "idle"
    BY <2>1 DEF Idle
  <2> QED BY <1>2, <2>1, <2>2
<1>4. CASE CloseDown
  <2>1. worker.pc = "gone" /\ Recover /\ proc' = "closed" /\ UNCHANGED <<worker, late, budget>>
    BY <1>4 DEF CloseDown
  <2> QED BY <1>2, <2>1
<1>5. CASE Shutdown
  <2>1. /\ proc = "up" /\ proc' = "stopping" /\ UNCHANGED <<charges, jobs, owner, worker, late>>
        /\ budget' = [budget EXCEPT !["stops"] = @ + 1]
    BY <1>5 DEF Shutdown, Spend, tvars, trialVars, vars
  <2>2. budget'.errors = budget.errors
    BY <2>1 DEF BTypes
  <2>3. Pending' = Pending /\ Running' = Running
    BY <2>1 DEF Pending, Running
  <2> QED BY <2>1, <2>2, <2>3
<1>6. CASE WorkerCancelled
  <2>1. /\ proc = "stopping" /\ worker.pc \in {"idle", "episode", "calling", "finishing"}
        /\ worker' = Gone /\ UNCHANGED <<proc, budget>>
    BY <1>6 DEF WorkerCancelled
  <2>2. worker'.pc = "gone"
    BY <2>1 DEF Gone, Idle
  <2>3. \/ late' = late
        \/ late'.does = "claim"
        \/ worker.pc = "finishing" /\ late'.does = "finish" /\ late'.job = worker.job
    BY <1>6 DEF WorkerCancelled, NoThread
  <2>4. Pending' \subseteq Pending /\ Running' = Running /\ owner' = owner
    <3>1. CASE worker.pc = "calling"
      BY <1>6, <3>1, CallSettles DEF WorkerCancelled, Ends
    <3>2. CASE worker.pc # "calling"
      BY <1>6, <3>2 DEF WorkerCancelled, tvars, trialVars, vars, Pending, Running
    <3> QED BY <3>1, <3>2
  <2> QED BY <2>1, <2>2, <2>3, <2>4
<1>7. CASE CancelSwallowed
  <2>1. /\ proc = "stopping" /\ worker.pc = "calling" /\ proc' = "stuck" /\ late' = late
        /\ UNCHANGED trialVars
        /\ worker' = [worker EXCEPT !.pc = "finishing", !.call = 0, !.result = "finished"]
        /\ budget' = [budget EXCEPT !["errors"] = @ + 1]
    BY <1>7 DEF CancelSwallowed, Ends, Fails, Spend
  <2>2. worker' = [pc |-> "finishing", job |-> worker.job, call |-> 0, result |-> "finished"]
    BY <2>1 DEF BTypes
  <2>3. budget'.errors # 0
    BY <2>1, FailureCounts DEF BTypes
  <2>4. Running' = Running
    BY <2>1 DEF trialVars, Running
  <2> QED BY <2>1, <2>2, <2>3, <2>4
<1>8. CASE CloseDead
  <2>1. /\ worker.pc = "dead" /\ proc' = "down" /\ worker' = Gone
        /\ UNCHANGED <<charges, jobs, owner, late, budget>>
    BY <1>8 DEF CloseDead, tvars, trialVars, vars
  <2>2. worker'.pc = "gone"
    BY <2>1 DEF Gone, Idle
  <2>3. Pending' = Pending /\ Running' = Running
    BY <2>1 DEF Pending, Running
  <2>4. late.does = "nothing"
    BY <2>1
  <2> QED BY <2>1, <2>2, <2>3, <2>4
<1>9. CASE Exit
  <2>1. /\ proc = "closed" /\ late = NoThread /\ proc' = "down"
        /\ UNCHANGED <<charges, jobs, owner, worker, late, budget>>
    BY <1>9 DEF Exit, tvars, trialVars, vars
  <2>2. late.does = "nothing"
    BY <2>1 DEF NoThread
  <2>3. Pending' = Pending /\ Running' = Running
    BY <2>1 DEF Pending, Running
  <2> QED BY <2>1, <2>2, <2>3
<1>10. CASE Kill
  <2>1. /\ proc' = "down" /\ worker' = Gone /\ late' = NoThread
        /\ budget' = [budget EXCEPT !["kills"] = @ + 1]
    BY <1>10 DEF Kill, Spend
  <2>2. worker'.pc = "gone" /\ late'.does = "nothing" /\ budget'.errors = budget.errors
    BY <2>1 DEF Gone, Idle, NoThread, BTypes
  <2>3. Pending' = Pending /\ Running' = Running /\ owner' = owner
    <3>1. CASE worker.pc = "calling"
      BY <1>10, <3>1, CallKeeps DEF Kill, Ends
    <3>2. CASE worker.pc # "calling"
      BY <1>10, <3>2 DEF Kill, tvars, trialVars, vars, Pending, Running
    <3> QED BY <3>1, <3>2
  <2> QED BY <2>1, <2>2, <2>3
<1>11. ASSUME NEW now \in Recent, LateThread(now) PROVE BInv'
  <2>1. /\ late' = NoThread /\ late.does # "nothing" /\ worker.pc = "gone"
        /\ UNCHANGED <<proc, worker, budget>> /\ UNCHANGED <<vars, owner>>
    BY <1>11 DEF LateThread, Claim, ClaimNone, Finish
  <2>2. late'.does = "nothing" /\ Pending' = Pending
    BY <2>1, RowFacts DEF NoThread
  <2>3. CASE late.does = "claim" /\ (ClaimNone(now) \/ \E j \in Job : Claim(j, now))
    <3>1. Running \subseteq Running'
      BY <1>1, <2>3, JobFacts
    <3> QED BY <2>1, <2>2, <3>1
  <2>4. CASE late.does = "finish" /\ Finish(late.job, late.result)
    <3>1. late.job \in Job /\ late.result \in {"finished", "interrupted"}
      BY <2>4 DEF BTypes, Result
    <3>2. Running' = Running \ {late.job}
      BY <1>1, <2>4, <3>1, JobFacts
    <3> QED BY <2>1, <2>2, <2>4, <3>2
  <2> QED BY <1>11, <2>3, <2>4 DEF LateThread
<1> QED BY <1>3, <1>4, <1>5, <1>6, <1>7, <1>8, <1>9, <1>10, <1>11

-----------------------------------------------------------------------------
LEMMA InitBInv == BInit => BInv
BY BTypesInit DEF BInit, TInit, BInv, Lifecycle, Owned, Matched, Busy, Running, Pending,
   Gone, Idle, NoThread

LEMMA StepBInv == ASSUME ~Overlap PROVE TInv /\ TInv' /\ BInv /\ [BNext]_bvars => BInv'
<1> SUFFICES ASSUME TInv, TInv', BInv, [BNext]_bvars PROVE BInv'
  OBVIOUS
<1>1. BTypes'
  BY BTypesStep DEF BInv
<1> QED BY <1>1, OutsideSteps, WorkerSteps, ProcessSteps DEF BNext, WorkerStep

LEMMA BrokerInductive == ~Overlap => (BSpec => []BInv)
<1> SUFFICES ASSUME ~Overlap PROVE BSpec => []BInv
  OBVIOUS
<1>1. BSpec => []TInv
  BY BrokerTakesTrialsSteps, TrialsInductive, PTL
<1>2. TInv /\ TInv' /\ BInv /\ [BNext]_bvars => BInv'
  BY StepBInv
<1> QED BY <1>1, <1>2, InitBInv, PTL DEF BSpec

\* With one process at a time (the OS lock of broker.py), a running job is
\* the live worker's, whatever stops, kills, threads and recoveries came
\* before.
THEOREM LiveWorkerOwns == ~Overlap => (BSpec => []RunningIsOwned)
<1> SUFFICES ASSUME ~Overlap PROVE BSpec => []RunningIsOwned
  OBVIOUS
<1>1. BInv => RunningIsOwned
  BY DEF BInv, Lifecycle, Owned, Busy, Running, RunningIsOwned, Is
<1> QED BY <1>1, BrokerInductive, PTL

\* The call in flight is pending, and unless SQLite failed every pending row
\* of a trial is of a running job, where the next recovery finds it.
THEOREM CallsAndJobsAgree == ~Overlap => (BSpec => []CallsMatchJobs)
<1> SUFFICES ASSUME ~Overlap PROVE BSpec => []CallsMatchJobs
  OBVIOUS
<1>1. BInv => CallsMatchJobs
  BY DEF BInv, BTypes, Owned, Matched, Busy, Running, Pending, CallsMatchJobs, CallInFlight,
         PendingIsRecoverable
<1> QED BY <1>1, BrokerInductive, PTL
-----------------------------------------------------------------------------
(* Outcomes.                                                               *)

\* Whoever ends a running job has it, or no worker is there.
EndedBy(j, after) ==
    \/ worker.pc = "finishing" /\ worker.job = j /\ worker.result = after
    \/ late.does = "finish" /\ late.job = j /\ late.result = after
    \/ worker.pc = "gone" /\ after = "interrupted"

OneWay(j) ==
    /\ jobs[j].status \in Terminal \cup {"gone"} => jobs'[j].status \in {jobs[j].status, "gone"}
    /\ jobs[j].status = "running" /\ jobs'[j].status # jobs[j].status => EndedBy(j, jobs'[j].status)

\* What prune, expiry, admission and claim do to a job that runs or ended.
LEMMA TablesOneWay ==
    ASSUME Tables, NEW j \in Job,
           \/ jobs' = jobs
           \/ \E now \in Recent :
                 \/ Prune(now) \/ ClaimNone(now)
                 \/ \E s \in Session, c \in Client : StartSession(s, c, now)
                 \/ \E k \in Job, s \in Session : Admit(k, s, now)
                 \/ \E k \in Job : Claim(k, now)
    PROVE  OneWay(j)
<1> USE DEF Tables, JobRow
<1>1. CASE jobs' = jobs
  BY <1>1 DEF OneWay
<1>2. ASSUME NEW now \in Recent,
             Prune(now) \/ \E s \in Session, c \in Client : StartSession(s, c, now)
      PROVE  OneWay(j)
  <2>1. jobs' = PrunedJobs(now)
    BY <1>2 DEF Prune, StartSession
  <2> QED BY <2>1 DEF PrunedJobs, OneWay, Terminal
<1>3. ASSUME NEW now \in Recent
      PROVE  /\ Expired(now) \in [Job -> JobRow]
             /\ \A k \in Job : jobs[k].status # "queued" => Expired(now)[k].status = jobs[k].status
  BY DEF Expired
<1>4. ASSUME NEW now \in Recent, ClaimNone(now) PROVE OneWay(j)
  BY <1>3, <1>4 DEF ClaimNone, OneWay, Terminal
<1>5. ASSUME NEW now \in Recent, NEW k \in Job, NEW s \in Session, Admit(k, s, now) PROVE OneWay(j)
  <2>1. jobs[k].status = "none" /\ \E row : jobs' = [Expired(now) EXCEPT ![k] = row]
    BY <1>5 DEF Admit
  <2>2. k # j => jobs'[j] = Expired(now)[j]
    BY <1>3, <2>1
  <2> QED BY <1>3, <2>1, <2>2 DEF OneWay, Terminal
<1>6. ASSUME NEW now \in Recent, NEW k \in Job, Claim(k, now) PROVE OneWay(j)
  <2>1. Expired(now)[k].status = "queued" /\ jobs' = [Expired(now) EXCEPT ![k].status = "running"]
    BY <1>6 DEF Claim, Oldest
  <2>2. jobs[k].status = "queued"
    BY <1>3, <2>1
  <2>3. k # j => jobs'[j] = Expired(now)[j]
    BY <1>3, <2>1
  <2> QED BY <1>3, <2>2, <2>3 DEF OneWay, Terminal
<1> QED BY <1>1, <1>2, <1>4, <1>5, <1>6

\* A finish, by whoever, and a recovery.
LEMMA EndsOneWay ==
    ASSUME Tables, NEW j \in Job
    PROVE  /\ \A k \in Job : \A r : Finish(k, r) /\ (k = j => EndedBy(j, r)) => OneWay(j)
           /\ Recover /\ worker.pc = "gone" => OneWay(j)
<1> USE DEF Tables, JobRow
<1>1. ASSUME NEW k \in Job, NEW r, Finish(k, r), k = j => EndedBy(j, r) PROVE OneWay(j)
  <2>1. CASE jobs[k].status = "running" /\ k = j
    <3>1. jobs'[j].status = r
      BY <1>1, <2>1 DEF Finish
    <3> QED BY <1>1, <2>1, <3>1 DEF OneWay, Terminal
  <2>2. CASE ~(jobs[k].status = "running" /\ k = j)
    <3>1. jobs'[j] = jobs[j]
      BY <1>1, <2>2 DEF Finish
    <3> QED BY <3>1 DEF OneWay
  <2> QED BY <2>1, <2>2
<1>2. ASSUME Recover, worker.pc = "gone" PROVE OneWay(j)
  <2>1. jobs'[j].status = IF jobs[j].status = "running" THEN "interrupted" ELSE jobs[j].status
    BY <1>2 DEF Recover
  <2> QED BY <1>2, <2>1 DEF OneWay, EndedBy, Terminal
<1> QED BY <1>1, <1>2

\* With one process at a time, a trial runs once and its first outcome is its
\* last, in whatever order the worker, the thread that a cancelled worker left
\* behind, and the recoveries at a stop and a start commit.
THEOREM OutcomesAreFinal == ~Overlap => (BSpec => OutcomesStand)
<1> SUFFICES ASSUME ~Overlap PROVE BSpec => OutcomesStand
  OBVIOUS
<1>1. ASSUME TInv, BInv, [BNext]_bvars, NEW j \in Job PROVE OneWay(j)
  <2>1. Tables /\ BTypes /\ Lifecycle
    BY <1>1 DEF TInv, BInv
  <2>2. CASE Boot \/ CloseDown
    <3>1. worker.pc = "gone" /\ Recover
      BY <1>1, <2>1, <2>2 DEF Boot, CloseDown, Lifecycle
    <3> QED BY <2>1, <3>1, EndsOneWay
  <2>3. CASE WorkerFinish
    <3>1. worker.job \in Job /\ worker.pc = "finishing" /\ Finish(worker.job, worker.result)
      BY <2>1, <2>3 DEF WorkerFinish, BTypes
    <3> QED BY <2>1, <3>1, EndsOneWay DEF EndedBy
  <2>4. ASSUME NEW now \in Recent, LateThread(now) PROVE OneWay(j)
    <3>1. CASE late.does = "finish" /\ Finish(late.job, late.result)
      BY <2>1, <3>1, EndsOneWay DEF EndedBy, BTypes
    <3> QED BY <2>1, <2>4, <3>1, TablesOneWay DEF LateThread
  <2>5. ASSUME NEW now \in Recent,
               RequestSession(now) \/ Submit(now) \/ WorkerPrune(now) \/ WorkerClaim(now)
        PROVE  OneWay(j)
    BY <2>1, <2>5, TablesOneWay DEF RequestSession, Submit, WorkerPrune, WorkerClaim
  <2>6. CASE jobs' = jobs
    BY <2>1, <2>6, TablesOneWay
  <2>7. ASSUME NEW now \in Recent, WorkerReserve(now) PROVE jobs' = jobs
    BY <2>7 DEF WorkerReserve, ReserveForJob
  <2>8. ASSUME WorkerSettle \/ WorkerDenied \/ EpisodeEnds \/ EpisodeTimeout \/ WorkerSettleFails
               \/ WorkerDies \/ Shutdown \/ WorkerCancelled \/ CancelSwallowed \/ CloseDead \/ Exit
               \/ Kill \/ Unrelated \/ Time \/ UNCHANGED bvars
        PROVE  jobs' = jobs
    BY <2>8 DEF WorkerSettle, WorkerDenied, EpisodeEnds, EpisodeTimeout, WorkerSettleFails, WorkerDies,
                Shutdown, WorkerCancelled, CancelSwallowed, CloseDead, Exit, Kill, Unrelated, Elsewhere,
                Settle, Time, Tick, Ends, trialVars, tvars, bvars
  <2> QED BY <1>1, <2>2, <2>3, <2>4, <2>5, <2>6, <2>7, <2>8 DEF BNext, WorkerStep
<1>2. TInv /\ BInv /\ [BNext]_bvars => [\A j \in Job : OneWay(j)]_bvars
  BY <1>1
<1>3. [\A j \in Job : OneWay(j)]_bvars <=>
      [\A j \in Job :
          LET before == jobs[j].status
              after == jobs'[j].status
          IN /\ before \in Terminal \cup {"gone"} => after \in {before, "gone"}
             /\ before = "running" /\ after # before =>
                   \/ worker.pc = "finishing" /\ worker.job = j /\ worker.result = after
                   \/ late.does = "finish" /\ late.job = j /\ late.result = after
                   \/ worker.pc = "gone" /\ after = "interrupted"]_bvars
  BY DEF OneWay, EndedBy
<1>4. BSpec => []TInv
  BY BrokerTakesTrialsSteps, TrialsInductive, PTL
<1> QED BY <1>2, <1>3, <1>4, BrokerInductive, PTL DEF BSpec, OutcomesStand
=============================================================================
