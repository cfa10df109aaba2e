-------------------------- MODULE ResearchProofs --------------------------
(***************************************************************************)
(* What studies spend.                                                     *)
(*                                                                         *)
(* A bench study's cap, for any cap, calls, amounts and bills and whatever *)
(* other processes spend or have pending.  The total that the study starts *)
(* from is the sum of rows that are final and of the reservations of those *)
(* that are pending (Anchored), so what the ledger has grown by is less    *)
(* than what the study was charged by no more than these were settled      *)
(* lower: by so much the check before a request, made in no transaction    *)
(* with the reservation, can be fooled, and by nothing else.               *)
(*                                                                         *)
(* The v0.1 study, for any tasks, policies, allowance, answers and other   *)
(* seeds: the frames of the search are a path from the root, what is below *)
(* a frame was recorded by the actions it has tried (Walk), and every cost *)
(* that is recorded is what the ledger was charged in that step (StepIs).  *)
(***************************************************************************)
EXTENDS Research, StudyCap, LedgerProofs, FiniteSetTheorems

-----------------------------------------------------------------------------
(* A study's cap. *)

\* The columns of all charges, of the charges of a set of rows, and of what
\* the study binds.
AllCol == [i \in Charge |-> charges[i].charged]
OfCol(S) == [i \in Charge |-> IF i \in S THEN charges[i].charged ELSE 0]
MineCol == [i \in Charge |-> IF i \in mine THEN Bound(i) ELSE 0]
MineBound == Total(MineCol, N)

\* What was pending at the start reserved, and by how much it is lower now.
EarlyCol == [i \in Charge |-> IF i \in study.early THEN charges[i].reserved ELSE 0]
LoweredCol == [i \in Charge |-> IF i \in study.early THEN charges[i].reserved - Bound(i) ELSE 0]

StudyTypes ==
    /\ study \in [pc : {"off", "idle", "cleared", "calling", "over"},
                  cap : Nat, base : Int, asks : Nat, early : SUBSET Charge]
    /\ \A i \in study.early : charges[i].status # "absent" /\ i \notin mine
    /\ study.pc = "cleared" => study.asks \in Amounts
    /\ mine \subseteq Charge
    /\ study.pc = "off" => mine = {}
    /\ \A i \in mine : call[i] # "idle"
    /\ ~calibrated

Final(S) == \A i \in S : /\ charges[i].status \in {"estimated", "uncertain"}
                         /\ i \notin mine /\ i \notin study.early

\* The total that the study starts from is the sum of rows that stay as they
\* are and of the reservations that were pending.
Anchored == study.pc # "off" =>
    \E S \in SUBSET Charge :
        Final(S) /\ Total(OfCol(S), N) + Total(EarlyCol, N) = study.base

\* What was asked for still fits.
Cleared == study.pc = "cleared" => MineBound + study.asks <= study.cap + Lowered

SInv == IInv /\ StudyTypes /\ Anchored /\ Cleared /\ MineBound <= study.cap + Lowered

-----------------------------------------------------------------------------
LEMMA StudyColumns ==
    ASSUME TypeOK
    PROVE  /\ AllCol \in [1..N -> Int] /\ MineCol \in [1..N -> Int]
           /\ \A S : OfCol(S) \in [1..N -> Int]
           /\ EarlyCol \in [1..N -> Int] /\ LoweredCol \in [1..N -> Int]
           /\ MineBound \in Int /\ Lowered \in Int /\ Lowered = Total(LoweredCol, N)
<1>1. /\ AllCol \in [1..N -> Int] /\ MineCol \in [1..N -> Int]
      /\ \A S : OfCol(S) \in [1..N -> Int]
  BY Columns DEF AllCol, MineCol, OfCol, Charge, TypeOK, Row
<1>2. EarlyCol \in [1..N -> Int] /\ LoweredCol \in [1..N -> Int]
  <2>1. \A i \in 1..N : charges[i].reserved \in Nat /\ Bound(i) \in Nat
    BY Columns DEF Charge, TypeOK, Row
  <2>2. \A i \in 1..N : charges[i].reserved - Bound(i) \in Int
    BY <2>1
  <2> QED BY <2>1, <2>2 DEF EarlyCol, LoweredCol, Charge
<1>3. Lowered = Total(LoweredCol, N)
  BY DEF Lowered, LoweredCol
<1> QED BY <1>1, <1>2, <1>3, TotalInt, LedgerAssumption DEF MineBound

\* And in the next state.
LEMMA LoweredNext ==
    ASSUME IInv'
    PROVE  LoweredCol' \in [1..N -> Int]
<1>1. \A i \in 1..N : charges'[i].reserved \in Nat /\ Bound(i)' \in Nat
  BY ColumnsNext DEF IInv, TypeOK, Row, Charge
<1>2. \A i \in 1..N : charges'[i].reserved - Bound(i)' \in Int
  BY <1>1
<1> QED BY <1>1, <1>2 DEF LoweredCol, Charge

\* Without a calibration row the total is the sum of all charges.
LEMMA TotalIsAll ==
    ASSUME TypeOK, ~calibrated
    PROVE  /\ TotalCharged = Total(AllCol, N) /\ TotalCharged \in Int
           /\ RemainingResearch \in Int
<1> DEFINE r == ChargedCol("research")
           p == ChargedCol("public")
<1>1. N \in Nat /\ r \in [1..N -> Int] /\ p \in [1..N -> Int] /\ AllCol \in [1..N -> Int]
  BY LedgerAssumption, Columns, StudyColumns DEF Bucket
<1>2. \A k \in 1..N : AllCol[k] = r[k] + p[k]
  BY DEF AllCol, ChargedCol, Charge, TypeOK, Row, Bucket
<1> HIDE DEF r, p
<1>3. Total(AllCol, N) = Total(r, N) + Total(p, N)
  BY <1>1, <1>2, TotalAdd
<1>4. /\ Charged("research") = Total(r, N) /\ Charged("public") = Total(p, N)
      /\ Charged("research") \in Int /\ Charged("public") \in Int
  BY SumsAreTotals, CommittedInt DEF r, p, Bucket
<1>5. CalibrationCharge = 0
  BY DEF CalibrationCharge
<1>6. TotalCharged = Total(AllCol, N) /\ TotalCharged \in Int
  BY <1>3, <1>4, <1>5 DEF TotalCharged
<1>7. Cap["research"] \in Int /\ TotalCap \in Int
  BY LedgerAssumption DEF Bucket
<1> QED BY <1>4, <1>5, <1>6, <1>7 DEF RemainingResearch, Least

\* What the ledger has grown by since the start covers what the study binds,
\* but for what was settled lower meanwhile.
LEMMA GrowthCoversMine ==
    ASSUME IInv, StudyTypes, Anchored, study.pc # "off"
    PROVE  study.base + MineBound <= TotalCharged + Lowered
<1>1. PICK S \in SUBSET Charge :
         Final(S) /\ Total(OfCol(S), N) + Total(EarlyCol, N) = study.base
  BY DEF Anchored
<1> DEFINE f == [i \in Charge |-> OfCol(S)[i] + EarlyCol[i]]
<1> DEFINE h == [i \in Charge |-> f[i] + MineCol[i]]
<1> DEFINE g == [i \in Charge |-> AllCol[i] + LoweredCol[i]]
<1>2. N \in Nat /\ AllCol \in [1..N -> Int] /\ MineCol \in [1..N -> Int]
      /\ OfCol(S) \in [1..N -> Int] /\ EarlyCol \in [1..N -> Int]
      /\ LoweredCol \in [1..N -> Int] /\ Lowered = Total(LoweredCol, N)
  BY StudyColumns, LedgerAssumption DEF IInv
<1>3. f \in [1..N -> Int] /\ \A k \in 1..N : f[k] = OfCol(S)[k] + EarlyCol[k]
  BY <1>2 DEF Charge
<1>4. h \in [1..N -> Int] /\ \A k \in 1..N : h[k] = f[k] + MineCol[k]
  <2> HIDE DEF f
  <2> QED BY <1>2, <1>3 DEF Charge
<1>5. g \in [1..N -> Int] /\ \A k \in 1..N : g[k] = AllCol[k] + LoweredCol[k]
  BY <1>2 DEF Charge
<1>6. ASSUME NEW k \in 1..N PROVE h[k] <= g[k]
  <2>1. /\ Bound(k) \in Nat /\ Bound(k) <= charges[k].charged /\ charges[k].charged \in Nat
        /\ charges[k].reserved \in Nat
    BY Columns DEF IInv, TypeOK, Row, Charge
  <2>2. ~(k \in S /\ k \in mine) /\ ~(k \in S /\ k \in study.early)
        /\ ~(k \in mine /\ k \in study.early)
    BY <1>1 DEF Final, StudyTypes
  <2>3. /\ OfCol(S)[k] = IF k \in S THEN charges[k].charged ELSE 0
        /\ EarlyCol[k] = IF k \in study.early THEN charges[k].reserved ELSE 0
        /\ MineCol[k] = IF k \in mine THEN Bound(k) ELSE 0
        /\ AllCol[k] = charges[k].charged
        /\ LoweredCol[k] = IF k \in study.early THEN charges[k].reserved - Bound(k) ELSE 0
    BY DEF OfCol, EarlyCol, MineCol, AllCol, LoweredCol, Charge
  <2> HIDE DEF f, g, h
  <2>4. h[k] = (OfCol(S)[k] + EarlyCol[k]) + MineCol[k] /\ g[k] = AllCol[k] + LoweredCol[k]
    BY <1>3, <1>4, <1>5
  <2>5. CASE k \in study.early
    <3>1. h[k] = (0 + charges[k].reserved) + 0
      BY <2>2, <2>3, <2>4, <2>5
    <3>2. g[k] = charges[k].charged + (charges[k].reserved - Bound(k))
      BY <2>3, <2>4, <2>5
    <3> QED BY <2>1, <3>1, <3>2
  <2>6. CASE k \notin study.early
    <3>1. h[k] = (OfCol(S)[k] + 0) + MineCol[k] /\ g[k] = charges[k].charged + 0
      BY <2>3, <2>4, <2>6
    <3> QED BY <2>1, <2>2, <2>3, <3>1
  <2> QED BY <2>5, <2>6
<1> HIDE DEF f, g, h
<1>7. /\ Total(f, N) = Total(OfCol(S), N) + Total(EarlyCol, N)
      /\ Total(h, N) = Total(f, N) + Total(MineCol, N)
      /\ Total(g, N) = Total(AllCol, N) + Total(LoweredCol, N)
  <2>1. Total(f, N) = Total(OfCol(S), N) + Total(EarlyCol, N)
    BY <1>2, <1>3, TotalAdd
  <2>2. Total(h, N) = Total(f, N) + Total(MineCol, N)
    BY <1>2, <1>3, <1>4, TotalAdd
  <2>3. Total(g, N) = Total(AllCol, N) + Total(LoweredCol, N)
    BY <1>2, <1>5, TotalAdd
  <2> QED BY <2>1, <2>2, <2>3
<1>8. Total(h, N) <= Total(g, N)
  BY <1>2, <1>4, <1>5, <1>6, TotalMonotone
<1>9. TotalCharged = Total(AllCol, N)
  BY TotalIsAll DEF IInv, StudyTypes
<1> QED BY <1>1, <1>2, <1>7, <1>8, <1>9 DEF MineBound

-----------------------------------------------------------------------------
\* The study and what goes on beside it are steps of the ledger.
LEMMA StudyLedgerStep ==
    ASSUME StudyTypes, [SNext]_svars
    PROVE  [Next]_vars
<1> USE DEF StudyTypes
<1>1. CASE UNCHANGED svars
  BY <1>1 DEF svars, vars
<1>2. CASE Start \/ \E n \in Amounts : Preflight(n)
  BY <1>2 DEF Start, Preflight
<1>3. ASSUME NEW i \in Charge, NEW now \in Times, StudyReserve(i, now) \/ StudyRefused(i, now)
      PROVE  Next
  BY <1>3 DEF StudyReserve, StudyRefused, Next, Bucket
<1>4. CASE StudyDenied \/ StudySettles
  BY <1>4 DEF StudyDenied, StudySettles, Next
<1>5. CASE StudyOver
  BY <1>5 DEF StudyOver, Next
<1>6. CASE Unrelated
  BY <1>6 DEF Unrelated, Next
<1> QED BY <1>1, <1>2, <1>3, <1>4, <1>5, <1>6 DEF SNext

\* A row stays a row, and keeps its reservation.
LEMMA RowsStay ==
    ASSUME IInv, [Next]_vars, NEW i \in Charge, charges[i].status # "absent"
    PROVE  charges'[i].status # "absent" /\ charges'[i].reserved = charges[i].reserved
<1>1. charges[i].status \in {"reserved", "estimated", "uncertain"}
  BY DEF IInv, TypeOK, Row
<1> QED BY <1>1, AccountedStep

LEMMA StudyTypesStep ==
    ASSUME IInv, StudyTypes, [SNext]_svars
    PROVE  StudyTypes'
<1> USE DEF StudyTypes
<1>0. \A i \in Charge : charges[i].status # "absent" =>
         charges'[i].status # "absent" /\ call[i] # "idle"
  BY StudyLedgerStep, RowsStay DEF IInv, Shape
<1>1. IInv' /\ \A i \in Charge : call[i] # "idle" => call'[i] # "idle"
  <2>1. [Next]_vars
    BY StudyLedgerStep
  <2> QED BY <2>1, StepIInv DEF IInv, TypeOK, Next, vars, Reserve, Refuse, Arrives,
             SettleReported, SettleUnknown, Deny, Crash, MarkUncertain, ImportCalibration,
             Pause, Resume, ClearAccess
<1>2. CASE UNCHANGED svars
  BY <1>2 DEF svars, vars
<1>3. CASE Start
  <2>1. TotalCharged \in Int /\ RemainingResearch \in Int
    BY TotalIsAll DEF IInv
  <2>2. mine = {} /\ mine' = {}
    BY <1>3 DEF Start
  <2> QED BY <1>3, <2>1, <2>2, StudyAssumption DEF Start, Least, vars
<1>4. ASSUME NEW n \in Amounts, Preflight(n) PROVE StudyTypes'
  BY <1>4, LedgerAssumption DEF Preflight, vars
<1>5. ASSUME NEW i \in Charge, NEW now \in Times, StudyReserve(i, now)
      PROVE  StudyTypes'
  <2>1. call'[i] # "idle"
    BY <1>5 DEF StudyReserve, Reserve, IInv, TypeOK
  <2>2. study' = [study EXCEPT !.pc = "calling"] /\ mine' = mine \cup {i}
        /\ calibrated' = calibrated
    BY <1>5 DEF StudyReserve, Reserve
  <2>3. \A k \in mine' : k \in Charge /\ call'[k] # "idle"
    BY <1>1, <2>1, <2>2
  <2>4. call[i] = "idle"
    BY <1>5 DEF StudyReserve, Reserve, Arrives
  <2>5. \A k \in study.early : charges'[k].status # "absent" /\ k \notin mine'
    BY <1>0, <2>2, <2>4
  <2> QED BY <2>2, <2>3, <2>5
<1>6. ASSUME NEW i \in Charge, NEW now \in Times, StudyRefused(i, now)
      PROVE  StudyTypes'
  <2>1. study' = [study EXCEPT !.pc = "over"] /\ mine' = mine /\ calibrated' = calibrated
    BY <1>6 DEF StudyRefused, Refuse
  <2>2. study.pc = "cleared"
    BY <1>6 DEF StudyRefused
  <2> QED BY <1>0, <1>1, <2>1, <2>2
<1>7. CASE StudyDenied
  BY <1>0, <1>1, <1>7 DEF StudyDenied, Deny
<1>8. CASE StudySettles
  <2>1. study' = [study EXCEPT !.pc = "idle"] /\ mine' = mine /\ study.pc = "calling"
    BY <1>8 DEF StudySettles
  <2>2. calibrated' = calibrated
    BY <1>8 DEF StudySettles, SettleReported, SettleUnknown
  <2> QED BY <1>0, <1>1, <2>1, <2>2
<1>9. CASE StudyOver
  BY <1>0, <1>1, <1>9 DEF StudyOver, Crash, vars
<1>10. CASE Unrelated
  <2>1. study' = study /\ mine' = mine
    BY <1>10 DEF Unrelated
  <2>2. calibrated' = calibrated
    BY <1>10 DEF Unrelated, Reserve, SettleReported, SettleUnknown, Crash
  <2> QED BY <1>0, <1>1, <2>1, <2>2
<1> QED BY <1>2, <1>3, <1>4, <1>5, <1>6, <1>7, <1>8, <1>9, <1>10 DEF SNext

-----------------------------------------------------------------------------
(* The anchor.                                                             *)

LEMMA StartAnchors ==
    ASSUME IInv, StudyTypes, Start
    PROVE  Anchored'
<1> DEFINE S == {i \in Charge : charges[i].status \in {"estimated", "uncertain"}}
<1> DEFINE E == {i \in Charge : charges[i].status = "reserved"}
<1> DEFINE pending == [i \in Charge |-> IF i \in E THEN charges[i].reserved ELSE 0]
<1>1. /\ study'.base = TotalCharged /\ mine' = mine /\ mine = {} /\ charges' = charges
      /\ study'.early = E
  BY DEF Start, StudyTypes, vars
<1>2. Total(AllCol, N) = Total(OfCol(S), N) + Total(pending, N)
  <2>1. N \in Nat /\ AllCol \in [1..N -> Int] /\ OfCol(S) \in [1..N -> Int]
    BY StudyColumns, LedgerAssumption DEF IInv
  <2>2. pending \in [1..N -> Int]
    BY DEF IInv, TypeOK, Row, Charge
  <2>3. ASSUME NEW k \in 1..N PROVE AllCol[k] = OfCol(S)[k] + pending[k]
    <3>1. charges[k] \in Row /\ k \in Charge
      BY DEF IInv, TypeOK, Charge
    <3>2. charges[k].status = "absent" => charges[k].charged = 0
      BY <3>1 DEF IInv, Shape
    <3>3. charges[k].status = "reserved" => charges[k].charged = charges[k].reserved
      BY <3>1 DEF IInv, UnknownKeepsReservation
    <3> QED BY <3>1, <3>2, <3>3 DEF OfCol, AllCol, Row
  <2> HIDE DEF S, E, pending
  <2> QED BY <2>1, <2>2, <2>3, TotalAdd
<1>3. OfCol(S)' = OfCol(S) /\ EarlyCol' = pending
  BY <1>1 DEF OfCol, EarlyCol
<1>4. TotalCharged = Total(AllCol, N)
  BY TotalIsAll DEF IInv, StudyTypes
<1>5. Final(S)'
  BY <1>1 DEF Final
<1>6. S \in SUBSET Charge /\ S' = S
  BY <1>1
<1> HIDE DEF S, pending
<1> QED BY <1>1, <1>2, <1>3, <1>4, <1>5, <1>6 DEF Anchored

\* Rows that are final stay, and the study takes over no such row.
LEMMA AnchoredStep ==
    ASSUME IInv, StudyTypes, Anchored, [SNext]_svars
    PROVE  Anchored'
<1>1. CASE Start
  BY <1>1, StartAnchors
<1>2. CASE ~Start
  <2>1. study'.pc # "off" => /\ study.pc # "off" /\ study'.base = study.base
                             /\ study'.early = study.early
    BY <1>2 DEF SNext, svars, Preflight, StudyReserve, StudyRefused, StudyDenied,
           StudySettles, StudyOver, Unrelated, StudyTypes
  <2>2. \A i \in mine' : i \in mine \/ call[i] = "idle"
    BY <1>2 DEF SNext, svars, Preflight, StudyReserve, StudyRefused, StudyDenied,
           StudySettles, StudyOver, Unrelated, Reserve, Arrives
  <2>3. SUFFICES ASSUME study'.pc # "off" PROVE Anchored'
    BY DEF Anchored
  <2>4. PICK S \in SUBSET Charge :
           Final(S) /\ Total(OfCol(S), N) + Total(EarlyCol, N) = study.base
    BY <2>1, <2>3 DEF Anchored
  <2>5. \A i \in S : charges'[i] = charges[i]
    BY <2>4, StudyLedgerStep, AccountedStep DEF Final
  <2>6. Final(S)'
    <3>1. \A i \in S : call[i] # "idle"
      BY <2>4 DEF Final, IInv, Shape
    <3> QED BY <2>1, <2>2, <2>3, <2>4, <2>5, <3>1 DEF Final
  <2>7. OfCol(S)' = OfCol(S) /\ EarlyCol' = EarlyCol
    <3>1. \A i \in study.early : charges'[i].reserved = charges[i].reserved
      BY StudyLedgerStep, RowsStay DEF StudyTypes
    <3> QED BY <2>1, <2>3, <2>5, <3>1 DEF OfCol, EarlyCol
  <2>8. S' = S
    OBVIOUS
  <2> QED BY <2>1, <2>3, <2>4, <2>6, <2>7 DEF Anchored
<1> QED BY <1>1, <1>2

-----------------------------------------------------------------------------
(* What the study binds.                                                   *)

\* A step that adds no row to the study does not raise what it binds.
LEMMA MineKeeps ==
    ASSUME IInv, IInv', StudyTypes, [Next]_vars, mine' = mine
    PROVE  MineBound' <= MineBound
<1>1. N \in Nat /\ MineCol \in [1..N -> Int] /\ MineCol' \in [1..N -> Int]
  <2>1. MineCol' \in [1..N -> Int]
    BY ColumnsNext DEF IInv, MineCol, Charge
  <2> QED BY <2>1, LedgerAssumption, StudyColumns DEF IInv
<1>2. \A i \in mine : Bound(i)' <= Bound(i)
  <2>1. ASSUME NEW k \in Charge, NEW b \in Bucket, NEW n \in Nat, NEW t \in Int,
               Reserve(k, b, n, t), NEW i \in mine
        PROVE  Bound(i)' <= Bound(i)
    <3>1. i # k /\ i \in Charge
      BY <2>1 DEF Reserve, Arrives, StudyTypes
    <3>2. charges'[i] = charges[i]
      BY <2>1, <3>1 DEF Reserve, IInv, TypeOK
    <3>3. Bound(i) \in Nat
      BY <3>1, Columns DEF IInv
    <3> QED BY <3>2, <3>3 DEF Bound
  <2> QED BY <2>1, OnlyReserveRaises DEF StudyTypes
<1>3. \A i \in 1..N : MineCol'[i] <= MineCol[i]
  BY <1>2 DEF MineCol, Charge
<1>4. Total(MineCol', N) <= Total(MineCol, N)
  BY <1>1, <1>3, TotalMonotone
<1> QED BY <1>4 DEF MineBound, MineCol

\* What was pending at the start never rises again.
LEMMA LoweredGrows ==
    ASSUME IInv, IInv', StudyTypes, [Next]_vars, study'.early = study.early
    PROVE  Lowered <= Lowered'
<1>1. N \in Nat /\ LoweredCol \in [1..N -> Int] /\ Lowered = Total(LoweredCol, N)
  BY LedgerAssumption, StudyColumns DEF IInv
<1>2. LoweredCol' \in [1..N -> Int]
  BY LoweredNext
<1>3. \A i \in study.early : Bound(i)' <= Bound(i)
  <2>1. ASSUME NEW k \in Charge, NEW b \in Bucket, NEW n \in Nat, NEW t \in Int,
               Reserve(k, b, n, t), NEW i \in study.early
        PROVE  Bound(i)' <= Bound(i)
    <3>1. i # k /\ i \in Charge
      BY <2>1 DEF Reserve, Arrives, StudyTypes, IInv, Shape
    <3>2. charges'[i] = charges[i]
      BY <2>1, <3>1 DEF Reserve, IInv, TypeOK
    <3>3. Bound(i) \in Nat
      BY <3>1, Columns DEF IInv
    <3> QED BY <3>2, <3>3 DEF Bound
  <2> QED BY <2>1, OnlyReserveRaises DEF StudyTypes
<1>4. ASSUME NEW i \in 1..N PROVE LoweredCol[i] <= LoweredCol'[i]
  <2>1. CASE i \in study.early
    <3>1. i \in Charge /\ charges'[i].reserved = charges[i].reserved
      BY <2>1, RowsStay DEF StudyTypes
    <3>2. charges[i].reserved \in Nat /\ Bound(i) \in Nat /\ Bound(i)' \in Nat
      BY <3>1, Columns, ColumnsNext DEF IInv, TypeOK, Row
    <3>3. /\ LoweredCol[i] = charges[i].reserved - Bound(i)
          /\ LoweredCol'[i] = charges'[i].reserved - Bound(i)'
      BY <2>1, <3>1 DEF LoweredCol
    <3> QED BY <1>3, <2>1, <3>1, <3>2, <3>3
  <2>2. CASE i \notin study.early
    BY <2>2 DEF LoweredCol, Charge
  <2> QED BY <2>1, <2>2
<1>5. Total(LoweredCol, N) <= Total(LoweredCol', N)
  BY <1>1, <1>2, <1>4, TotalMonotone
<1>6. Lowered' = Total(LoweredCol', N)
  BY DEF Lowered, LoweredCol
<1> QED BY <1>1, <1>5, <1>6

\* A reservation of the study raises it by what was asked for.
LEMMA MineReserves ==
    ASSUME IInv, IInv', StudyTypes, NEW i \in Charge, NEW n \in Nat, NEW now,
           Reserve(i, "research", n, now), mine' = mine \cup {i}
    PROVE  MineBound' = MineBound + n
<1>1. N \in Nat /\ MineCol \in [1..N -> Int] /\ MineCol' \in [1..N -> Int]
  <2>1. MineCol' \in [1..N -> Int]
    BY ColumnsNext DEF IInv, MineCol, Charge
  <2> QED BY <2>1, LedgerAssumption, StudyColumns DEF IInv
<1>2. i \notin mine /\ i \in mine'
  BY DEF Reserve, Arrives, StudyTypes
<1>3. /\ charges'[i].charged = n /\ charges'[i].reserved = n
      /\ \A k \in Charge : k # i => charges'[k] = charges[k]
  BY DEF Reserve, IInv, TypeOK
<1>4. \A k \in 1..N : k # i => MineCol'[k] = MineCol[k]
  BY <1>3 DEF MineCol, Bound, Charge
<1>5. MineCol[i] = 0 /\ MineCol'[i] = n
  BY <1>2, <1>3 DEF MineCol, Bound
<1>6. Total(MineCol', N) = Total(MineCol, N) - MineCol[i] + MineCol'[i]
  BY <1>1, <1>4, TotalUpdate DEF Charge
<1>7. MineBound' = Total(MineCol', N) /\ MineBound = Total(MineCol, N) /\ MineBound \in Int
  BY StudyColumns DEF MineBound, MineCol, IInv
<1> QED BY <1>5, <1>6, <1>7

LEMMA PreflightClears ==
    ASSUME IInv, StudyTypes, Anchored, MineBound <= study.cap + Lowered,
           NEW n \in Nat, Preflight(n)
    PROVE  MineBound + n <= study.cap + Lowered
<1>1. /\ study.base + MineBound <= TotalCharged + Lowered /\ n <= Remaining
      /\ MineBound \in Int /\ Lowered \in Int /\ study.base \in Int /\ study.cap \in Int
      /\ TotalCharged \in Int /\ RemainingResearch \in Int
  BY GrowthCoversMine, StudyColumns, TotalIsAll DEF Preflight, StudyTypes, IInv
<1>2. MineBound <= Spent + Lowered /\ Spent \in Int
  BY <1>1 DEF Spent
<1>3. n <= study.cap - Spent \/ n <= 0
  BY <1>1, <1>2 DEF Remaining, Least
<1> QED BY <1>1, <1>2, <1>3

LEMMA MineStep ==
    ASSUME SInv, [SNext]_svars
    PROVE  Cleared' /\ MineBound' <= study'.cap + Lowered'
<1>1. /\ IInv /\ StudyTypes /\ Anchored /\ Cleared /\ MineBound <= study.cap + Lowered
      /\ [Next]_vars /\ IInv' /\ StudyTypes'
      /\ MineBound \in Int /\ MineBound' \in Int /\ Lowered \in Int /\ Lowered' \in Int
      /\ study.cap \in Nat /\ study.asks \in Nat
  <2>1. IInv /\ StudyTypes /\ IInv' /\ [Next]_vars /\ StudyTypes'
    BY StudyLedgerStep, StepIInv, StudyTypesStep DEF SInv
  <2>2. MineBound' \in Int
    <3>1. MineCol' \in [1..N -> Int]
      BY <2>1, ColumnsNext DEF IInv, MineCol, Charge
    <3>2. MineBound' = Total(MineCol', N)
      BY DEF MineBound, MineCol
    <3> QED BY <3>1, <3>2, TotalInt, LedgerAssumption
  <2>3. Lowered' \in Int
    <3>1. LoweredCol' \in [1..N -> Int]
      BY <2>1, LoweredNext
    <3>2. Lowered' = Total(LoweredCol', N)
      BY DEF Lowered, LoweredCol
    <3> QED BY <3>1, <3>2, TotalInt, LedgerAssumption
  <2> QED BY <2>1, <2>2, <2>3, StudyColumns DEF SInv, IInv, StudyTypes
<1>2. /\ mine' = mine => MineBound' <= MineBound
      /\ study'.early = study.early => Lowered <= Lowered'
  BY <1>1, MineKeeps, LoweredGrows
<1>3. CASE Start
  <2>1. mine = {} /\ mine' = {} /\ study'.pc = "idle" /\ study'.cap \in Nat
    BY <1>1, <1>3 DEF Start, StudyTypes
  <2>2. MineBound = 0
    <3>1. \A k \in 1..N : MineCol[k] = 0
      BY <2>1 DEF MineCol, Charge
    <3>2. MineCol \in [1..N -> Int] /\ N \in Nat
      BY <1>1, StudyColumns, LedgerAssumption DEF IInv
    <3> QED BY <3>1, <3>2, TotalZero DEF MineBound
  <2>3. Lowered' = 0
    <3>1. \A k \in 1..N : LoweredCol'[k] = 0
      <4>1. ASSUME NEW k \in 1..N, k \in study'.early PROVE charges'[k].reserved = Bound(k)'
        <5>1. charges' = charges /\ charges[k].status = "reserved" /\ k \in Charge
          BY <1>3, <4>1 DEF Start, vars, StudyTypes
        <5>2. charges[k].charged = charges[k].reserved
          BY <1>1, <5>1 DEF IInv, UnknownKeepsReservation
        <5> QED BY <5>1, <5>2 DEF Bound
      <4>2. \A k \in 1..N : charges'[k].reserved \in Nat /\ Bound(k)' \in Nat
        BY <1>1, ColumnsNext DEF IInv, TypeOK, Row, Charge
      <4>3. ASSUME NEW k \in 1..N PROVE LoweredCol'[k] = 0
        <5>1. CASE k \in study'.early
          <6>1. LoweredCol'[k] = charges'[k].reserved - Bound(k)'
            BY <5>1 DEF LoweredCol, Charge
          <6> QED BY <4>1, <4>2, <5>1, <6>1
        <5>2. CASE k \notin study'.early
          BY <5>2 DEF LoweredCol, Charge
        <5> QED BY <5>1, <5>2
      <4> QED BY <4>3
    <3>2. LoweredCol' = [k \in 1..N |-> 0] /\ N \in Nat
      BY <3>1, LedgerAssumption DEF LoweredCol, Charge
    <3>3. LoweredCol' \in [1..N -> Int]
      BY <3>2
    <3>4. Lowered' = Total(LoweredCol', N)
      BY DEF Lowered, LoweredCol
    <3> QED BY <3>1, <3>2, <3>3, <3>4, TotalZero
  <2> QED BY <1>1, <1>2, <2>1, <2>2, <2>3 DEF Cleared
<1>4. ASSUME NEW n \in Amounts, Preflight(n)
      PROVE  Cleared' /\ MineBound' <= study'.cap + Lowered'
  <2>1. /\ n \in Nat /\ mine' = mine /\ study'.asks = n /\ study'.cap = study.cap
        /\ study'.early = study.early
    BY <1>1, <1>4, LedgerAssumption DEF Preflight, StudyTypes
  <2>2. MineBound + n <= study.cap + Lowered
    BY <1>1, <1>4, <2>1, PreflightClears
  <2> QED BY <1>1, <1>2, <2>1, <2>2 DEF Cleared
<1>5. ASSUME NEW i \in Charge, NEW now \in Times, StudyReserve(i, now)
      PROVE  Cleared' /\ MineBound' <= study'.cap + Lowered'
  <2>1. /\ study.pc = "cleared" /\ study'.pc = "calling" /\ study'.cap = study.cap
        /\ study'.early = study.early
        /\ Reserve(i, "research", study.asks, now) /\ mine' = mine \cup {i}
    BY <1>1, <1>5 DEF StudyReserve, StudyTypes
  <2>2. MineBound' = MineBound + study.asks
    BY <1>1, <2>1, MineReserves
  <2> QED BY <1>1, <1>2, <2>1, <2>2 DEF Cleared
<1>6. CASE Unrelated \/ UNCHANGED svars
  <2>1. study' = study /\ mine' = mine
    BY <1>6 DEF Unrelated, svars
  <2> QED BY <1>1, <1>2, <2>1 DEF Cleared
<1>7. CASE StudyDenied \/ StudySettles \/ StudyOver \/
           \E i \in Charge, now \in Times : StudyRefused(i, now)
  <2>1. /\ mine' = mine /\ study'.cap = study.cap /\ study'.pc # "cleared"
        /\ study'.early = study.early
    BY <1>1, <1>7 DEF StudyDenied, StudySettles, StudyOver, StudyRefused, StudyTypes
  <2> QED BY <1>1, <1>2, <2>1 DEF Cleared
<1> QED BY <1>3, <1>4, <1>5, <1>6, <1>7 DEF SNext

-----------------------------------------------------------------------------
LEMMA InitSInv == SInit => SInv
<1> SUFFICES ASSUME SInit PROVE SInv
  OBVIOUS
<1>1. IInv /\ StudyTypes
  BY InitIInv DEF SInit, Init, StudyTypes
<1>2. \A k \in 1..N : MineCol[k] = 0
  BY DEF SInit, MineCol, Charge
<1>3. \A k \in 1..N : LoweredCol[k] = 0
  BY DEF SInit, LoweredCol, Charge
<1>4. MineBound = 0 /\ Lowered = 0
  BY <1>1, <1>2, <1>3, StudyColumns, TotalZero, LedgerAssumption DEF MineBound, IInv
<1> QED BY <1>1, <1>4 DEF SInv, SInit, Anchored, Cleared

LEMMA StepSInv == SInv /\ [SNext]_svars => SInv'
<1> SUFFICES ASSUME SInv, [SNext]_svars PROVE SInv'
  OBVIOUS
<1>1. IInv' /\ StudyTypes' /\ Anchored'
  BY StudyLedgerStep, StepIInv, StudyTypesStep, AnchoredStep DEF SInv
<1> QED BY <1>1, MineStep DEF SInv

\* What a study binds never exceeds its cap by more than what calls pending at
\* its start were settled lower, whatever is spent beside it (CappedProvider
\* checks the growth of the whole ledger, outside the transaction that
\* reserves).
THEOREM CapHolds == SSpec => []StudyWithinCap
<1>1. SInv => StudyWithinCap
  BY DEF SInv, StudyWithinCap, MineBound, MineCol
<1>2. SInv /\ [SNext]_svars => SInv'
  BY StepSInv
<1> QED BY <1>1, <1>2, InitSInv, PTL DEF SSpec

-----------------------------------------------------------------------------
(* The v0.1 study. *)

Kinds == {"fast", "deliberate", "replan", "stop"}
Episode ==
    [attempts : Nat, passed : 0..Visible, cost : Nat, last : Kinds \cup {"start"},
     improvement : Int, replans : Nat, source : [passed : 0..Visible, right : BOOLEAN],
     terminal : BOOLEAN, status : {"running", "completed", "failed", "budget_exhausted"},
     hidden : SUBSET BOOLEAN]
View == [attempts : Nat, passed : 0..Visible, cost : Nat, last : Kinds \cup {"start"},
         improvement : Int, replans : Nat]
Code == [ratio : {"all", "some", "none"}, attempts : Nat, remaining : Int,
         budget : {"low", "mid", "high"}, change : {"+", "-", "0"}, last : Kinds \cup {"none"},
         replans : {0, 1}]
Artifact == [trained : BOOLEAN, support : SUBSET (Code \X Kinds)]
Patches == {"fast", "deliberate"}
TreeRow == [state : View, action : Kinds, next : View, terminal : BOOLEAN, route : Seq(Patches),
            inc : Int, won : BOOLEAN]
Branching == [ep : Episode, route : Seq(Patches), next : 0..3]
Growing == [stack : Seq(Branching), rows : Seq(TreeRow), partial : BOOLEAN,
            reason : {"none", "provider", "sandbox", "raw", "budget"}, requests : Nat, billed : Nat]
Grown == [partial : BOOLEAN, requests : Nat, billed : Nat]
Playing == [ep : Episode, steps : Nat, pc : {"act", "grade", "record"}]
Ran == [task : Nat, split : {"train", "validation", "test"}, policy : Range(Policies),
        status : {"running", "completed", "failed", "budget_exhausted"}, solved : BOOLEAN, cost : Nat]
Job ==
    [pc : {"off", "train", "eval", "report", "close", "done", "dead"}, at : Nat \ {0},
     summaries : Seq(Grown), rows : Seq(TreeRow), artifact : {Absent} \cup Artifact,
     runs : Seq(Ran), exhausted : BOOLEAN, outcome : {"partial", "complete"}, asked : Nat]

Shapes ==
    /\ ledger \in [spent : Nat, pending : Nat, disabled : BOOLEAN]
    /\ job \in Job
    /\ tree \in {Absent} \cup Growing
    /\ ev \in {Absent} \cup Playing
    /\ DOMAIN disk = {"manifest", "controller", "benchmark", "raw", "torn"}
    /\ DOMAIN look = {"pc", "manifest", "report"}

\* Where the process is, and what it has done so far.
Place ==
    /\ tree # Absent => job.pc = "train" /\ job.at <= Len(Training)
    /\ ev # Absent => job.pc = "eval" /\ job.at <= Len(EvalPlan)
    /\ job.pc = "off" => job = NoJob /\ disk = NoFiles /\ Settled(ledger) = 0
    /\ job.pc = "train" => /\ Len(job.summaries) = job.at - 1 /\ job.at <= Len(Training) + 1
                           /\ job.runs = <<>> /\ disk.raw = <<>>
    /\ job.pc = "eval" => /\ Len(job.summaries) = Len(Training) /\ job.at <= Len(EvalPlan) + 1
                          /\ Len(job.runs) = job.at - 1 /\ disk.raw = job.runs
    /\ job.pc \in {"off", "train", "eval"} => job.outcome = "partial"

\* An allowance that ran out is on its way to the end of the study.
Halting ==
    job.exhausted =>
        /\ job.pc = "train" => tree # Absent /\ tree.partial /\ tree.reason = "budget"
        /\ job.pc = "eval" => ev # Absent /\ ev.pc = "record" /\ ev.ep.status = "budget_exhausted"

\* A study that says "complete" went through its whole plan.
Whole ==
    job.outcome = "complete" =>
        /\ ~job.exhausted /\ Len(job.summaries) = Len(Training)
        /\ Len(job.runs) = Len(EvalPlan) /\ disk.raw = job.runs

Benchmark ==
    [status |-> IF ManifestStatus = "complete" /\ RunsComplete(AggregateRuns(job.runs, "test"), "test")
                THEN "complete" ELSE "partial",
     test |-> AggregateRuns(job.runs, "test"), validation |-> AggregateRuns(job.runs, "validation")]

Closing ==
    /\ job.pc \in {"close", "done"} => disk.benchmark = Benchmark
    /\ job.pc = "done" => disk.manifest.status = ManifestStatus /\ disk.manifest.partial = TrainingPartial
    /\ job.pc # "done" => disk.manifest \in {Absent, [status |-> "running"]}

Watching ==
    look.pc \in {"controller", "raw"} =>
        \/ look.manifest = [status |-> "running"]
        \/ job.pc = "done" /\ look.manifest = disk.manifest

-----------------------------------------------------------------------------
\* The frames of a search are the path that it is on.
Trail(s) ==
    \A k \in DOMAIN s :
        /\ Len(s[k].route) = k - 1 /\ s[k].ep.attempts = k - 1
        /\ \A m \in 1..(k - 1) : /\ s[m].next \in 2..3
                                 /\ s[k].route[m] = PatchActions[s[m].next - 1]

\* Every frame but the first is where a recorded transition ended.
LeadsTo(row, f) == /\ row.route = Front(f.route) /\ row.action = Last(f.route)
                   /\ row.next = Observation(f.ep) /\ ~row.terminal
Rooted(s, rows) == \A k \in DOMAIN s : k > 1 => \E i \in DOMAIN rows : LeadsTo(rows[i], s[k])

\* What a frame has been through.
Tried(f) == IF f.next = 0 THEN {}
            ELSE {"stop"} \cup {PatchActions[n] : n \in {m \in DOMAIN PatchActions : m < f.next}}

\* A row of the k-th frame or below it, and how it leaves that frame.
Under(row, f, k) == Len(row.route) >= k - 1 /\ \A m \in 1..(k - 1) : row.route[m] = f.route[m]
Turn(row, k) == IF k = Len(row.route) + 1 THEN row.action ELSE row.route[k]

\* Nothing below a frame is recorded but by way of what it has tried.
Explored(s, rows) ==
    \A k \in DOMAIN s, i \in DOMAIN rows :
        Under(rows[i], s[k], k) => Turn(rows[i], k) \in Tried(s[k])

\* RowsFormATree of the rows of a search.
ATree(rows) ==
    \A i \in DOMAIN rows :
        /\ rows[i].state.attempts = Len(rows[i].route)
        /\ \A k \in DOMAIN rows :
              rows[k].route = rows[i].route /\ rows[k].action = rows[i].action => k = i
        /\ rows[i].route # <<>> =>
              \E k \in 1..(i - 1) : /\ rows[k].route = Front(rows[i].route)
                                    /\ rows[k].action = Last(rows[i].route)
                                    /\ rows[k].next = rows[i].state /\ ~rows[k].terminal

Walks(s, rows) == Trail(s) /\ Rooted(s, rows) /\ Explored(s, rows) /\ ATree(rows)
Walk == tree # Absent => Walks(tree.stack, tree.rows)

RSInv == /\ Shapes /\ Place /\ Halting /\ Whole /\ Closing /\ Watching /\ Walk
         /\ CostsAreTheLedgers /\ AggregateIsTrue
-----------------------------------------------------------------------------
(* The v0.1 study: what the variables hold.                                *)

Purse == [spent : Nat, pending : Nat, disabled : BOOLEAN]

LEMMA SettledInt == \A l \in Purse : Settled(l) \in Int
BY DEF Purse, Settled

\* The cost an answer reports is what the ledger charges by a settled row.
LEMMA Answers ==
    ASSUME NEW l \in Purse, NEW a \in {"fast", "deliberate", "replan"}, NEW g \in Generate(l, a)
    PROVE  /\ g.kind \in {"ok", "provider", "raw", "budget"} /\ g.cost \in Nat
           /\ g.ledger \in Purse /\ Settled(g.ledger) = Settled(l) + g.cost
<1> DEFINE reserved == Reserved[Configuration(a)]
           after(n, off) == [l EXCEPT !.spent = @ + n, !.disabled = @ \/ off]
           error(n, off) == [kind |-> "provider", cost |-> n, ledger |-> after(n, off)]
           raw(k) == [kind |-> "raw", cost |-> 0, ledger |-> k]
           open(off) == [after(reserved, off) EXCEPT !.pending = @ + reserved]
<1>1. reserved \in Nat
  BY AttemptAssumption DEF Configuration
<1>2. Settled(l) \in Int
  BY SettledInt
<1>3. \A n \in Nat, off \in BOOLEAN :
         after(n, off) \in Purse /\ Settled(after(n, off)) = Settled(l) + n
  <2> SUFFICES ASSUME NEW n \in Nat, NEW off \in BOOLEAN
               PROVE  after(n, off) \in Purse /\ Settled(after(n, off)) = Settled(l) + n
    OBVIOUS
  <2> DEFINE paused == l.disabled \/ off
  <2>1. paused \in BOOLEAN
    OBVIOUS
  <2>2. after(n, off) = [l EXCEPT !.spent = l.spent + n, !.disabled = paused]
    OBVIOUS
  <2> HIDE DEF paused, after
  <2>3. l.spent + n \in Nat /\ l.spent \in Nat /\ l.pending \in Nat
    BY DEF Purse
  <2>4. after(n, off) \in Purse
    BY <2>1, <2>2, <2>3 DEF Purse
  <2>5. after(n, off).spent = l.spent + n /\ after(n, off).pending = l.pending
    BY <2>2 DEF Purse
  <2> QED BY <2>3, <2>4, <2>5 DEF Settled
<1>4. \/ g = error(0, FALSE) \/ g = raw(l)
      \/ g = [kind |-> "budget", cost |-> 0, ledger |-> l]
      \/ g = error(reserved, TRUE) \/ g = error(reserved, FALSE)
      \/ \E n \in Usages : g = error(n, n > reserved)
      \/ \E n \in Usages : g = [kind |-> "ok", cost |-> n, ledger |-> after(n, n > reserved)]
      \/ \E off \in BOOLEAN : g = raw(open(off))
  BY DEF Generate
<1>5. Usages \subseteq Nat
  BY AttemptAssumption
<1> HIDE DEF reserved
<1>6. ASSUME NEW n \in Nat, NEW off \in BOOLEAN, NEW kind \in {"ok", "provider"},
             g = [kind |-> kind, cost |-> n, ledger |-> after(n, off)]
      PROVE  /\ g.kind \in {"ok", "provider", "raw", "budget"} /\ g.cost \in Nat
             /\ g.ledger \in Purse /\ Settled(g.ledger) = Settled(l) + g.cost
  <2> HIDE DEF after
  <2> QED BY <1>3, <1>6
<1>7. CASE g = [kind |-> "budget", cost |-> 0, ledger |-> l] \/ g = raw(l)
  BY <1>2, <1>7
<1>8. CASE g = error(0, FALSE)
  BY <1>6, <1>8
<1>9. CASE g = error(reserved, TRUE) \/ g = error(reserved, FALSE)
  BY <1>1, <1>6, <1>9
<1>10. CASE \E n \in Usages : g = error(n, n > reserved)
  BY <1>1, <1>5, <1>6, <1>10
<1>11. CASE \E n \in Usages : g = [kind |-> "ok", cost |-> n, ledger |-> after(n, n > reserved)]
  BY <1>1, <1>5, <1>6, <1>11
<1>12. CASE \E off \in BOOLEAN : g = raw(open(off))
  <2>1. PICK off \in BOOLEAN : g = raw(open(off))
    BY <1>12
  <2>2. open(off) \in Purse /\ Settled(open(off)) = Settled(l)
    <3> DEFINE m == after(reserved, off)
    <3>1. m \in Purse /\ Settled(m) = Settled(l) + reserved
      BY <1>1, <1>3
    <3> HIDE DEF m, after
    <3>2. m.pending + reserved \in Nat /\ open(off) = [m EXCEPT !.pending = m.pending + reserved]
      BY <1>1, <3>1 DEF Purse, m
    <3> QED BY <1>1, <1>2, <3>1, <3>2 DEF Purse, Settled
  <2>3. g.kind = "raw" /\ g.cost = 0 /\ g.ledger = open(off)
    BY <2>1
  <2> HIDE DEF open
  <2> QED BY <1>2, <2>2, <2>3
<1> QED BY <1>4, <1>7, <1>8, <1>9, <1>10, <1>11, <1>12

\* A step's cost is what the ledger was charged for it.
LEMMA StepIs ==
    ASSUME NEW e \in Episode, NEW l \in Purse, NEW a \in Kinds, NEW r \in Steps(e, l, a)
    PROVE  /\ r.ep \in Episode /\ r.ledger \in Purse
           /\ r.raised \in {"none", "provider", "sandbox", "raw", "budget"} /\ r.asked \in BOOLEAN
           /\ r.ep.cost >= e.cost
           /\ Settled(r.ledger) - Settled(l) = r.ep.cost - e.cost
           /\ r.raised = "budget" => r.ep.status = "budget_exhausted"
           /\ r.raised = "none" /\ ~r.ep.terminal => r.ep.attempts = e.attempts + 1
<1> DEFINE d == Decided(e, a)
<1>0. e.attempts \in Nat /\ e.cost \in Nat /\ Settled(l) \in Int
  BY SettledInt DEF Episode
<1>1. ASSUME NEW f \in Episode, f.cost = e.cost, f.terminal,
             r = [ep |-> f, ledger |-> l, raised |-> "none", asked |-> FALSE]
      PROVE  /\ r.ep \in Episode /\ r.ledger \in Purse
             /\ r.raised \in {"none", "provider", "sandbox", "raw", "budget"} /\ r.asked \in BOOLEAN
             /\ r.ep.cost >= e.cost
             /\ Settled(r.ledger) - Settled(l) = r.ep.cost - e.cost
             /\ r.raised = "budget" => r.ep.status = "budget_exhausted"
             /\ r.raised = "none" /\ ~r.ep.terminal => r.ep.attempts = e.attempts + 1
  BY <1>0, <1>1
<1>2. CASE e.terminal
  BY <1>1, <1>2 DEF Steps
<1>3. CASE ~e.terminal /\ a = "stop"
  <2> DEFINE f == [e EXCEPT !.last = "stop", !.terminal = TRUE]
  <2>1. f \in Episode /\ f.cost = e.cost /\ f.terminal
    BY DEF Episode, Kinds
  <2>2. r = [ep |-> f, ledger |-> l, raised |-> "none", asked |-> FALSE]
    BY <1>3 DEF Steps
  <2> HIDE DEF f
  <2> QED BY <1>1, <2>1, <2>2
<1>4. CASE ~e.terminal /\ a # "stop" /\ (e.attempts >= MaxSteps \/ e.cost >= EpisodeCap)
  <2> DEFINE f == [e EXCEPT !.last = a, !.terminal = TRUE]
  <2>1. f \in Episode /\ f.cost = e.cost /\ f.terminal
    BY DEF Episode
  <2>2. r = [ep |-> f, ledger |-> l, raised |-> "none", asked |-> FALSE]
    BY <1>4 DEF Steps
  <2> HIDE DEF f
  <2> QED BY <1>1, <2>1, <2>2
<1>5. CASE ~e.terminal /\ a # "stop" /\ ~(e.attempts >= MaxSteps \/ e.cost >= EpisodeCap)
  <2> DEFINE paid(g) == [d EXCEPT !.cost = @ + g.cost]
             end(g, f, raised) == [ep |-> f, ledger |-> g.ledger, raised |-> raised, asked |-> TRUE]
  <2>1. PICK g \in Generate(l, a) :
           \/ g.kind = "budget" /\ r = end(g, [paid(g) EXCEPT !.terminal = TRUE,
                                                             !.status = "budget_exhausted"], "budget")
           \/ g.kind = "provider" /\ r = end(g, [paid(g) EXCEPT !.terminal = TRUE,
                                                               !.status = "failed"], "provider")
           \/ g.kind = "raw" /\ r = end(g, paid(g), "raw")
           \/ g.kind = "ok" /\ \E s \in Candidates : r = end(g, Tested(paid(g), s), "none")
           \/ g.kind = "ok" /\ r = end(g, paid(g), "sandbox")
    <3>1. \A g \in Generate(l, a) : g.kind \in {"ok", "provider", "raw", "budget"}
      BY <1>5, Answers DEF Kinds
    <3> QED BY <1>5, <3>1 DEF Steps
  <2>2. g.cost \in Nat /\ g.ledger \in Purse /\ Settled(g.ledger) = Settled(l) + g.cost
    BY <1>5, Answers DEF Kinds
  <2>3. d \in Episode /\ d.cost = e.cost /\ d.attempts = e.attempts + 1
    <3> DEFINE again == IF a = "replan" THEN e.replans + 1 ELSE e.replans
    <3>1. again \in Nat /\ e.attempts + 1 \in Nat
      BY DEF Episode
    <3>2. d = [e EXCEPT !.last = a, !.attempts = e.attempts + 1, !.replans = again]
      BY DEF Decided
    <3> HIDE DEF d, again
    <3> QED BY <3>1, <3>2 DEF Episode
  <2> DEFINE p == paid(g)
  <2>4. p \in Episode /\ p.cost = e.cost + g.cost /\ p.attempts = e.attempts + 1
    <3> HIDE DEF d
    <3> QED BY <1>0, <2>2, <2>3 DEF Episode
  <2>5. ASSUME NEW f \in Episode, f.cost = e.cost + g.cost, f.attempts = e.attempts + 1,
               NEW raised \in {"none", "provider", "sandbox", "raw", "budget"},
               raised = "budget" => f.status = "budget_exhausted", r = end(g, f, raised)
        PROVE  /\ r.ep \in Episode /\ r.ledger \in Purse
               /\ r.raised \in {"none", "provider", "sandbox", "raw", "budget"} /\ r.asked \in BOOLEAN
               /\ r.ep.cost >= e.cost
               /\ Settled(r.ledger) - Settled(l) = r.ep.cost - e.cost
               /\ r.raised = "budget" => r.ep.status = "budget_exhausted"
               /\ r.raised = "none" /\ ~r.ep.terminal => r.ep.attempts = e.attempts + 1
    <3>1. r.ep = f /\ r.ledger = g.ledger /\ r.raised = raised /\ r.asked = TRUE
      BY <2>5
    <3> QED BY <1>0, <2>2, <2>5, <3>1
  <2> HIDE DEF d, p
  <2>6. \A st \in {"budget_exhausted", "failed"} :
           LET f == [p EXCEPT !.terminal = TRUE, !.status = st]
           IN f \in Episode /\ f.cost = e.cost + g.cost /\ f.attempts = e.attempts + 1 /\ f.status = st
    BY <2>4 DEF Episode
  <2>7. \A s \in Candidates :
           LET f == Tested(p, s)
           IN f \in Episode /\ f.cost = e.cost + g.cost /\ f.attempts = e.attempts + 1
    <3> SUFFICES ASSUME NEW s \in Candidates
                 PROVE  LET f == Tested(p, s)
                        IN f \in Episode /\ f.cost = e.cost + g.cost /\ f.attempts = e.attempts + 1
      OBVIOUS
    <3>1. /\ s \in [passed : 0..Visible, right : BOOLEAN] /\ s.passed \in 0..Visible /\ s.passed \in Int
          /\ p.passed \in Int
      BY <2>4, AttemptAssumption DEF Episode
    <3>2. s.passed - p.passed \in Int
      BY <3>1
    <3> QED BY <2>4, <3>1, <3>2 DEF Tested, Episode
  <2> DEFINE over == [p EXCEPT !.terminal = TRUE, !.status = "budget_exhausted"]
             lost == [p EXCEPT !.terminal = TRUE, !.status = "failed"]
  <2>8. CASE g.kind = "budget" /\ r = end(g, over, "budget")
    <3>1. over \in Episode /\ over.cost = e.cost + g.cost /\ over.attempts = e.attempts + 1
          /\ over.status = "budget_exhausted"
      BY <2>6
    <3> HIDE DEF over
    <3> QED BY <2>5, <2>8, <3>1
  <2>9. CASE g.kind = "provider" /\ r = end(g, lost, "provider")
    <3>1. lost \in Episode /\ lost.cost = e.cost + g.cost /\ lost.attempts = e.attempts + 1
      BY <2>6
    <3> HIDE DEF lost
    <3> QED BY <2>5, <2>9, <3>1
  <2>10. CASE g.kind = "ok" /\ \E s \in Candidates : r = end(g, Tested(p, s), "none")
    BY <2>5, <2>7, <2>10
  <2>11. CASE g.kind = "ok" /\ r = end(g, p, "sandbox")
    BY <2>4, <2>5, <2>11
  <2>12. CASE g.kind = "raw" /\ r = end(g, p, "raw")
    BY <2>4, <2>5, <2>12
  <2> QED BY <2>1, <2>8, <2>9, <2>10, <2>11, <2>12 DEF p
<1> QED BY <1>2, <1>3, <1>4, <1>5

-----------------------------------------------------------------------------
(* Sequences.                                                              *)

LEMMA SeqIs ==
    ASSUME NEW S, NEW q \in Seq(S)
    PROVE  /\ Len(q) \in Nat /\ DOMAIN q = 1..Len(q) /\ \A i \in 1..Len(q) : q[i] \in S
           /\ q # <<>> => Len(q) > 0
OBVIOUS

LEMMA Extended ==
    ASSUME NEW S, NEW q \in Seq(S), NEW x \in S
    PROVE  /\ Append(q, x) \in Seq(S) /\ Len(Append(q, x)) = Len(q) + 1
           /\ \A i \in 1..Len(q) : Append(q, x)[i] = q[i]
           /\ Append(q, x)[Len(q) + 1] = x
           /\ Front(Append(q, x)) = q /\ Last(Append(q, x)) = x
<1> DEFINE a == Append(q, x)
           n == Len(q)
<1>1. /\ a \in Seq(S) /\ n \in Nat /\ Len(a) = n + 1 /\ \A i \in 1..n : a[i] = q[i]
      /\ a[n + 1] = x
  OBVIOUS
<1>2. DOMAIN q = 1..n /\ q \in Seq(S)
  OBVIOUS
<1> HIDE DEF a, n
<1>3. SubSeq(a, 1, n) = q
  <2>1. /\ SubSeq(a, 1, n) \in Seq(S) /\ Len(SubSeq(a, 1, n)) = n
        /\ \A i \in 1..n : SubSeq(a, 1, n)[i] = a[i]
    BY <1>1
  <2>2. Len(q) = n
    BY DEF n
  <2> QED BY <1>1, <1>2, <2>1, <2>2
<1>4. Len(a) - 1 = n
  BY <1>1
<1>5. Front(a) = q
  BY <1>3, <1>4 DEF Front
<1>6. Last(a) = x
  BY <1>1 DEF Last
<1> QED BY <1>1, <1>5, <1>6 DEF a, n

LEMMA FrontIs ==
    ASSUME NEW S, NEW q \in Seq(S), Len(q) > 0
    PROVE  /\ Front(q) \in Seq(S) /\ Len(Front(q)) = Len(q) - 1
           /\ \A i \in 1..(Len(q) - 1) : Front(q)[i] = q[i]
<1> DEFINE n == Len(q) - 1
<1>1. n \in Nat /\ n <= Len(q)
  OBVIOUS
<1> HIDE DEF n
<1>2. SubSeq(q, 1, n) \in Seq(S) /\ Len(SubSeq(q, 1, n)) = n
      /\ \A i \in 1..n : SubSeq(q, 1, n)[i] = q[i]
  BY <1>1
<1>3. Front(q) = SubSeq(q, 1, n)
  BY DEF Front, n
<1> QED BY <1>2, <1>3 DEF n

\* The last element replaced.
LEMMA Replaced ==
    ASSUME NEW S, NEW q \in Seq(S), Len(q) > 0, NEW x \in S
    PROVE  /\ Front(q) \o <<x>> \in Seq(S) /\ Len(Front(q) \o <<x>>) = Len(q)
           /\ \A i \in 1..(Len(q) - 1) : (Front(q) \o <<x>>)[i] = q[i]
           /\ (Front(q) \o <<x>>)[Len(q)] = x
<1> DEFINE f == Front(q)
           n == Len(q)
<1>1. f \in Seq(S) /\ Len(f) = n - 1 /\ n \in Nat /\ n > 0
      /\ \A i \in 1..(n - 1) : f[i] = q[i]
  BY FrontIs
<1> HIDE DEF f, n
<1>2. f \o <<x>> \in Seq(S) /\ Len(f \o <<x>>) = n
  BY <1>1
<1>3. \A i \in 1..(n - 1) : (f \o <<x>>)[i] = f[i]
  BY <1>1
<1>4. (f \o <<x>>)[n] = x
  BY <1>1
<1> QED BY <1>1, <1>2, <1>3, <1>4 DEF f, n

\* The last element replaced, and one more.
LEMMA Pushed ==
    ASSUME NEW S, NEW q \in Seq(S), Len(q) > 0, NEW x \in S, NEW y \in S
    PROVE  LET p == Front(q) \o <<x>> \o <<y>>
           IN /\ p \in Seq(S) /\ Len(p) = Len(q) + 1
              /\ \A i \in 1..(Len(q) - 1) : p[i] = q[i]
              /\ p[Len(q)] = x /\ p[Len(q) + 1] = y
<1> DEFINE r == Front(q) \o <<x>>
           n == Len(q)
<1>1. /\ r \in Seq(S) /\ Len(r) = n /\ n \in Nat /\ n > 0
      /\ \A i \in 1..(n - 1) : r[i] = q[i]
      /\ r[n] = x
  BY Replaced
<1> HIDE DEF r, n
<1>2. r \o <<y>> \in Seq(S) /\ Len(r \o <<y>>) = n + 1
  BY <1>1
<1>3. \A i \in 1..n : (r \o <<y>>)[i] = r[i]
  BY <1>1
<1>4. (r \o <<y>>)[n + 1] = y
  BY <1>1
<1> QED BY <1>1, <1>2, <1>3, <1>4 DEF r, n

LEMMA NoMore == ASSUME NEW S, NEW q \in Seq(S) PROVE q \o <<>> = q
OBVIOUS
-----------------------------------------------------------------------------
(* Records and their fields.                                               *)

LEMMA EpisodeIs ==
    ASSUME NEW e \in Episode
    PROVE  /\ e.attempts \in Nat /\ e.cost \in Nat /\ e.terminal \in BOOLEAN
           /\ Observation(e) \in View /\ Observation(e).attempts = e.attempts
           /\ Finished(e) \in Episode /\ Finished(e).cost = e.cost
           /\ [e EXCEPT !.status = "failed"] \in Episode
           /\ [e EXCEPT !.status = "failed"].cost = e.cost
<1>1. e.attempts \in Nat /\ e.cost \in Nat /\ e.terminal \in BOOLEAN
  BY DEF Episode
<1>2. Observation(e) \in View /\ Observation(e).attempts = e.attempts
  BY DEF Episode, View, Observation
<1>3. Finished(e) \in Episode /\ Finished(e).cost = e.cost
  <2> DEFINE st == IF e.status = "running" THEN "completed" ELSE e.status
  <2>1. st \in {"running", "completed", "failed", "budget_exhausted"}
    BY DEF Episode
  <2>2. {e.source.right} \in SUBSET BOOLEAN
    BY DEF Episode
  <2>3. Finished(e) = [e EXCEPT !.terminal = TRUE, !.hidden = {e.source.right}, !.status = st]
    BY DEF Finished
  <2> HIDE DEF st
  <2> QED BY <2>1, <2>2, <2>3 DEF Episode
<1>4. /\ [e EXCEPT !.status = "failed"] \in Episode
      /\ [e EXCEPT !.status = "failed"].cost = e.cost
  BY DEF Episode
<1> QED BY <1>1, <1>2, <1>3, <1>4

LEMMA StartIs ==
    ASSUME NEW t \in Task
    PROVE  /\ NewEpisode(t) \in Episode /\ NewEpisode(t).cost = 0
           /\ Started(NewEpisode(t)) \in Episode /\ Started(NewEpisode(t)).cost = 0
           /\ Started(NewEpisode(t)).attempts = 0
<1> DEFINE e == NewEpisode(t)
<1>1. t.source \in [passed : 0..Visible, right : BOOLEAN]
  BY DEF Task
<1>2. e \in Episode /\ e.cost = 0 /\ e.attempts = 0
  <2>1. 0 \in 0..Visible
    BY AttemptAssumption
  <2> QED BY <1>1, <2>1 DEF NewEpisode, Episode, Kinds
<1> HIDE DEF e
<1>3. e.source.passed \in 0..Visible
  BY <1>2 DEF Episode
<1>4. Started(e) \in Episode /\ Started(e).cost = 0 /\ Started(e).attempts = 0
  BY <1>2, <1>3 DEF Started, Episode
<1> QED BY <1>2, <1>4 DEF e

LEMMA JobIs ==
    ASSUME NEW j \in Job
    PROVE  /\ j.at \in Nat \ {0} /\ j.summaries \in Seq(Grown) /\ j.rows \in Seq(TreeRow)
           /\ j.artifact \in {Absent} \cup Artifact /\ j.runs \in Seq(Ran)
           /\ j.exhausted \in BOOLEAN /\ j.outcome \in {"partial", "complete"} /\ j.asked \in Nat
           /\ j.pc \in {"off", "train", "eval", "report", "close", "done", "dead"}
BY DEF Job

LEMMA TreeIs ==
    ASSUME NEW t \in Growing
    PROVE  /\ t # Absent /\ t.stack \in Seq(Branching) /\ t.rows \in Seq(TreeRow)
           /\ t.partial \in BOOLEAN /\ t.reason \in {"none", "provider", "sandbox", "raw", "budget"}
           /\ t.requests \in Nat /\ t.billed \in Nat
BY DEF Growing, Absent

LEMMA BranchingIs ==
    ASSUME NEW f \in Branching
    PROVE  /\ f.ep \in Episode /\ f.route \in Seq(Patches) /\ f.next \in 0..3
           /\ f.next \in 0..2 => NextFrame(f, f.ep) \in Branching
           /\ \A e : /\ NextFrame(f, e).ep = f.ep /\ NextFrame(f, e).route = f.route
                     /\ NextFrame(f, e).next = f.next + 1
BY DEF Branching, NextFrame

LEMMA PlayIs ==
    ASSUME NEW v \in Playing
    PROVE  v # Absent /\ v.ep \in Episode /\ v.steps \in Nat /\ v.pc \in {"act", "grade", "record"}
BY DEF Playing, Absent

\* The plan of the evaluation.
LEMMA PlanIs ==
    /\ Len(EvalPlan) \in Nat
    /\ \A k \in 1..Len(EvalPlan) : EvalPlan[k].task \in Task /\ EvalPlan[k].policy \in Range(Policies)
<1> DEFINE h == Len(HeldOut)
           p == Len(Policies)
           n == h * p
<1>1. /\ h \in Nat /\ p \in Nat /\ p > 0
      /\ \A i \in 1..h : HeldOut[i] \in Task
      /\ \A i \in 1..p : Policies[i] \in Range(Policies)
  <2>1. HeldOut \in Seq(Task) /\ Policies \in Seq({"fixed", "deliberate", "heuristic", "adaptive"})
        /\ Policies # <<>>
    BY ResearchAssumption
  <2> QED BY <2>1, SeqIs DEF Range
<1>2. n \in Nat
  BY <1>1
<1>3. ASSUME NEW k \in 1..n
      PROVE  ((k - 1) \div p) + 1 \in 1..h /\ ((k - 1) % p) + 1 \in 1..p
  <2> DEFINE q == (k - 1) \div p
             m == (k - 1) % p
  <2>1. k - 1 \in Nat /\ k - 1 < n
    BY <1>2
  <2>2. q \in Int /\ m \in 0..(p - 1) /\ k - 1 = p * q + m
    BY <1>1, <2>1
  <2> HIDE DEF q, m
  <2>3. q >= 0
    <3>1. ASSUME q <= -1 PROVE FALSE
      <4>1. p * q <= p * (-1)
        BY <1>1, <2>2, <3>1
      <4> QED BY <1>1, <2>1, <2>2, <4>1
    <3> QED BY <2>2, <3>1
  <2>4. q < h
    <3>1. ASSUME q >= h PROVE FALSE
      <4>1. p * q >= p * h
        BY <1>1, <2>2, <3>1
      <4>2. p * h = h * p
        BY <1>1
      <4> QED BY <1>1, <2>1, <2>2, <4>1, <4>2
    <3> QED BY <1>1, <2>2, <3>1
  <2> QED BY <1>1, <2>2, <2>3, <2>4 DEF q, m
<1>4. /\ Len(EvalPlan) = n
      /\ \A k \in 1..n : /\ EvalPlan[k].task = HeldOut[((k - 1) \div p) + 1]
                         /\ EvalPlan[k].policy = Policies[((k - 1) % p) + 1]
  BY <1>2 DEF EvalPlan
<1> QED BY <1>1, <1>2, <1>3, <1>4
-----------------------------------------------------------------------------
(* The search.                                                             *)

LEMMA PatchesAre ==
    /\ DOMAIN PatchActions = 1..2 /\ \A n \in 1..2 : PatchActions[n] \in Patches
    /\ PatchActions[1] # PatchActions[2] /\ \A n \in 1..2 : PatchActions[n] # "stop"
BY DEF PatchActions, Patches

\* A frame that tried one thing more.
LEMMA TriedIs ==
    ASSUME NEW f \in Branching, NEW g \in Branching, g.next = f.next + 1
    PROVE  /\ Tried(f) \subseteq Tried(g)
           /\ f.next = 0 => Tried(f) = {} /\ "stop" \in Tried(g)
           /\ f.next \in 1..2 => PatchActions[f.next] \in Tried(g) \ Tried(f)
<1>1. f.next \in 0..3 /\ g.next \in 0..3
  BY DEF Branching
<1>2. Tried(f) \subseteq Tried(g)
  BY <1>1, PatchesAre DEF Tried
<1>3. f.next = 0 => Tried(f) = {} /\ "stop" \in Tried(g)
  BY <1>1 DEF Tried
<1>4. ASSUME f.next \in 1..2 PROVE PatchActions[f.next] \in Tried(g) \ Tried(f)
  <2>1. PatchActions[f.next] \in Tried(g)
    BY <1>1, <1>4, PatchesAre DEF Tried
  <2>2. ASSUME NEW m \in 1..2, m < f.next PROVE PatchActions[f.next] # PatchActions[m]
    BY <1>4, <2>2, PatchesAre
  <2>3. PatchActions[f.next] # "stop"
    BY <1>4, PatchesAre
  <2> QED BY <1>1, <2>1, <2>2, <2>3, PatchesAre DEF Tried
<1> QED BY <1>2, <1>3, <1>4

LEMMA WalksBack ==
    ASSUME NEW s \in Seq(Branching), NEW rows \in Seq(TreeRow), Len(s) > 0, Walks(s, rows)
    PROVE  Front(s) \in Seq(Branching) /\ Walks(Front(s), rows)
<1> DEFINE b == Front(s)
           n == Len(s)
<1>1. /\ b \in Seq(Branching) /\ Len(b) = n - 1 /\ n \in Nat /\ n > 0
      /\ DOMAIN b = 1..(n - 1) /\ DOMAIN s = 1..n /\ \A i \in 1..(n - 1) : b[i] = s[i]
  BY FrontIs, SeqIs
<1> HIDE DEF b, n
<1>2. Trail(s) /\ Rooted(s, rows) /\ Explored(s, rows) /\ ATree(rows)
  BY Zenon DEF Walks
<1>3. \A k \in DOMAIN b : k \in DOMAIN s /\ b[k] = s[k] /\ \A m \in 1..(k - 1) : b[m] = s[m]
  BY <1>1
<1>4. Trail(b)
  <2> SUFFICES ASSUME NEW k \in DOMAIN b
               PROVE  /\ Len(b[k].route) = k - 1 /\ b[k].ep.attempts = k - 1
                      /\ \A m \in 1..(k - 1) : /\ b[m].next \in 2..3
                                               /\ b[k].route[m] = PatchActions[b[m].next - 1]
    BY DEF Trail
  <2>1. k \in DOMAIN s /\ b[k] = s[k] /\ \A m \in 1..(k - 1) : b[m] = s[m]
    BY <1>3
  <2>2. /\ Len(s[k].route) = k - 1 /\ s[k].ep.attempts = k - 1
        /\ \A m \in 1..(k - 1) : /\ s[m].next \in 2..3
                                 /\ s[k].route[m] = PatchActions[s[m].next - 1]
    BY <1>2, <2>1 DEF Trail
  <2> QED BY <2>1, <2>2
<1>5. Rooted(b, rows)
  BY <1>2, <1>3 DEF Rooted
<1>6. Explored(b, rows)
  BY <1>2, <1>3 DEF Explored
<1> QED BY <1>1, <1>2, <1>4, <1>5, <1>6 DEF Walks, b

\* The top frame goes on, and what it tried may be recorded.
LEMMA WalksOn ==
    ASSUME NEW s \in Seq(Branching), NEW rows \in Seq(TreeRow), Len(s) > 0, Walks(s, rows),
           NEW g \in Branching, g.ep = s[Len(s)].ep, g.route = s[Len(s)].route,
           g.next = s[Len(s)].next + 1
    PROVE  Front(s) \o <<g>> \in Seq(Branching) /\ Walks(Front(s) \o <<g>>, rows)
<1> DEFINE b == Front(s) \o <<g>>
           n == Len(s)
<1>1. /\ b \in Seq(Branching) /\ Len(b) = n /\ n \in Nat /\ n > 0
      /\ DOMAIN b = 1..n /\ DOMAIN s = 1..n /\ \A i \in 1..(n - 1) : b[i] = s[i]
      /\ b[n] = g
  BY Replaced, SeqIs
<1>2. s[n] \in Branching /\ g.ep = s[n].ep /\ g.route = s[n].route /\ g.next = s[n].next + 1
  BY <1>1, SeqIs
<1> HIDE DEF b, n
<1>3. Trail(s) /\ Rooted(s, rows) /\ Explored(s, rows) /\ ATree(rows)
  BY Zenon DEF Walks
<1>4. \A k \in 1..n : b[k].ep = s[k].ep /\ b[k].route = s[k].route
  BY <1>1, <1>2
<1>5. Tried(s[n]) \subseteq Tried(g)
  BY <1>2, TriedIs
<1>6. Trail(b)
  <2> SUFFICES ASSUME NEW k \in 1..n
               PROVE  /\ Len(b[k].route) = k - 1 /\ b[k].ep.attempts = k - 1
                      /\ \A m \in 1..(k - 1) : /\ b[m].next \in 2..3
                                               /\ b[k].route[m] = PatchActions[b[m].next - 1]
    BY <1>1 DEF Trail
  <2>1. /\ Len(s[k].route) = k - 1 /\ s[k].ep.attempts = k - 1
        /\ \A m \in 1..(k - 1) : /\ s[m].next \in 2..3
                                 /\ s[k].route[m] = PatchActions[s[m].next - 1]
    BY <1>1, <1>3 DEF Trail
  <2>2. \A m \in 1..(k - 1) : b[m] = s[m]
    BY <1>1
  <2> QED BY <1>4, <2>1, <2>2
<1>7. Rooted(b, rows)
  BY <1>1, <1>3, <1>4 DEF Rooted, LeadsTo
<1>8. Explored(b, rows)
  <2> SUFFICES ASSUME NEW k \in 1..n, NEW i \in DOMAIN rows, Under(rows[i], b[k], k)
               PROVE  Turn(rows[i], k) \in Tried(b[k])
    BY <1>1 DEF Explored
  <2>1. Under(rows[i], s[k], k)
    BY <1>4 DEF Under
  <2>2. Turn(rows[i], k) \in Tried(s[k])
    BY <1>1, <1>3, <2>1 DEF Explored
  <2>3. k = n \/ k \in 1..(n - 1)
    BY <1>1
  <2> QED BY <1>1, <1>5, <2>2, <2>3
<1> QED BY <1>1, <1>3, <1>6, <1>7, <1>8 DEF Walks, b

LEMMA WalksRecorded ==
    ASSUME NEW s \in Seq(Branching), NEW rows \in Seq(TreeRow), Len(s) > 0, Walks(s, rows),
           NEW g \in Branching, g.ep = s[Len(s)].ep, g.route = s[Len(s)].route,
           g.next = s[Len(s)].next + 1,
           NEW row \in TreeRow, row.route = s[Len(s)].route,
           row.state = Observation(s[Len(s)].ep), row.action \in Tried(g) \ Tried(s[Len(s)])
    PROVE  /\ Append(rows, row) \in Seq(TreeRow) /\ Front(s) \o <<g>> \in Seq(Branching)
           /\ Walks(Front(s) \o <<g>>, Append(rows, row))
<1> DEFINE b == Front(s) \o <<g>>
           n == Len(s)
           q == Len(rows)
           more == Append(rows, row)
           top == s[n]
<1>1. b \in Seq(Branching) /\ Walks(b, rows)
  BY WalksOn
<1>2. /\ Len(b) = n /\ n \in Nat /\ n > 0 /\ DOMAIN b = 1..n /\ DOMAIN s = 1..n
      /\ \A i \in 1..(n - 1) : b[i] = s[i]
      /\ b[n] = g /\ top \in Branching
  BY Replaced, SeqIs
<1>3. /\ more \in Seq(TreeRow) /\ Len(more) = q + 1 /\ q \in Nat /\ DOMAIN rows = 1..q
      /\ DOMAIN more = 1..(q + 1) /\ \A i \in 1..q : more[i] = rows[i]
      /\ more[q + 1] = row
  BY Extended, SeqIs
<1>4. /\ row.route = top.route /\ row.state = Observation(top.ep)
      /\ row.action \in Tried(g) /\ row.action \notin Tried(top)
  OBVIOUS
<1>5. Trail(s) /\ Rooted(s, rows) /\ Explored(s, rows) /\ ATree(rows)
  BY Zenon DEF Walks
<1> HIDE DEF b, n, q, more, top
<1>6. Trail(b) /\ Rooted(b, rows) /\ Explored(b, rows)
  BY <1>1, Zenon DEF Walks
<1>7. /\ Len(top.route) = n - 1 /\ top.ep.attempts = n - 1
      /\ \A m \in 1..(n - 1) : /\ s[m].next \in 2..3
                               /\ top.route[m] = PatchActions[s[m].next - 1]
  <2>1. n \in DOMAIN s
    BY <1>2
  <2> QED BY <1>5, <2>1 DEF Trail, top
<1>8. Rooted(b, more)
  BY <1>3, <1>6 DEF Rooted
<1>9. Explored(b, more)
  <2> SUFFICES ASSUME NEW k \in 1..n, NEW i \in 1..(q + 1), Under(more[i], b[k], k)
               PROVE  Turn(more[i], k) \in Tried(b[k])
    BY <1>2, <1>3 DEF Explored
  <2>1. CASE i \in 1..q
    BY <1>2, <1>3, <1>6, <2>1 DEF Explored
  <2>2. CASE i = q + 1 /\ k = n
    <3>1. Turn(row, n) = row.action
      BY <1>2, <1>4, <1>7 DEF Turn
    <3> QED BY <1>2, <1>3, <1>4, <2>2, <3>1
  <2>3. CASE i = q + 1 /\ k \in 1..(n - 1)
    <3>1. Turn(row, k) = top.route[k]
      BY <1>2, <1>4, <1>7, <2>3 DEF Turn
    <3>2. s[k].next \in 2..3 /\ top.route[k] = PatchActions[s[k].next - 1]
      BY <1>7, <2>3
    <3>3. PatchActions[s[k].next - 1] \in Tried(s[k])
      BY <3>2, PatchesAre DEF Tried
    <3> QED BY <1>2, <1>3, <2>3, <3>1, <3>2, <3>3
  <2> QED BY <1>2, <1>3, <2>1, <2>2, <2>3
<1>10. ATree(more)
  <2>1. ASSUME NEW k \in 1..q, rows[k].route = row.route, rows[k].action = row.action PROVE FALSE
    <3>1. Under(rows[k], top, n) /\ Turn(rows[k], n) = row.action
      BY <1>2, <1>4, <1>7, <2>1 DEF Under, Turn
    <3>2. Turn(rows[k], n) \in Tried(top)
      BY <1>2, <1>3, <1>5, <3>1 DEF Explored, top
    <3> QED BY <1>4, <3>1, <3>2
  <2>2. row.state.attempts = Len(row.route)
    <3>1. top.ep \in Episode
      BY <1>2, BranchingIs
    <3> QED BY <1>4, <1>7, <3>1, EpisodeIs
  <2>3. row.route # <<>> =>
           \E k \in 1..q : /\ rows[k].route = Front(row.route) /\ rows[k].action = Last(row.route)
                           /\ rows[k].next = row.state /\ ~rows[k].terminal
    <3>1. ASSUME row.route # <<>> PROVE n > 1
      <4>1. top.route \in Seq(Patches)
        BY <1>2, BranchingIs
      <4> QED BY <1>2, <1>4, <1>7, <3>1, <4>1
    <3>2. n > 1 => \E k \in DOMAIN rows : LeadsTo(rows[k], top)
      BY <1>2, <1>5 DEF Rooted, top
    <3> QED BY <1>3, <1>4, <3>1, <3>2 DEF LeadsTo
  <2> SUFFICES ASSUME NEW i \in 1..(q + 1)
               PROVE  /\ more[i].state.attempts = Len(more[i].route)
                      /\ \A k \in 1..(q + 1) : more[k].route = more[i].route
                                               /\ more[k].action = more[i].action => k = i
                      /\ more[i].route # <<>> =>
                           \E k \in 1..(i - 1) : /\ more[k].route = Front(more[i].route)
                                                 /\ more[k].action = Last(more[i].route)
                                                 /\ more[k].next = more[i].state
                                                 /\ ~more[k].terminal
    BY <1>3 DEF ATree
  <2>4. CASE i = q + 1
    <3>1. \A k \in 1..(q + 1) : more[k].route = more[i].route /\ more[k].action = more[i].action
                                => k = i
      BY <1>3, <2>1, <2>4
    <3>2. more[i] = row /\ i - 1 = q /\ \A k \in 1..q : more[k] = rows[k]
      BY <1>3, <2>4
    <3> QED BY <2>2, <2>3, <3>1, <3>2
  <2>5. CASE i \in 1..q
    <3>1. more[i] = rows[i] /\ i \in DOMAIN rows /\ \A k \in 1..(i - 1) : more[k] = rows[k]
      BY <1>3, <2>5
    <3>2. /\ rows[i].state.attempts = Len(rows[i].route)
          /\ \A k \in DOMAIN rows :
                rows[k].route = rows[i].route /\ rows[k].action = rows[i].action => k = i
          /\ rows[i].route # <<>> =>
                \E k \in 1..(i - 1) : /\ rows[k].route = Front(rows[i].route)
                                      /\ rows[k].action = Last(rows[i].route)
                                      /\ rows[k].next = rows[i].state /\ ~rows[k].terminal
      BY <1>5, <3>1 DEF ATree
    <3>3. ASSUME NEW k \in 1..(q + 1), more[k].route = more[i].route, more[k].action = more[i].action
          PROVE  k = i
      <4>1. k \in 1..q \/ k = q + 1
        BY <1>3
      <4>2. k # q + 1
        BY <1>3, <2>1, <2>5, <3>1, <3>3
      <4> QED BY <1>3, <3>1, <3>2, <3>3, <4>1, <4>2
    <3> QED BY <3>1, <3>2, <3>3
  <2> QED BY <1>3, <2>4, <2>5
<1> QED BY <1>1, <1>3, <1>6, <1>8, <1>9, <1>10 DEF Walks, b, more

\* A new frame.
LEMMA WalksDown ==
    ASSUME NEW s \in Seq(Branching), NEW rows \in Seq(TreeRow), Len(s) > 0, Walks(s, rows),
           s[Len(s)].next \in 2..3,
           NEW g \in Branching, g.ep.attempts = Len(s), g.next = 0,
           g.route = Append(s[Len(s)].route, PatchActions[s[Len(s)].next - 1]),
           \E i \in DOMAIN rows : LeadsTo(rows[i], g),
           \A i \in DOMAIN rows : ~Under(rows[i], g, Len(s) + 1)
    PROVE  s \o <<g>> \in Seq(Branching) /\ Walks(s \o <<g>>, rows)
<1> DEFINE b == s \o <<g>>
           n == Len(s)
           top == s[n]
<1>1. b = Append(s, g)
  OBVIOUS
<1>2. /\ b \in Seq(Branching) /\ Len(b) = n + 1 /\ n \in Nat /\ n > 0
      /\ DOMAIN b = 1..(n + 1) /\ DOMAIN s = 1..n /\ \A i \in 1..n : b[i] = s[i]
      /\ b[n + 1] = g /\ top \in Branching
  BY <1>1, Extended, SeqIs
<1>3. /\ top.next \in 2..3 /\ g.ep.attempts = n /\ g.next = 0
      /\ g.route = Append(top.route, PatchActions[top.next - 1])
      /\ \E i \in DOMAIN rows : LeadsTo(rows[i], g)
      /\ \A i \in DOMAIN rows : ~Under(rows[i], g, n + 1)
  OBVIOUS
<1> HIDE DEF b, n, top
<1>4. Trail(s) /\ Rooted(s, rows) /\ Explored(s, rows) /\ ATree(rows)
  BY Zenon DEF Walks
<1>5. /\ Len(top.route) = n - 1 /\ top.route \in Seq(Patches)
      /\ \A m \in 1..(n - 1) : /\ s[m].next \in 2..3
                               /\ top.route[m] = PatchActions[s[m].next - 1]
  <2>1. n \in DOMAIN s
    BY <1>2
  <2> QED BY <1>2, <1>4, <2>1, BranchingIs DEF Trail, top
<1>6. /\ Len(g.route) = n /\ \A m \in 1..(n - 1) : g.route[m] = top.route[m]
      /\ g.route[n] = PatchActions[top.next - 1]
  <2>1. PatchActions[top.next - 1] \in Patches
    BY <1>3, PatchesAre
  <2> DEFINE x == PatchActions[top.next - 1]
             r == top.route
  <2>2. /\ Len(Append(r, x)) = Len(r) + 1 /\ \A i \in 1..Len(r) : Append(r, x)[i] = r[i]
        /\ Append(r, x)[Len(r) + 1] = x
    BY <1>5, <2>1, Extended
  <2>3. g.route = Append(r, x)
    BY <1>3
  <2>4. Len(r) = n - 1
    BY <1>5
  <2> HIDE DEF x, r
  <2>5. /\ Len(g.route) = n /\ \A i \in 1..(n - 1) : g.route[i] = r[i]
        /\ g.route[n] = x
    BY <1>2, <2>2, <2>3, <2>4
  <2> QED BY <2>5 DEF x, r
<1>7. Trail(b)
  <2> SUFFICES ASSUME NEW k \in 1..(n + 1)
               PROVE  /\ Len(b[k].route) = k - 1 /\ b[k].ep.attempts = k - 1
                      /\ \A m \in 1..(k - 1) : /\ b[m].next \in 2..3
                                               /\ b[k].route[m] = PatchActions[b[m].next - 1]
    BY <1>2 DEF Trail
  <2>1. CASE k \in 1..n
    <3>1. b[k] = s[k] /\ k \in DOMAIN s /\ \A m \in 1..(k - 1) : b[m] = s[m]
      BY <1>2, <2>1
    <3>2. /\ Len(s[k].route) = k - 1 /\ s[k].ep.attempts = k - 1
          /\ \A m \in 1..(k - 1) : /\ s[m].next \in 2..3
                                   /\ s[k].route[m] = PatchActions[s[m].next - 1]
      BY <1>4, <3>1 DEF Trail
    <3> QED BY <3>1, <3>2
  <2>2. CASE k = n + 1
    <3>1. b[k] = g /\ k - 1 = n /\ b[n] = top /\ \A m \in 1..n : b[m] = s[m]
      BY <1>2, <2>2 DEF top
    <3>2. ASSUME NEW m \in 1..n
          PROVE  b[m].next \in 2..3 /\ g.route[m] = PatchActions[b[m].next - 1]
      <4>1. m = n \/ m \in 1..(n - 1)
        BY <1>2
      <4> QED BY <1>3, <1>5, <1>6, <3>1, <4>1
    <3> QED BY <1>3, <1>6, <3>1, <3>2
  <2> QED BY <1>2, <2>1, <2>2
<1>8. Rooted(b, rows)
  <2> SUFFICES ASSUME NEW k \in 1..(n + 1), k > 1 PROVE \E i \in DOMAIN rows : LeadsTo(rows[i], b[k])
    BY <1>2 DEF Rooted
  <2>1. k = n + 1 \/ k \in 1..n
    BY <1>2
  <2> QED BY <1>2, <1>3, <1>4, <2>1 DEF Rooted
<1>9. Explored(b, rows)
  <2> SUFFICES ASSUME NEW k \in 1..(n + 1), NEW i \in DOMAIN rows, Under(rows[i], b[k], k)
               PROVE  Turn(rows[i], k) \in Tried(b[k])
    BY <1>2 DEF Explored
  <2>1. k = n + 1 \/ k \in 1..n
    BY <1>2
  <2> QED BY <1>2, <1>3, <1>4, <2>1 DEF Explored
<1> QED BY <1>2, <1>4, <1>7, <1>8, <1>9 DEF Walks, b

-----------------------------------------------------------------------------
(* What was spent.                                                         *)

LEMMA NothingSpent == CollectionCost(<<>>) = 0 /\ EvaluationCost(<<>>) = 0
<1> DEFINE f == [i \in DOMAIN <<>> |-> <<>>[i].billed]
           g == [i \in DOMAIN <<>> |-> <<>>[i].cost]
<1>1. Len(<<>>) = 0 /\ DOMAIN <<>> = {} /\ 1..0 = {}
  OBVIOUS
<1>2. f \in [1..0 -> Int] /\ g \in [1..0 -> Int]
  BY <1>1
<1>3. Total(f, 0) = 0 /\ Total(g, 0) = 0
  <2> HIDE DEF f, g
  <2>1. \A k \in 1..0 : f[k] = 0 /\ g[k] = 0
    OBVIOUS
  <2>2. Total(f, 0) = 0
    BY <1>2, <2>1, TotalZero
  <2>3. Total(g, 0) = 0
    BY <1>2, <2>1, TotalZero
  <2> QED BY <2>2, <2>3
<1> QED BY <1>1, <1>3 DEF CollectionCost, EvaluationCost

LEMMA CollectionMore ==
    ASSUME NEW q \in Seq(Grown), NEW x \in Grown
    PROVE  CollectionCost(Append(q, x)) = CollectionCost(q) + x.billed
<1> DEFINE a == Append(q, x)
           n == Len(q)
           f == [i \in DOMAIN q |-> q[i].billed]
           g == [i \in DOMAIN a |-> a[i].billed]
<1>1. /\ a \in Seq(Grown) /\ n \in Nat /\ Len(a) = n + 1 /\ DOMAIN q = 1..n
      /\ DOMAIN a = 1..(n + 1) /\ \A i \in 1..n : a[i] = q[i] /\ q[i] \in Grown
      /\ a[n + 1] = x
  BY Extended, SeqIs
<1>2. \A y \in Grown : y.billed \in Int
  BY DEF Grown
<1> HIDE DEF a, n
<1>3. f \in [1..n -> Int] /\ g \in [1..(n + 1) -> Int]
  <2>1. \A i \in 1..(n + 1) : a[i] \in Grown
    BY <1>1
  <2> QED BY <1>1, <1>2, <2>1
<1>4. (\A k \in 1..n : g[k] = f[k]) /\ g[n + 1] = x.billed
  BY <1>1
<1> HIDE DEF f, g
<1>5. Total(g, n + 1) = Total(f, n) + g[n + 1]
  BY <1>1, <1>3, <1>4, TotalAppend
<1>6. CollectionCost(q) = Total(f, n) /\ CollectionCost(a) = Total(g, n + 1)
  BY <1>1 DEF CollectionCost, f, g, n
<1> QED BY <1>4, <1>5, <1>6 DEF a

LEMMA EvaluationMore ==
    ASSUME NEW q \in Seq(Ran), NEW x \in Ran
    PROVE  EvaluationCost(Append(q, x)) = EvaluationCost(q) + x.cost
<1> DEFINE a == Append(q, x)
           n == Len(q)
           f == [i \in DOMAIN q |-> q[i].cost]
           g == [i \in DOMAIN a |-> a[i].cost]
<1>1. /\ a \in Seq(Ran) /\ n \in Nat /\ Len(a) = n + 1 /\ DOMAIN q = 1..n
      /\ DOMAIN a = 1..(n + 1) /\ \A i \in 1..n : a[i] = q[i] /\ q[i] \in Ran
      /\ a[n + 1] = x
  BY Extended, SeqIs
<1>2. \A y \in Ran : y.cost \in Int
  BY DEF Ran
<1> HIDE DEF a, n
<1>3. f \in [1..n -> Int] /\ g \in [1..(n + 1) -> Int]
  <2>1. \A i \in 1..(n + 1) : a[i] \in Ran
    BY <1>1
  <2> QED BY <1>1, <1>2, <2>1
<1>4. (\A k \in 1..n : g[k] = f[k]) /\ g[n + 1] = x.cost
  BY <1>1
<1> HIDE DEF f, g
<1>5. Total(g, n + 1) = Total(f, n) + g[n + 1]
  BY <1>1, <1>3, <1>4, TotalAppend
<1>6. EvaluationCost(q) = Total(f, n) /\ EvaluationCost(a) = Total(g, n + 1)
  BY <1>1 DEF EvaluationCost, f, g, n
<1> QED BY <1>4, <1>5, <1>6 DEF a

LEMMA CostsAre ==
    /\ \A q \in Seq(Grown) : CollectionCost(q) \in Int
    /\ \A q \in Seq(Ran) : EvaluationCost(q) \in Int
<1>1. ASSUME NEW q \in Seq(Grown) PROVE CollectionCost(q) \in Int
  <2> DEFINE f == [i \in DOMAIN q |-> q[i].billed]
             n == Len(q)
  <2>1. n \in Nat /\ f \in [1..n -> Int]
    <3>1. DOMAIN q = 1..Len(q) /\ Len(q) \in Nat /\ \A i \in 1..Len(q) : q[i] \in Grown
      OBVIOUS
    <3>2. \A x \in Grown : x.billed \in Int
      BY DEF Grown
    <3> QED BY <3>1, <3>2
  <2> HIDE DEF f, n
  <2>2. Total(f, n) \in Int
    BY <2>1, TotalInt
  <2> QED BY <2>2 DEF CollectionCost, f, n
<1>2. ASSUME NEW q \in Seq(Ran) PROVE EvaluationCost(q) \in Int
  <2> DEFINE f == [i \in DOMAIN q |-> q[i].cost]
             n == Len(q)
  <2>1. n \in Nat /\ f \in [1..n -> Int]
    <3>1. DOMAIN q = 1..Len(q) /\ Len(q) \in Nat /\ \A i \in 1..Len(q) : q[i] \in Ran
      OBVIOUS
    <3>2. \A x \in Ran : x.cost \in Int
      BY DEF Ran
    <3> QED BY <3>1, <3>2
  <2> HIDE DEF f, n
  <2>2. Total(f, n) \in Int
    BY <2>1, TotalInt
  <2> QED BY <2>2 DEF EvaluationCost, f, n
<1> QED BY <1>1, <1>2
-----------------------------------------------------------------------------
(* The steps of the study.                                                 *)

LEMMA InvIs ==
    ASSUME RSInv
    PROVE  /\ Shapes /\ Place /\ Halting /\ Whole /\ Closing /\ Watching /\ Walk
           /\ CostsAreTheLedgers /\ AggregateIsTrue
BY Zenon DEF RSInv

\* A program that looks on while the study is not over has not accepted it.
LEMMA LookKept ==
    ASSUME RSInv, UNCHANGED look, job.pc # "done"
    PROVE  Watching' /\ AggregateIsTrue'
BY DEF RSInv, Watching, AggregateIsTrue

LEMMA WalkKept ==
    ASSUME RSInv, UNCHANGED tree \/ tree' = Absent
    PROVE  Walk'
BY DEF RSInv, Walk

LEMMA ClosingKept ==
    ASSUME RSInv, disk'.manifest = disk.manifest, job.pc # "done",
           job'.pc \notin {"close", "done"}
    PROVE  Closing'
BY DEF RSInv, Closing

\* What is known of the costs, as numbers.
LEMMA KnownIs ==
    ASSUME RSInv
    PROVE  /\ CollectionCost(job.summaries) \in Int /\ EvaluationCost(job.runs) \in Int
           /\ Known \in Int /\ Settled(ledger) \in Int
           /\ tree # Absent => tree.billed \in Nat
           /\ ev # Absent => ev.ep.cost \in Nat
<1>1. Settled(ledger) \in Int
  BY SettledInt DEF RSInv, Shapes, Purse
<1>2. tree # Absent => tree.billed \in Nat
  BY TreeIs DEF RSInv, Shapes
<1>3. ev # Absent => ev.ep.cost \in Nat
  BY PlayIs, EpisodeIs DEF RSInv, Shapes
<1>4. CollectionCost(job.summaries) \in Int /\ EvaluationCost(job.runs) \in Int
  BY CostsAre, JobIs DEF RSInv, Shapes
<1> QED BY <1>1, <1>2, <1>3, <1>4 DEF Known

LEMMA InitRS == ResearchInit => RSInv
<1> SUFFICES ASSUME ResearchInit PROVE RSInv
  OBVIOUS
<1>1. /\ ledger = [spent |-> 0, pending |-> 0, disabled |-> FALSE]
      /\ job = NoJob /\ tree = Absent /\ ev = Absent /\ disk = NoFiles /\ look = NotLooking
  BY DEF ResearchInit
<1>2. Shapes
  BY <1>1 DEF Shapes, NoJob, Job, NoFiles, NotLooking
<1>3. Place
  BY <1>1 DEF Place, NoJob, Settled
<1>4. Halting /\ Whole /\ Closing /\ Watching /\ Walk /\ AggregateIsTrue
  BY <1>1 DEF Halting, Whole, Closing, Watching, Walk, AggregateIsTrue, NoJob, NoFiles, NotLooking
<1>5. CostsAreTheLedgers
  <2>1. Known = 0
    BY <1>1, NothingSpent DEF Known, NoJob
  <2> QED BY <1>1, <2>1 DEF CostsAreTheLedgers, Settled
<1> QED BY <1>2, <1>3, <1>4, <1>5 DEF RSInv

LEMMA StepBegin ==
    ASSUME RSInv, Begin
    PROVE  RSInv'
<1>1. /\ job.pc = "off" /\ job' = [job EXCEPT !.pc = "train"]
      /\ disk' = [disk EXCEPT !.manifest = [status |-> "running"]]
      /\ UNCHANGED <<ledger, tree, ev, look>>
  BY DEF Begin
<1>2. /\ job = NoJob /\ disk = NoFiles /\ Settled(ledger) = 0 /\ tree = Absent /\ ev = Absent
  BY <1>1 DEF RSInv, Place
<1>3. Shapes'
  BY <1>1, <1>2 DEF RSInv, Shapes, NoJob, NoFiles, Job
<1>4. Place'
  <2>1. Len(Training) \in Nat
    BY ResearchAssumption
  <2> QED BY <1>1, <1>2, <2>1 DEF Place, NoJob, NoFiles
<1>5. Halting' /\ Whole' /\ Closing'
  BY <1>1, <1>2 DEF Halting, Whole, Closing, NoJob, NoFiles
<1>6. CostsAreTheLedgers'
  <2>1. Known' = 0
    BY <1>1, <1>2, NothingSpent DEF Known, NoJob
  <2> QED BY <1>1, <1>2, <2>1 DEF CostsAreTheLedgers
<1>7. Walk' /\ Watching' /\ AggregateIsTrue'
  BY <1>1, WalkKept, LookKept
<1> QED BY <1>3, <1>4, <1>5, <1>6, <1>7 DEF RSInv

LEMMA StepPlant ==
    ASSUME RSInv, Plant
    PROVE  RSInv'
<1> DEFINE e == Started(NewEpisode(Training[job.at]))
           f == Frame(e, <<>>)
<1>1. /\ job.pc = "train" /\ tree = Absent /\ job.at <= Len(Training)
      /\ tree' = [stack |-> <<f>>, rows |-> <<>>,
                  partial |-> FALSE, reason |-> "none", requests |-> 0, billed |-> 0]
      /\ UNCHANGED <<ledger, job, ev, disk, look>>
  BY DEF Plant
<1>2. e \in Episode /\ e.attempts = 0
  <2>1. job.at \in 1..Len(Training)
    <3>1. job.at \in Nat \ {0}
      BY JobIs DEF RSInv, Shapes
    <3> QED BY <1>1, <3>1, ResearchAssumption
  <2>2. Training[job.at] \in Task
    BY <2>1, ResearchAssumption
  <2> QED BY <2>2, StartIs
<1> HIDE DEF e
<1>3. f \in Branching /\ f.ep = e /\ f.route = <<>> /\ f.next = 0
  BY <1>2 DEF Frame, Branching
<1> HIDE DEF f
<1>4. /\ tree' \in Growing /\ tree'.stack = <<f>> /\ tree'.rows = <<>> /\ tree'.billed = 0
      /\ tree' # Absent
  <2>1. tree' \in Growing
    BY <1>1, <1>3 DEF Growing
  <2> QED BY <1>1, <2>1, TreeIs
<1>5. Shapes'
  BY <1>1, <1>4 DEF RSInv, Shapes
<1>6. Place' /\ Whole'
  BY <1>1 DEF RSInv, Place, Whole
<1>7. Halting'
  <2>1. ~job.exhausted
    BY <1>1 DEF RSInv, Halting
  <2> QED BY <1>1, <2>1 DEF Halting
<1>8. Closing'
  BY <1>1, ClosingKept
<1>9. Walk'
  <2>1. Trail(<<f>>)
    BY <1>2, <1>3 DEF Trail
  <2>2. Rooted(<<f>>, <<>>) /\ Explored(<<f>>, <<>>) /\ ATree(<<>>)
    BY DEF Rooted, Explored, ATree
  <2> QED BY <1>4, <2>1, <2>2 DEF Walk, Walks
<1>10. CostsAreTheLedgers'
  <2>1. Known' = Known
    <3>1. /\ job'.summaries = job.summaries /\ job'.runs = job.runs /\ ev' = ev
      BY <1>1
    <3> QED BY <1>1, <1>4, <3>1 DEF Known
  <2> QED BY <1>1, <2>1 DEF RSInv, CostsAreTheLedgers
<1>11. Watching' /\ AggregateIsTrue'
  BY <1>1, LookKept
<1> QED BY <1>5, <1>6, <1>7, <1>8, <1>9, <1>10, <1>11 DEF RSInv

LEMMA SearchIs ==
    ASSUME RSInv, tree # Absent
    PROVE  /\ tree \in Growing /\ job \in Job /\ ledger \in Purse /\ job.pc = "train" /\ ev = Absent
           /\ Walks(tree.stack, tree.rows)
           /\ job.exhausted => tree.partial /\ tree.reason = "budget"
           /\ tree.stack # <<>> => /\ Len(tree.stack) > 0 /\ Top = tree.stack[Len(tree.stack)]
                                   /\ Top \in Branching
<1>1. tree \in Growing /\ job \in Job /\ ledger \in Purse
  BY DEF RSInv, Shapes, Purse, Settled
<1>2. job.pc = "train"
  BY DEF RSInv, Place
<1>3. ev = Absent
  BY <1>2 DEF RSInv, Place
<1>4. Walks(tree.stack, tree.rows)
  BY DEF RSInv, Walk
<1>5. job.exhausted => tree.partial /\ tree.reason = "budget"
  BY <1>2 DEF RSInv, Halting
<1>6. ASSUME tree.stack # <<>>
      PROVE  Len(tree.stack) > 0 /\ Top = tree.stack[Len(tree.stack)] /\ Top \in Branching
  <2>1. tree.stack \in Seq(Branching)
    BY <1>1, TreeIs
  <2> QED BY <1>6, <2>1, SeqIs DEF Top, Last
<1> QED BY <1>1, <1>2, <1>3, <1>4, <1>5, <1>6

\* A step of the search that says what it spent.
LEMMA Searched ==
    ASSUME RSInv, tree # Absent, UNCHANGED <<ev, disk, look>>,
           tree' \in Growing, Walks(tree'.stack, tree'.rows), ledger' \in Purse,
           tree'.billed - tree.billed = Settled(ledger') - Settled(ledger),
           job' \in Job, job'.pc = job.pc, job'.at = job.at, job'.summaries = job.summaries,
           job'.runs = job.runs, job'.outcome = job.outcome,
           job'.exhausted => tree'.partial /\ tree'.reason = "budget"
    PROVE  RSInv'
<1>1. job.pc = "train" /\ ev = Absent /\ tree' # Absent
  BY SearchIs, TreeIs
<1>2. Shapes'
  BY DEF RSInv, Shapes, Purse, Settled
<1>3. Place'
  BY <1>1 DEF RSInv, Place
<1>4. Halting'
  BY <1>1 DEF Halting
<1>5. Whole'
  BY <1>1 DEF RSInv, Place, Whole
<1>6. Closing'
  BY <1>1, ClosingKept
<1>7. Watching' /\ AggregateIsTrue'
  BY <1>1, LookKept
<1>8. Walk'
  BY DEF Walk
<1>9. CostsAreTheLedgers'
  <2>1. Known = Settled(ledger)
    BY <1>1 DEF RSInv, CostsAreTheLedgers
  <2>2. tree.billed \in Nat /\ tree'.billed \in Nat /\ Settled(ledger) \in Int /\ Settled(ledger') \in Int
    BY SearchIs, TreeIs DEF Purse, Settled
  <2>3. Known = CollectionCost(job.summaries) + EvaluationCost(job.runs) + tree.billed + 0
    BY <1>1 DEF Known
  <2>4. Known' = CollectionCost(job.summaries) + EvaluationCost(job.runs) + tree'.billed + 0
    BY <1>1 DEF Known
  <2>5. CollectionCost(job.summaries) \in Int /\ EvaluationCost(job.runs) \in Int
    BY KnownIs
  <2>6. Known' = Settled(ledger')
    BY <2>1, <2>2, <2>3, <2>4, <2>5
  <2> QED BY <2>2, <2>6 DEF CostsAreTheLedgers
<1> QED BY <1>2, <1>3, <1>4, <1>5, <1>6, <1>7, <1>8, <1>9 DEF RSInv

LEMMA StepProbe ==
    ASSUME RSInv, Probe
    PROVE  RSInv'
<1> DEFINE row == TransitionRow(Top, "stop", Top.ep, TRUE, 0, Solved(Finished(Top.ep)))
           g == [Top EXCEPT !.next = 1]
           s == tree.stack
           on == Front(s) \o <<g>>
           rows == Append(tree.rows, row)
<1>1. /\ tree # Absent /\ s # <<>> /\ Top.next = 0
      /\ UNCHANGED <<ledger, job, ev, disk, look>>
      /\ \/ tree' = [tree EXCEPT !.rows = rows, !.stack = Front(s)]
         \/ tree' = [tree EXCEPT !.rows = rows, !.stack = on]
  BY DEF Probe
<1>2. /\ tree \in Growing /\ job \in Job /\ ledger \in Purse /\ job.pc = "train" /\ ev = Absent
      /\ Walks(s, tree.rows)
      /\ job.exhausted => tree.partial /\ tree.reason = "budget"
      /\ Len(s) > 0 /\ Top = s[Len(s)] /\ Top \in Branching
  BY <1>1, SearchIs
<1>3. Top.ep \in Episode /\ Top.route \in Seq(Patches) /\ s \in Seq(Branching)
      /\ tree.rows \in Seq(TreeRow)
  BY <1>2, BranchingIs, TreeIs
<1>4. g \in Branching /\ g.ep = Top.ep /\ g.route = Top.route /\ g.next = 0 + 1
  BY <1>2 DEF Branching
<1>5. /\ row \in TreeRow /\ row.route = Top.route /\ row.state = Observation(Top.ep)
      /\ row.action = "stop"
  <2>1. Observation(Top.ep) \in View /\ Solved(Finished(Top.ep)) \in BOOLEAN
    BY <1>3, EpisodeIs DEF Solved
  <2> QED BY <1>3, <2>1 DEF TransitionRow, TreeRow, Kinds
<1> HIDE DEF row, g
<1>6. row.action \in Tried(g) \ Tried(Top)
  BY <1>1, <1>2, <1>4, <1>5, TriedIs
<1>7. rows \in Seq(TreeRow) /\ on \in Seq(Branching) /\ Walks(on, rows)
  BY <1>1, <1>2, <1>3, <1>4, <1>5, <1>6, WalksRecorded
<1>8. Front(s) \in Seq(Branching) /\ Walks(Front(s), rows)
  <2>1. Front(s) \in Seq(Branching)
    BY <1>2, <1>3, FrontIs
  <2>2. on = Append(Front(s), g)
    BY <1>4, <2>1
  <2>3. Front(on) = Front(s)
    <3> HIDE DEF on, s
    <3> QED BY <1>4, <2>1, <2>2, Extended
  <2>4. Len(on) > 0
    BY <1>2, <1>3, <1>4, Replaced
  <2> QED BY <1>7, <2>3, <2>4, WalksBack
<1> HIDE DEF s, on, rows
<1>9. PICK stack \in {Front(s), on} : tree' = [tree EXCEPT !.rows = rows, !.stack = stack]
  BY <1>1
<1>10. stack \in Seq(Branching) /\ Walks(stack, rows)
  BY <1>7, <1>8, <1>9
<1>11. /\ tree' \in Growing /\ tree'.stack = stack /\ tree'.rows = rows /\ tree'.billed = tree.billed
       /\ tree'.partial = tree.partial /\ tree'.reason = tree.reason
  BY <1>2, <1>7, <1>9, <1>10 DEF Growing
<1>12. tree'.billed - tree.billed = 0 /\ Settled(ledger) - Settled(ledger) = 0
  BY <1>2, <1>11, TreeIs DEF Purse, Settled
<1> QED BY <1>1, <1>2, <1>10, <1>11, <1>12, Searched

\* What the study keeps of an answer.
LEMMA AskedIs ==
    ASSUME NEW j \in Job, j = job,
           NEW r, r.asked \in BOOLEAN, r.raised \in {"none", "provider", "sandbox", "raw", "budget"}
    PROVE  /\ Asked(r) \in Job /\ Asked(r).pc = job.pc /\ Asked(r).at = job.at
           /\ Asked(r).summaries = job.summaries /\ Asked(r).runs = job.runs
           /\ Asked(r).outcome = job.outcome /\ Asked(r).rows = job.rows
           /\ Asked(r).artifact = job.artifact
           /\ Asked(r).exhausted = (job.exhausted \/ r.raised = "budget")
<1> DEFINE asked == IF r.asked THEN job.asked + 1 ELSE job.asked
           gone == job.exhausted \/ r.raised = "budget"
<1>1. asked \in Nat /\ gone \in BOOLEAN
  BY JobIs
<1>2. Asked(r) = [job EXCEPT !.asked = asked, !.exhausted = gone]
  BY DEF Asked
<1> HIDE DEF asked
<1>3. job \in Job
  OBVIOUS
<1> HIDE DEF gone
<1> QED BY <1>1, <1>2, <1>3 DEF Job, gone

LEMMA StepBranch ==
    ASSUME RSInv, Branch
    PROVE  RSInv'
<1> DEFINE s == tree.stack
           f == Top
           a == PatchActions[f.next]
<1>1. MayBranch /\ UNCHANGED <<ev, disk, look>>
  BY DEF Branch
<1>2. /\ tree # Absent /\ s # <<>> /\ f.next \in 1..2
      /\ ~(tree.partial /\ tree.reason = "budget")
  BY <1>1, PatchesAre DEF MayBranch
<1>3. PICK r \in Steps(f.ep, ledger, a) :
         /\ IF r.raised # "none" THEN Fault(f, r) ELSE Edge(f, a, r)
         /\ ledger' = r.ledger /\ job' = Asked(r)
  BY DEF Branch
<1>4. /\ tree \in Growing /\ job \in Job /\ ledger \in Purse /\ Walks(s, tree.rows)
      /\ ~job.exhausted
      /\ Len(s) > 0 /\ f = s[Len(s)] /\ f \in Branching
  BY <1>2, SearchIs
<1>5. /\ f.ep \in Episode /\ f.route \in Seq(Patches) /\ s \in Seq(Branching)
      /\ tree.rows \in Seq(TreeRow) /\ a \in Patches /\ a \in Kinds
  BY <1>2, <1>4, BranchingIs, TreeIs, PatchesAre DEF Patches, Kinds
<1>6. /\ r.ep \in Episode /\ r.ledger \in Purse
      /\ r.raised \in {"none", "provider", "sandbox", "raw", "budget"} /\ r.asked \in BOOLEAN
      /\ r.ep.cost >= f.ep.cost
      /\ Settled(r.ledger) - Settled(ledger) = r.ep.cost - f.ep.cost
      /\ r.raised = "none" /\ ~r.ep.terminal => r.ep.attempts = f.ep.attempts + 1
  BY <1>3, <1>4, <1>5, StepIs
<1>7. /\ job' \in Job /\ job'.pc = job.pc /\ job'.at = job.at
      /\ job'.summaries = job.summaries /\ job'.runs = job.runs /\ job'.outcome = job.outcome
      /\ job'.exhausted = (r.raised = "budget")
  BY <1>3, <1>4, <1>6, AskedIs
<1> DEFINE inc == Billed(f.ep, r.ep)
           g == NextFrame(f, r.ep)
           on == Front(s) \o <<g>>
<1>8. inc \in Nat /\ inc = Settled(ledger') - Settled(ledger)
  <2>1. r.ep.cost \in Nat /\ f.ep.cost \in Nat
    BY <1>5, <1>6, EpisodeIs
  <2> QED BY <1>3, <1>6, <2>1 DEF Billed
<1>9. g \in Branching /\ g.ep = f.ep /\ g.route = f.route /\ g.next = f.next + 1
  BY <1>2, <1>4, BranchingIs DEF NextFrame
<1>10. on \in Seq(Branching) /\ Walks(on, tree.rows)
  BY <1>4, <1>5, <1>9, WalksOn
<1>11. tree.billed \in Nat /\ tree.requests \in Nat
  BY <1>4, TreeIs
<1>12. ASSUME tree' \in Growing, Walks(tree'.stack, tree'.rows), tree'.billed = tree.billed + inc,
              r.raised = "budget" => tree'.partial /\ tree'.reason = "budget"
       PROVE  RSInv'
  <2>1. tree'.billed - tree.billed = Settled(ledger') - Settled(ledger)
    BY <1>8, <1>11, <1>12
  <2> QED BY <1>1, <1>2, <1>3, <1>6, <1>7, <1>12, <2>1, Searched
<1>13. CASE r.raised # "none"
  <2> DEFINE stack == IF r.raised = "budget" THEN Front(s) ELSE on
  <2>1. tree' = [tree EXCEPT !.partial = TRUE, !.reason = r.raised, !.requests = tree.requests + 1,
                             !.billed = tree.billed + inc, !.stack = stack]
    <3>1. Fault(f, r)
      BY <1>3, <1>13
    <3>2. tree \in Growing
      BY <1>4
    <3> QED BY <3>1, <3>2 DEF Fault, Growing
  <2>2. stack \in Seq(Branching) /\ Walks(stack, tree.rows)
    BY <1>4, <1>5, <1>10, WalksBack
  <2> HIDE DEF stack, inc
  <2>3. tree.requests + 1 \in Nat /\ tree.billed + inc \in Nat
    BY <1>8, <1>11
  <2>4. /\ tree' \in Growing /\ tree'.stack = stack /\ tree'.rows = tree.rows
        /\ tree'.billed = tree.billed + inc /\ tree'.partial = TRUE /\ tree'.reason = r.raised
    BY <1>4, <1>6, <2>1, <2>2, <2>3 DEF Growing
  <2> QED BY <1>12, <2>2, <2>4 DEF inc
<1>14. CASE r.raised = "none"
  <2> DEFINE terminal == Len(f.route) + 1 >= MaxSteps \/ r.ep.terminal \/ PublicPass(Observation(r.ep))
             row == TransitionRow(f, a, r.ep, terminal, inc, terminal /\ Solved(Finished(r.ep)))
             rows == Append(tree.rows, row)
             c == Frame(r.ep, Append(f.route, a))
             stack == on \o IF terminal THEN <<>> ELSE <<c>>
  <2>1. tree' = [tree EXCEPT !.requests = tree.requests + 1, !.billed = tree.billed + inc,
                             !.rows = rows, !.stack = stack]
    BY <1>3, <1>14 DEF Edge
  <2>2. terminal \in BOOLEAN
    BY <1>6 DEF PublicPass, Episode
  <2>3. /\ row \in TreeRow /\ row.route = f.route /\ row.state = Observation(f.ep)
        /\ row.action = a /\ row.next = Observation(r.ep) /\ row.terminal = terminal
    <3>1. /\ Observation(f.ep) \in View /\ Observation(r.ep) \in View
          /\ (terminal /\ Solved(Finished(r.ep))) \in BOOLEAN /\ inc \in Int
      <4> HIDE DEF terminal, inc
      <4>1. Observation(f.ep) \in View /\ Observation(r.ep) \in View /\ inc \in Int
        <5>1. Observation(f.ep) \in View
          BY <1>5, EpisodeIs
        <5>2. Observation(r.ep) \in View
          BY <1>6, EpisodeIs
        <5> QED BY <1>8, <5>1, <5>2
      <4>2. (terminal /\ Solved(Finished(r.ep))) \in BOOLEAN
        BY <2>2
      <4> QED BY <4>1, <4>2
    <3> HIDE DEF terminal, inc
    <3> QED BY <1>5, <2>2, <3>1 DEF TransitionRow, TreeRow
  <2>4. a \in Tried(g) \ Tried(f)
    BY <1>2, <1>4, <1>9, TriedIs
  <2> HIDE DEF row, g, terminal, c
  <2>5. rows \in Seq(TreeRow) /\ on \in Seq(Branching) /\ Walks(on, rows)
    BY <1>4, <1>5, <1>9, <2>3, <2>4, WalksRecorded
  <2>6. stack \in Seq(Branching) /\ Walks(stack, rows)
    <3>1. CASE terminal
      <4>1. stack = on \o <<>>
        BY <3>1
      <4> QED BY <2>5, <4>1, NoMore
    <3>2. CASE ~terminal
      <4> DEFINE n == Len(s)
                 q == Len(tree.rows)
      <4>1. stack = on \o <<c>>
        BY <3>2
      <4>2. Len(on) = n /\ on[n] = g /\ n \in Nat /\ n > 0 /\ n \in DOMAIN s
        <5>1. Len(s) \in Nat /\ Len(s) > 0 /\ Len(s) \in DOMAIN s
          BY <1>4, <1>5, SeqIs
        <5>2. Len(on) = Len(s) /\ on[Len(s)] = g
          <6> HIDE DEF s
          <6> QED BY <1>4, <1>5, <1>9, Replaced
        <5> QED BY <5>1, <5>2
      <4>3. Len(f.route) = n - 1 /\ f.ep.attempts = n - 1
        BY <1>4, <4>2 DEF Walks, Trail
      <4>4. r.ep.attempts = n
        <5>1. ~r.ep.terminal
          BY <3>2 DEF terminal
        <5> QED BY <1>6, <1>14, <4>2, <4>3, <5>1
      <4>5. /\ c \in Branching /\ c.ep = r.ep /\ c.next = 0 /\ c.route = Append(f.route, a)
        <5>1. Append(f.route, a) \in Seq(Patches)
          BY <1>5, Extended
        <5> QED BY <1>6, <5>1 DEF c, Frame, Branching
      <4>6. on[n].next \in 2..3 /\ c.route = Append(on[n].route, PatchActions[on[n].next - 1])
        <5> HIDE DEF on, n
        <5>1. on[n].next = f.next + 1 /\ on[n].route = f.route
          BY <1>9, <4>2
        <5>2. on[n].next - 1 = f.next
          BY <1>2, <5>1
        <5> QED BY <1>2, <4>5, <5>1, <5>2
      <4>7. /\ Len(rows) = q + 1 /\ q \in Nat /\ DOMAIN rows = 1..(q + 1)
            /\ DOMAIN tree.rows = 1..q /\ \A i \in 1..q : rows[i] = tree.rows[i]
            /\ rows[q + 1] = row
        BY <1>5, <2>3, <2>5, Extended, SeqIs
      <4>8. /\ Front(c.route) = f.route /\ Last(c.route) = a /\ Len(c.route) = n
            /\ c.route[n] = a /\ \A m \in 1..(n - 1) : c.route[m] = f.route[m]
        <5>1. /\ Front(Append(f.route, a)) = f.route /\ Last(Append(f.route, a)) = a
              /\ Len(Append(f.route, a)) = Len(f.route) + 1
              /\ \A i \in 1..Len(f.route) : Append(f.route, a)[i] = f.route[i]
              /\ Append(f.route, a)[Len(f.route) + 1] = a
          BY <1>5, Extended
        <5>2. Len(f.route) + 1 = n
          BY <4>2, <4>3
        <5> QED BY <4>3, <4>5, <5>1, <5>2
      <4>9. \E i \in DOMAIN rows : LeadsTo(rows[i], c)
        <5>1. LeadsTo(row, c)
          BY <2>3, <3>2, <4>5, <4>8 DEF LeadsTo
        <5> QED BY <4>7, <5>1
      <4>10. ASSUME NEW i \in DOMAIN rows, Under(rows[i], c, n + 1) PROVE FALSE
        <5>1. Len(rows[i].route) >= n /\ \A m \in 1..n : rows[i].route[m] = c.route[m]
          <6>1. n + 1 - 1 = n
            BY <4>2
          <6> QED BY <4>10, <6>1 DEF Under
        <5>2. i # q + 1
          BY <2>3, <4>2, <4>3, <4>7, <5>1
        <5>3. i \in 1..q /\ rows[i] = tree.rows[i]
          BY <4>7, <5>2
        <5>4. Under(tree.rows[i], f, n) /\ Turn(tree.rows[i], n) = a
          <6>1. Len(tree.rows[i].route) >= n - 1 /\ n # Len(tree.rows[i].route) + 1
            <7>1. tree.rows[i].route \in Seq(Patches)
              <8>1. tree.rows[i] \in TreeRow
                BY <1>5, <5>3, <4>7, SeqIs
              <8> QED BY <8>1 DEF TreeRow
            <7>2. Len(tree.rows[i].route) \in Nat
              BY <7>1
            <7> QED BY <4>2, <5>1, <5>3, <7>2
          <6>2. n \in 1..n /\ \A m \in 1..(n - 1) : m \in 1..n
            BY <4>2
          <6> QED BY <4>8, <5>1, <5>3, <6>1, <6>2 DEF Under, Turn
        <5>5. Turn(tree.rows[i], n) \in Tried(f)
          <6>1. Explored(s, tree.rows)
            BY <1>4 DEF Walks
          <6> QED BY <1>4, <4>2, <4>7, <5>3, <5>4, <6>1 DEF Explored
        <5> QED BY <2>4, <5>4, <5>5
      <4>11. c.ep.attempts = Len(on)
        BY <4>2, <4>4, <4>5
      <4> HIDE DEF n, on, rows, stack, q
      <4>12. Len(on) > 0 /\ on[Len(on)].next \in 2..3
             /\ c.route = Append(on[Len(on)].route, PatchActions[on[Len(on)].next - 1])
        BY <4>2, <4>6
      <4>13. \A i \in DOMAIN rows : ~Under(rows[i], c, Len(on) + 1)
        BY <4>2, <4>10
      <4> QED BY <2>5, <4>1, <4>5, <4>9, <4>11, <4>12, <4>13, WalksDown
    <3> QED BY <3>1, <3>2
  <2> HIDE DEF stack, rows, inc
  <2>7. tree.requests + 1 \in Nat /\ tree.billed + inc \in Nat
    BY <1>8, <1>11
  <2>8. /\ tree' \in Growing /\ tree'.stack = stack /\ tree'.rows = rows
        /\ tree'.billed = tree.billed + inc
    BY <1>4, <2>1, <2>5, <2>6, <2>7 DEF Growing
  <2> QED BY <1>12, <1>14, <2>6, <2>8 DEF inc
<1> QED BY <1>13, <1>14

LEMMA StepLeave ==
    ASSUME RSInv, Leave
    PROVE  RSInv'
<1>1. /\ tree # Absent /\ tree.stack # <<>> /\ tree' = [tree EXCEPT !.stack = Front(tree.stack)]
      /\ UNCHANGED <<ledger, job, ev, disk, look>>
  BY DEF Leave, Pop
<1>2. /\ tree \in Growing /\ job \in Job /\ ledger \in Purse
      /\ Walks(tree.stack, tree.rows) /\ Len(tree.stack) > 0
      /\ job.exhausted => tree.partial /\ tree.reason = "budget"
  BY <1>1, SearchIs
<1>3. Front(tree.stack) \in Seq(Branching) /\ Walks(Front(tree.stack), tree.rows)
  BY <1>2, TreeIs, WalksBack
<1>4. /\ tree' \in Growing /\ tree'.stack = Front(tree.stack) /\ tree'.rows = tree.rows
      /\ tree'.billed = tree.billed /\ tree'.partial = tree.partial /\ tree'.reason = tree.reason
  BY <1>1, <1>2, <1>3 DEF Growing
<1>5. tree'.billed - tree.billed = 0 /\ Settled(ledger) - Settled(ledger) = 0
  BY <1>2, <1>4, TreeIs DEF Purse, Settled
<1> QED BY <1>1, <1>2, <1>3, <1>4, <1>5, Searched

\* A study that goes to its report before it is complete.
LEMMA GivenUp ==
    ASSUME RSInv, job.pc \in {"train", "eval"}, UNCHANGED look,
           tree' = Absent, ev' = Absent, job' \in Job, job'.pc = "report",
           job'.summaries = job.summaries \/ tree = Absent, job'.outcome = job.outcome,
           ledger' \in Purse, DOMAIN disk' = DOMAIN disk, disk'.manifest = disk.manifest,
           Known' <= Settled(ledger')
    PROVE  RSInv'
<1>1. Shapes'
  BY DEF RSInv, Shapes, Purse, Settled
<1>2. job.outcome = "partial"
  BY DEF RSInv, Place
<1>3. Place' /\ Halting' /\ Whole' /\ CostsAreTheLedgers'
  BY <1>2 DEF Place, Halting, Whole, CostsAreTheLedgers
<1>4. Closing'
  BY ClosingKept
<1>5. Walk' /\ Watching' /\ AggregateIsTrue'
  BY WalkKept, LookKept
<1> QED BY <1>1, <1>3, <1>4, <1>5 DEF RSInv

LEMMA StepHarvest ==
    ASSUME RSInv, Harvest
    PROVE  RSInv'
<1> DEFINE x == [partial |-> tree.partial, requests |-> tree.requests, billed |-> tree.billed]
           rows == job.rows \o tree.rows
           next == IF tree.reason = "budget" THEN "report" ELSE "train"
           trees == Append(job.summaries, x)
<1>1. /\ tree # Absent /\ tree' = Absent /\ UNCHANGED <<ledger, ev, disk, look>>
      /\ job' = [job EXCEPT !.at = job.at + 1, !.rows = rows, !.summaries = trees, !.pc = next]
  BY DEF Harvest
<1>2. /\ tree \in Growing /\ job \in Job /\ ledger \in Purse /\ job.pc = "train" /\ ev = Absent
      /\ job.exhausted => tree.partial /\ tree.reason = "budget"
  BY <1>1, SearchIs
<1>3. /\ x \in Grown /\ x.billed = tree.billed
  BY <1>2, TreeIs DEF Grown
<1>4. /\ job.at \in Nat \ {0} /\ job.summaries \in Seq(Grown) /\ job.rows \in Seq(TreeRow)
      /\ tree.rows \in Seq(TreeRow) /\ tree.billed \in Nat
  BY <1>2, JobIs, TreeIs
<1> HIDE DEF x
<1>5. /\ rows \in Seq(TreeRow) /\ trees \in Seq(Grown) /\ Len(trees) = Len(job.summaries) + 1
      /\ next \in {"report", "train"} /\ job.at + 1 \in Nat \ {0}
  BY <1>3, <1>4, Extended
<1> HIDE DEF trees, rows, next
<1>6. /\ job' \in Job /\ job'.at = job.at + 1 /\ job'.summaries = trees /\ job'.pc = next
      /\ job'.runs = job.runs /\ job'.outcome = job.outcome /\ job'.exhausted = job.exhausted
  BY <1>1, <1>2, <1>5 DEF Job
<1>7. Known' = Known /\ Known = Settled(ledger)
  <2>1. CollectionCost(trees) = CollectionCost(job.summaries) + tree.billed
    BY <1>3, <1>4, CollectionMore DEF trees
  <2>2. /\ Known = CollectionCost(job.summaries) + EvaluationCost(job.runs) + tree.billed + 0
        /\ Known' = CollectionCost(trees) + EvaluationCost(job.runs) + 0 + 0
    BY <1>1, <1>2, <1>6 DEF Known
  <2>3. CollectionCost(job.summaries) \in Int /\ EvaluationCost(job.runs) \in Int
    BY KnownIs
  <2>4. Known = Settled(ledger)
    BY <1>2 DEF RSInv, CostsAreTheLedgers
  <2> QED BY <1>4, <2>1, <2>2, <2>3, <2>4
<1>8. /\ Len(job.summaries) = job.at - 1 /\ job.at <= Len(Training)
      /\ job.runs = <<>> /\ disk.raw = <<>> /\ job.outcome = "partial"
  BY <1>1, <1>2 DEF RSInv, Place
<1>9. Shapes'
  BY <1>1, <1>6 DEF RSInv, Shapes
<1>10. Place'
  <2>1. Len(trees) = job.at + 1 - 1 /\ job.at + 1 <= Len(Training) + 1
    <3>1. Len(Training) \in Nat
      BY ResearchAssumption
    <3> QED BY <1>4, <1>5, <1>8, <3>1
  <2>2. tree' = Absent /\ ev' = Absent /\ job'.pc \in {"report", "train"}
    BY <1>1, <1>2, <1>5, <1>6
  <2>3. Len(job'.summaries) = job'.at - 1 /\ job'.at <= Len(Training) + 1
    BY <1>4, <1>6, <2>1
  <2>4. job'.runs = <<>> /\ disk'.raw = <<>> /\ job'.outcome = "partial"
    BY <1>1, <1>6, <1>8
  <2> QED BY <2>2, <2>3, <2>4 DEF Place
<1>11. Halting'
  BY <1>1, <1>2, <1>5, <1>6 DEF Halting, next
<1>12. Whole' /\ CostsAreTheLedgers'
  BY <1>1, <1>6, <1>7, <1>8, <1>2 DEF Whole, CostsAreTheLedgers, Purse, Settled
<1>13. Closing'
  BY <1>1, <1>2, <1>5, <1>6, ClosingKept
<1>14. Walk' /\ Watching' /\ AggregateIsTrue'
  BY <1>1, <1>2, WalkKept, LookKept
<1> QED BY <1>9, <1>10, <1>11, <1>12, <1>13, <1>14 DEF RSInv

LEMMA StepUproot ==
    ASSUME RSInv, Uproot
    PROVE  RSInv'
<1>1. job.pc = "train" /\ tree' = Absent /\ UNCHANGED <<ev, disk, look>>
  BY DEF Uproot
<1>2. /\ ev = Absent /\ job \in Job /\ ledger \in Purse
  BY <1>1 DEF RSInv, Place, Shapes, Purse, Settled
<1>3. /\ Known <= Settled(ledger) /\ Known \in Int /\ Settled(ledger) \in Int
      /\ tree # Absent => tree.billed \in Nat
      /\ CollectionCost(job.summaries) \in Int /\ EvaluationCost(job.runs) \in Int
  BY KnownIs DEF RSInv, CostsAreTheLedgers
<1>4. ASSUME job'.summaries = job.summaries, job'.runs = job.runs PROVE Known' <= Known
  <2>1. Known' = CollectionCost(job.summaries) + EvaluationCost(job.runs) + 0 + 0
    BY <1>1, <1>2, <1>4 DEF Known
  <2>2. Known = CollectionCost(job.summaries) + EvaluationCost(job.runs)
                + (IF tree = Absent THEN 0 ELSE tree.billed) + 0
    BY <1>2 DEF Known
  <2> QED BY <1>3, <2>1, <2>2
<1>5. CASE job' = [job EXCEPT !.pc = "report"] /\ UNCHANGED ledger
  <2>1. /\ job' \in Job /\ job'.pc = "report" /\ job'.summaries = job.summaries
        /\ job'.runs = job.runs /\ job'.outcome = job.outcome
    BY <1>2, <1>5 DEF Job
  <2>2. Known' <= Settled(ledger')
    <3>1. Known' <= Known /\ Known' \in Int
      BY <1>1, <1>2, <1>3, <1>4, <2>1 DEF Known
    <3> QED BY <1>3, <1>5, <3>1
  <2> QED BY <1>1, <1>2, <1>5, <2>1, <2>2, GivenUp
<1>6. ASSUME MayBranch,
             NEW r \in Steps(Top.ep, ledger, PatchActions[Top.next]),
             ledger' = r.ledger, job' = [Asked(r) EXCEPT !.pc = "report"]
      PROVE  RSInv'
  <2>1. Top.next \in 1..2 /\ Top \in Branching
    BY <1>6, SearchIs, PatchesAre DEF MayBranch
  <2>2. PatchActions[Top.next] \in Kinds /\ Top.ep \in Episode
    BY <2>1, PatchesAre, BranchingIs DEF Patches, Kinds
  <2>3. /\ r.ep \in Episode /\ r.ledger \in Purse
        /\ r.raised \in {"none", "provider", "sandbox", "raw", "budget"} /\ r.asked \in BOOLEAN
        /\ r.ep.cost >= Top.ep.cost
        /\ Settled(r.ledger) - Settled(ledger) = r.ep.cost - Top.ep.cost
    BY <1>2, <1>6, <2>2, StepIs
  <2>4. /\ Asked(r) \in Job /\ Asked(r).summaries = job.summaries /\ Asked(r).runs = job.runs
        /\ Asked(r).outcome = job.outcome
    BY <1>2, <2>3, AskedIs
  <2>5. /\ job' \in Job /\ job'.pc = "report" /\ job'.summaries = job.summaries
        /\ job'.runs = job.runs /\ job'.outcome = job.outcome
    <3> DEFINE j == Asked(r)
    <3> HIDE DEF j
    <3>1. job' = [j EXCEPT !.pc = "report"] /\ j \in Job /\ j.summaries = job.summaries
          /\ j.runs = job.runs /\ j.outcome = job.outcome
      BY <1>6, <2>4 DEF j
    <3> QED BY <3>1 DEF Job
  <2>6. Known' <= Settled(ledger')
    <3>1. Known' <= Known /\ Known' \in Int
      BY <1>1, <1>2, <1>3, <1>4, <2>5 DEF Known
    <3>2. r.ep.cost \in Nat /\ Top.ep.cost \in Nat /\ Settled(r.ledger) \in Int
      BY <2>2, <2>3, EpisodeIs, SettledInt
    <3> QED BY <1>3, <1>6, <2>3, <3>1, <3>2
  <2> QED BY <1>1, <1>2, <1>6, <2>3, <2>5, <2>6, GivenUp
<1> QED BY <1>5, <1>6 DEF Uproot

LEMMA FittedIs ==
    ASSUME NEW rows \in Seq(TreeRow)
    PROVE  FitQ(rows, MinSamples) \in Artifact
<1>1. ASSUME NEW o \in View PROVE EncodeState(o) \in Code
  <2>1. o.attempts \in Nat /\ MaxSteps - o.attempts \in Int
    BY AttemptAssumption DEF View
  <2>2. (IF o.last = "start" THEN "none" ELSE o.last) \in Kinds \cup {"none"}
    BY DEF View
  <2> DEFINE ratio == IF PublicPass(o) THEN "all" ELSE IF o.passed > 0 THEN "some" ELSE "none"
             budget == IF LowBudget(o) THEN "low"
                       ELSE IF 10 * o.cost >= 4 * EpisodeCap THEN "mid" ELSE "high"
             change == IF o.improvement > 0 THEN "+" ELSE IF o.improvement < 0 THEN "-" ELSE "0"
             last == IF o.last = "start" THEN "none" ELSE o.last
             replans == IF o.replans > 0 THEN 1 ELSE 0
  <2>3. /\ ratio \in {"all", "some", "none"} /\ budget \in {"low", "mid", "high"}
        /\ change \in {"+", "-", "0"} /\ replans \in {0, 1} /\ last \in Kinds \cup {"none"}
    BY <2>2
  <2>4. EncodeState(o) = [ratio |-> ratio, attempts |-> o.attempts,
                          remaining |-> MaxSteps - o.attempts, budget |-> budget,
                          change |-> change, last |-> last, replans |-> replans]
    BY DEF EncodeState
  <2> HIDE DEF ratio, budget, change, last, replans
  <2> QED BY <2>1, <2>3, <2>4 DEF Code
<1>2. \A i \in DOMAIN rows : rows[i].state \in View /\ rows[i].action \in Kinds
  <2>1. \A i \in DOMAIN rows : rows[i] \in TreeRow
    OBVIOUS
  <2>2. \A x \in TreeRow : x.state \in View /\ x.action \in Kinds
    BY DEF TreeRow
  <2> QED BY <2>1, <2>2
<1>3. (Len(rows) >= MinSamples) \in BOOLEAN
  OBVIOUS
<1>4. {<<EncodeState(rows[i].state), rows[i].action>> : i \in DOMAIN rows} \in SUBSET (Code \X Kinds)
  BY <1>1, <1>2
<1> QED BY <1>3, <1>4 DEF FitQ, Artifact

LEMMA StepFit ==
    ASSUME RSInv, Fit
    PROVE  RSInv'
<1>1. /\ job.pc = "train" /\ tree = Absent /\ job.at > Len(Training)
      /\ UNCHANGED <<ledger, tree, ev, look>>
  BY DEF Fit
<1>2. /\ ev = Absent /\ job \in Job /\ ledger \in Purse /\ ~job.exhausted
      /\ Len(job.summaries) = job.at - 1 /\ job.at <= Len(Training) + 1
      /\ job.runs = <<>> /\ disk.raw = <<>> /\ job.outcome = "partial"
      /\ DOMAIN disk = {"manifest", "controller", "benchmark", "raw", "torn"}
  BY <1>1 DEF RSInv, Place, Shapes, Purse, Settled, Halting
<1>3. Known = Settled(ledger) /\ Settled(ledger) \in Int
  BY <1>1, <1>2 DEF RSInv, CostsAreTheLedgers, Purse, Settled
<1>4. CASE job' = [job EXCEPT !.pc = "report"] /\ UNCHANGED disk
  <2>1. /\ job' \in Job /\ job'.pc = "report" /\ job'.summaries = job.summaries
        /\ job'.runs = job.runs /\ job'.outcome = job.outcome
    BY <1>2, <1>4 DEF Job
  <2>2. Known' = Known
    BY <1>1, <2>1 DEF Known
  <2> QED BY <1>1, <1>2, <1>3, <1>4, <2>1, <2>2, GivenUp
<1>5. ASSUME NEW artifact \in Artifact, NEW next \in {"eval", "report"},
             disk' = [disk EXCEPT !.controller = artifact],
             job' = [job EXCEPT !.artifact = artifact, !.rows = <<>>, !.at = 1, !.pc = next]
      PROVE  RSInv'
  <2>2. /\ job' \in Job /\ job'.pc = next /\ job'.at = 1 /\ job'.summaries = job.summaries
        /\ job'.runs = job.runs /\ job'.outcome = job.outcome /\ job'.exhausted = job.exhausted
    <3> DEFINE none == <<>>
    <3>1. none \in Seq(TreeRow)
      OBVIOUS
    <3>2. job' = [job EXCEPT !.artifact = artifact, !.rows = none, !.at = 1, !.pc = next]
      BY <1>5
    <3> HIDE DEF none
    <3>3. job' \in Job
      <4> DEFINE j == [job EXCEPT !.artifact = artifact, !.rows = none]
      <4>1. j \in Job
        BY <1>2, <3>1 DEF Job
      <4>2. job' = [j EXCEPT !.at = 1, !.pc = next]
        BY <1>2, <3>2 DEF Job
      <4> HIDE DEF j
      <4>3. 1 \in Nat \ {0}
        OBVIOUS
      <4> QED BY <4>1, <4>2, <4>3 DEF Job
    <3> QED BY <1>2, <3>2, <3>3 DEF Job
  <2>3. disk'.manifest = disk.manifest /\ disk'.raw = disk.raw /\ DOMAIN disk' = DOMAIN disk
    BY <1>2, <1>5
  <2>4. Known' = Known
    BY <1>1, <2>2 DEF Known
  <2>5. Shapes'
    BY <1>1, <2>2, <2>3 DEF RSInv, Shapes
  <2>6. Place'
    <3>1. Len(job.summaries) = Len(Training) /\ Len(job.runs) = 1 - 1 /\ 1 <= Len(EvalPlan) + 1
      <4>1. Len(Training) \in Nat /\ Len(EvalPlan) \in Nat /\ job.at \in Nat
        BY <1>2, ResearchAssumption, PlanIs, JobIs
      <4> QED BY <1>1, <1>2, <4>1
    <3> QED BY <1>1, <1>2, <2>2, <2>3, <3>1 DEF Place
  <2>7. Halting' /\ Whole' /\ CostsAreTheLedgers'
    BY <1>1, <1>2, <1>3, <2>2, <2>4 DEF Halting, Whole, CostsAreTheLedgers
  <2>8. Closing'
    BY <1>1, <2>2, <2>3, ClosingKept
  <2>9. Walk' /\ Watching' /\ AggregateIsTrue'
    BY <1>1, WalkKept, LookKept
  <2> QED BY <2>5, <2>6, <2>7, <2>8, <2>9 DEF RSInv
<1>6. FitQ(job.rows, MinSamples) \in Artifact
  BY <1>2, JobIs, FittedIs
<1> QED BY <1>4, <1>5, <1>6 DEF Fit

LEMMA EvalIs ==
    ASSUME RSInv, job.pc = "eval"
    PROVE  /\ tree = Absent /\ job \in Job /\ ledger \in Purse /\ ev \in {Absent} \cup Playing
           /\ Known = Settled(ledger)
           /\ Known = CollectionCost(job.summaries) + EvaluationCost(job.runs)
                      + (IF ev = Absent THEN 0 ELSE ev.ep.cost)
           /\ CollectionCost(job.summaries) \in Int /\ EvaluationCost(job.runs) \in Int
           /\ job.outcome = "partial" /\ job.at <= Len(EvalPlan) + 1 /\ job.at \in Nat \ {0}
           /\ Len(job.summaries) = Len(Training) /\ Len(job.runs) = job.at - 1
           /\ disk.raw = job.runs
           /\ ev # Absent => /\ job.at \in 1..Len(EvalPlan) /\ ev \in Playing
                             /\ EvalPlan[job.at].task \in Task
                             /\ EvalPlan[job.at].policy \in Range(Policies)
           /\ job.exhausted => /\ ev # Absent /\ ev.pc = "record"
                               /\ ev.ep.status = "budget_exhausted"
<1>1. job \in Job /\ ledger \in Purse /\ ev \in {Absent} \cup Playing
  BY DEF RSInv, Shapes, Purse, Settled
<1>2. /\ tree = Absent /\ job.outcome = "partial" /\ job.at <= Len(EvalPlan) + 1
      /\ Len(job.summaries) = Len(Training) /\ Len(job.runs) = job.at - 1
      /\ disk.raw = job.runs
      /\ ev # Absent => job.at <= Len(EvalPlan)
  BY DEF RSInv, Place
<1>3. Known = Settled(ledger)
  BY DEF RSInv, CostsAreTheLedgers
<1>4. CollectionCost(job.summaries) \in Int /\ EvaluationCost(job.runs) \in Int
  BY KnownIs
<1>5. Known = CollectionCost(job.summaries) + EvaluationCost(job.runs)
              + (IF ev = Absent THEN 0 ELSE ev.ep.cost)
  BY <1>2, <1>4 DEF Known
<1>6. job.at \in Nat \ {0}
  BY <1>1, JobIs
<1>7. ev # Absent => /\ job.at \in 1..Len(EvalPlan) /\ ev \in Playing
                     /\ EvalPlan[job.at].task \in Task
                     /\ EvalPlan[job.at].policy \in Range(Policies)
  BY <1>1, <1>2, <1>6, PlanIs
<1>8. job.exhausted => ev # Absent /\ ev.pc = "record" /\ ev.ep.status = "budget_exhausted"
  BY DEF RSInv, Halting
<1> QED BY <1>1, <1>2, <1>3, <1>4, <1>5, <1>6, <1>7, <1>8

\* A step of the evaluation that says what it spent.
LEMMA Evaluates ==
    ASSUME RSInv, job.pc = "eval", UNCHANGED <<tree, disk, look>>,
           ev' \in Playing, ledger' \in Purse, job.at <= Len(EvalPlan),
           ev'.ep.cost - (IF ev = Absent THEN 0 ELSE ev.ep.cost) = Settled(ledger') - Settled(ledger),
           job' \in Job, job'.pc = job.pc, job'.at = job.at, job'.summaries = job.summaries,
           job'.runs = job.runs, job'.outcome = job.outcome,
           job'.exhausted => ev'.pc = "record" /\ ev'.ep.status = "budget_exhausted"
    PROVE  RSInv'
<1>1. /\ tree = Absent /\ Known = Settled(ledger) /\ ledger \in Purse
      /\ Known = CollectionCost(job.summaries) + EvaluationCost(job.runs)
                 + (IF ev = Absent THEN 0 ELSE ev.ep.cost)
      /\ CollectionCost(job.summaries) \in Int /\ EvaluationCost(job.runs) \in Int
      /\ job.outcome = "partial"
  BY EvalIs
<1>2. ev' # Absent
  BY PlayIs
<1>3. Shapes'
  BY DEF RSInv, Shapes, Purse, Settled
<1>4. Place'
  BY <1>1, <1>2 DEF RSInv, Place
<1>5. Halting' /\ Whole'
  BY <1>1, <1>2 DEF Halting, Whole
<1>6. Closing'
  BY ClosingKept
<1>7. Walk' /\ Watching' /\ AggregateIsTrue'
  BY WalkKept, LookKept
<1>8. CostsAreTheLedgers'
  <2>1. Known' = CollectionCost(job.summaries) + EvaluationCost(job.runs) + 0 + ev'.ep.cost
    BY <1>1, <1>2 DEF Known
  <2>2. Settled(ledger) \in Int /\ Settled(ledger') \in Int /\ ev'.ep.cost \in Nat
    BY <1>1, PlayIs, EpisodeIs, SettledInt
  <2>3. ev # Absent => ev.ep.cost \in Nat
    BY KnownIs
  <2>4. Known' = Settled(ledger')
    <3> DEFINE before == IF ev = Absent THEN 0 ELSE ev.ep.cost
               after == ev'.ep.cost
               trees == CollectionCost(job.summaries)
               runs == EvaluationCost(job.runs)
               had == Settled(ledger)
               has == Settled(ledger')
    <3>1. /\ before \in Int /\ after \in Int /\ trees \in Int /\ runs \in Int
          /\ had \in Int /\ has \in Int
      BY <1>1, <2>2, <2>3
    <3>2. trees + runs + before = had /\ after - before = has - had
      BY <1>1
    <3>3. Known' = trees + runs + 0 + after
      BY <2>1
    <3> HIDE DEF before, after, trees, runs, had, has
    <3>4. trees + runs + 0 + after = has
      BY <3>1, <3>2
    <3> QED BY <3>3, <3>4 DEF has
  <2> QED BY <2>2, <2>4 DEF CostsAreTheLedgers
<1> QED BY <1>3, <1>4, <1>5, <1>6, <1>7, <1>8 DEF RSInv

LEMMA StepStartEval ==
    ASSUME RSInv, StartEval
    PROVE  RSInv'
<1> DEFINE e == NewEpisode(EvalPlan[job.at].task)
<1>1. /\ job.pc = "eval" /\ ev = Absent /\ job.at <= Len(EvalPlan)
      /\ ev' \in {[ep |-> Started(e), steps |-> 0, pc |-> "act"],
                  [ep |-> [e EXCEPT !.status = "failed"], steps |-> 0, pc |-> "record"]}
      /\ UNCHANGED <<ledger, job, tree, disk, look>>
  BY DEF StartEval
<1>2. job \in Job /\ ledger \in Purse /\ job.at \in Nat \ {0} /\ ~job.exhausted
  BY <1>1, EvalIs
<1>3. EvalPlan[job.at].task \in Task
  BY <1>1, <1>2, PlanIs
<1>4. /\ e \in Episode /\ Started(e) \in Episode /\ Started(e).cost = 0
      /\ [e EXCEPT !.status = "failed"] \in Episode /\ [e EXCEPT !.status = "failed"].cost = 0
  BY <1>3, StartIs, EpisodeIs
<1> HIDE DEF e
<1>5. PICK f \in Episode, pc \in {"act", "record"} :
         ev' = [ep |-> f, steps |-> 0, pc |-> pc] /\ f.cost = 0
  BY <1>1, <1>4
<1>6. ev' \in Playing /\ ev'.ep.cost = 0
  BY <1>5 DEF Playing
<1>7. ev'.ep.cost - (IF ev = Absent THEN 0 ELSE ev.ep.cost) = Settled(ledger') - Settled(ledger)
  BY <1>1, <1>2, <1>6 DEF Purse, Settled
<1> QED BY <1>1, <1>2, <1>6, <1>7, Evaluates

LEMMA ChoiceIs ==
    ASSUME NEW p \in Range(Policies), NEW o, NEW artifact, NEW a \in ChooseAction(p, o, artifact)
    PROVE  a \in Kinds
<1>1. p \in {"fixed", "deliberate", "heuristic", "adaptive"}
  BY ResearchAssumption DEF Range
<1>2. HeuristicAction(o) \in Kinds
  BY DEF HeuristicAction, Kinds
<1>3. AllowedActions(o) \subseteq Kinds
  BY DEF AllowedActions, Kinds
<1> QED BY <1>1, <1>2, <1>3 DEF ChooseAction, Kinds

LEMMA ChoiceIsAKind == RSInv /\ job.pc = "eval" /\ ev # Absent => Choice \subseteq Kinds
<1> SUFFICES ASSUME RSInv, job.pc = "eval", ev # Absent, NEW a \in Choice PROVE a \in Kinds
  OBVIOUS
<1>1. EvalPlan[job.at].policy \in Range(Policies)
  BY EvalIs
<1> QED BY <1>1, ChoiceIs DEF Choice

LEMMA StepAct ==
    ASSUME RSInv, Act
    PROVE  RSInv'
<1>1. ev # Absent /\ ev.pc = "act" /\ UNCHANGED <<tree, disk, look>>
  BY DEF Act
<1>2. job.pc = "eval"
  BY <1>1 DEF RSInv, Place
<1>3. /\ job \in Job /\ ledger \in Purse /\ ev \in Playing /\ ~job.exhausted
      /\ job.at \in 1..Len(EvalPlan) /\ EvalPlan[job.at].policy \in Range(Policies)
  BY <1>1, <1>2, EvalIs
<1>4. ev.ep \in Episode /\ ev.steps \in Nat /\ ev.ep.cost \in Nat /\ job.at <= Len(EvalPlan)
  <2>1. ev.ep \in Episode /\ ev.steps \in Nat
    BY <1>3, PlayIs
  <2>2. ev.ep.cost \in Nat
    BY <2>1, EpisodeIs
  <2>3. job.at <= Len(EvalPlan)
    BY <1>3
  <2> QED BY <2>1, <2>2, <2>3
<1>5. CASE ev' = [ev EXCEPT !.pc = "grade"] /\ UNCHANGED <<ledger, job>>
  <2>1. ev' \in Playing /\ ev'.ep = ev.ep
    BY <1>3, <1>5 DEF Playing
  <2>2. ev'.ep.cost - (IF ev = Absent THEN 0 ELSE ev.ep.cost) = Settled(ledger') - Settled(ledger)
    BY <1>1, <1>3, <1>4, <1>5, <2>1 DEF Purse, Settled
  <2> QED BY <1>1, <1>2, <1>3, <1>4, <1>5, <2>1, <2>2, Evaluates
<1>6. ASSUME NEW a \in Choice,
             NEW r \in Steps(ev.ep, ledger, a),
             ledger' = r.ledger, job' = Asked(r),
             ev' = [ep |-> IF r.raised \in {"sandbox", "raw"} THEN [r.ep EXCEPT !.status = "failed"] ELSE r.ep,
                    steps |-> ev.steps + 1,
                    pc |-> IF r.raised # "none" THEN "record"
                           ELSE IF a = "stop" THEN "grade" ELSE "act"]
      PROVE  RSInv'
  <2>1. a \in Kinds
    BY <1>1, <1>2, ChoiceIsAKind
  <2>2. /\ r.ep \in Episode /\ r.ledger \in Purse
        /\ r.raised \in {"none", "provider", "sandbox", "raw", "budget"} /\ r.asked \in BOOLEAN
        /\ Settled(r.ledger) - Settled(ledger) = r.ep.cost - ev.ep.cost
        /\ r.raised = "budget" => r.ep.status = "budget_exhausted"
    BY <1>3, <1>4, <2>1, StepIs
  <2>3. /\ job' \in Job /\ job'.pc = job.pc /\ job'.at = job.at
        /\ job'.summaries = job.summaries /\ job'.runs = job.runs /\ job'.outcome = job.outcome
        /\ job'.exhausted = (r.raised = "budget")
    BY <1>3, <1>6, <2>2, AskedIs
  <2> DEFINE f == IF r.raised \in {"sandbox", "raw"} THEN [r.ep EXCEPT !.status = "failed"] ELSE r.ep
             pc == IF r.raised # "none" THEN "record" ELSE IF a = "stop" THEN "grade" ELSE "act"
  <2>4. f \in Episode /\ f.cost = r.ep.cost /\ (r.raised = "budget" => f.status = "budget_exhausted")
    BY <2>2, EpisodeIs
  <2>5. pc \in {"act", "grade", "record"} /\ (r.raised = "budget" => pc = "record")
    OBVIOUS
  <2> HIDE DEF f, pc
  <2>6. ev' = [ep |-> f, steps |-> ev.steps + 1, pc |-> pc]
    BY <1>6 DEF f, pc
  <2>7. ev' \in Playing /\ ev'.ep = f /\ ev'.pc = pc
    BY <1>4, <2>4, <2>5, <2>6 DEF Playing
  <2>8. ev'.ep.cost - (IF ev = Absent THEN 0 ELSE ev.ep.cost) = Settled(ledger') - Settled(ledger)
    BY <1>1, <1>6, <2>2, <2>4, <2>7
  <2> QED BY <1>1, <1>2, <1>4, <1>6, <2>2, <2>3, <2>4, <2>5, <2>7, <2>8, Evaluates
<1> QED BY <1>5, <1>6 DEF Act

LEMMA StepGraded ==
    ASSUME RSInv, Graded
    PROVE  RSInv'
<1>1. /\ ev # Absent /\ ev.pc = "grade" /\ UNCHANGED <<ledger, job, tree, disk, look>>
      /\ \E e \in {Finished(ev.ep), [ev.ep EXCEPT !.status = "failed"]} :
            ev' = [ev EXCEPT !.pc = "record", !.ep = e]
  BY DEF Graded
<1>2. job.pc = "eval"
  BY <1>1 DEF RSInv, Place
<1>3. /\ job \in Job /\ ledger \in Purse /\ ev \in Playing /\ ~job.exhausted
      /\ job.at \in 1..Len(EvalPlan)
  BY <1>1, <1>2, EvalIs
<1>4. ev.ep \in Episode /\ job.at <= Len(EvalPlan)
  <2>1. ev.ep \in Episode
    BY <1>3, PlayIs
  <2>2. job.at <= Len(EvalPlan)
    BY <1>3
  <2> QED BY <2>1, <2>2
<1>5. PICK e \in Episode : ev' = [ev EXCEPT !.pc = "record", !.ep = e] /\ e.cost = ev.ep.cost
  <2>1. PICK e \in {Finished(ev.ep), [ev.ep EXCEPT !.status = "failed"]} :
           ev' = [ev EXCEPT !.pc = "record", !.ep = e]
    BY <1>1
  <2>2. /\ Finished(ev.ep) \in Episode /\ Finished(ev.ep).cost = ev.ep.cost
        /\ [ev.ep EXCEPT !.status = "failed"] \in Episode
        /\ [ev.ep EXCEPT !.status = "failed"].cost = ev.ep.cost
    BY <1>4, EpisodeIs
  <2>3. e \in Episode /\ e.cost = ev.ep.cost
    BY <2>1, <2>2
  <2> QED BY <2>1, <2>3
<1>6. ev' \in Playing /\ ev'.ep = e
  BY <1>3, <1>5 DEF Playing
<1>7. ev'.ep.cost - (IF ev = Absent THEN 0 ELSE ev.ep.cost) = Settled(ledger') - Settled(ledger)
  <2>1. ev.ep.cost \in Nat /\ Settled(ledger) \in Int
    BY <1>3, <1>4, EpisodeIs, SettledInt
  <2> QED BY <1>1, <1>5, <1>6, <2>1
<1> QED BY <1>1, <1>2, <1>3, <1>4, <1>6, <1>7, Evaluates

LEMMA StepRecord ==
    ASSUME RSInv, Record
    PROVE  RSInv'
<1> DEFINE run == RunOf(ev.ep)
           runs == Append(job.runs, run)
           next == IF ev.ep.status = "budget_exhausted" THEN "report" ELSE "eval"
           j == [job EXCEPT !.runs = runs, !.at = job.at + 1]
<1>1. /\ ev # Absent /\ ev.pc = "record" /\ ev' = Absent /\ UNCHANGED <<ledger, tree, look>>
      /\ \/ job' = [j EXCEPT !.pc = next] /\ disk' = [disk EXCEPT !.raw = Append(disk.raw, run)]
         \/ job' = [j EXCEPT !.pc = "report"] /\ UNCHANGED disk
  BY DEF Record
<1>2. job.pc = "eval"
  BY <1>1 DEF RSInv, Place
<1>3. /\ tree = Absent /\ job \in Job /\ ledger \in Purse /\ ev \in Playing
      /\ Known = Settled(ledger)
      /\ Known = CollectionCost(job.summaries) + EvaluationCost(job.runs) + ev.ep.cost
      /\ CollectionCost(job.summaries) \in Int /\ EvaluationCost(job.runs) \in Int
      /\ job.outcome = "partial" /\ Len(job.summaries) = Len(Training)
      /\ Len(job.runs) = job.at - 1 /\ disk.raw = job.runs
      /\ job.at \in 1..Len(EvalPlan) /\ Len(EvalPlan) \in Nat
      /\ EvalPlan[job.at].task \in Task /\ EvalPlan[job.at].policy \in Range(Policies)
      /\ job.exhausted => ev.ep.status = "budget_exhausted"
  BY <1>1, <1>2, EvalIs, PlanIs
<1>4. /\ DOMAIN disk = {"manifest", "controller", "benchmark", "raw", "torn"}
      /\ ev.ep \in Episode /\ ev.ep.cost \in Nat /\ job.runs \in Seq(Ran)
  BY <1>3, PlayIs, EpisodeIs, JobIs DEF RSInv, Shapes
<1>5. run \in Ran /\ run.cost = ev.ep.cost
  <2>1. EvalPlan[job.at].task.id \in Nat
        /\ EvalPlan[job.at].task.split \in {"train", "validation", "test"}
    BY <1>3 DEF Task
  <2>2. Solved(ev.ep) \in BOOLEAN
    BY DEF Solved
  <2>3. ev.ep.status \in {"running", "completed", "failed", "budget_exhausted"}
    BY <1>4 DEF Episode
  <2> QED BY <1>3, <1>4, <2>1, <2>2, <2>3 DEF RunOf, Ran
<1> HIDE DEF run
<1>6. runs \in Seq(Ran) /\ Len(runs) = job.at /\ EvaluationCost(runs) = EvaluationCost(job.runs) + ev.ep.cost
  <2>1. runs \in Seq(Ran) /\ Len(runs) = Len(job.runs) + 1
    BY <1>4, <1>5, Extended
  <2>2. EvaluationCost(runs) = EvaluationCost(job.runs) + ev.ep.cost
    BY <1>4, <1>5, EvaluationMore
  <2> QED BY <1>3, <2>1, <2>2
<1>7. /\ j \in Job /\ j.runs = runs /\ j.at = job.at + 1 /\ j.summaries = job.summaries
      /\ j.outcome = job.outcome /\ j.exhausted = job.exhausted
  <2> HIDE DEF runs
  <2>1. job.at + 1 \in Nat \ {0}
    BY <1>3
  <2> QED BY <1>3, <1>6, <2>1 DEF Job
<1> HIDE DEF runs, j, next
<1>8. ASSUME NEW pc \in {"report", "eval"}, job' = [j EXCEPT !.pc = pc]
      PROVE  /\ job' \in Job /\ job'.pc = pc /\ job'.runs = runs /\ job'.at = job.at + 1
             /\ job'.summaries = job.summaries /\ job'.outcome = job.outcome
             /\ job'.exhausted = job.exhausted
             /\ Known' = Settled(ledger)
  <2>1. /\ job' \in Job /\ job'.pc = pc /\ job'.runs = runs /\ job'.at = job.at + 1
        /\ job'.summaries = job.summaries /\ job'.outcome = job.outcome
        /\ job'.exhausted = job.exhausted
    BY <1>7, <1>8 DEF Job
  <2>2. Known' = CollectionCost(job.summaries) + EvaluationCost(runs) + 0 + 0
    BY <1>1, <1>3, <2>1 DEF Known
  <2> QED BY <1>3, <1>4, <1>6, <2>1, <2>2
<1>9. Settled(ledger) \in Int
  BY <1>3 DEF Purse, Settled
<1>10. CASE job' = [j EXCEPT !.pc = "report"] /\ UNCHANGED disk
  BY <1>1, <1>2, <1>3, <1>8, <1>9, <1>10, GivenUp
<1>11. CASE job' = [j EXCEPT !.pc = next] /\ disk' = [disk EXCEPT !.raw = Append(disk.raw, run)]
  <2>1. disk'.manifest = disk.manifest /\ disk'.raw = runs /\ DOMAIN disk' = DOMAIN disk
    BY <1>3, <1>4, <1>11 DEF runs
  <2>2. CASE ev.ep.status = "budget_exhausted"
    <3>1. next = "report"
      BY <2>2 DEF next
    <3> QED BY <1>1, <1>2, <1>3, <1>8, <1>9, <1>11, <2>1, <3>1, GivenUp
  <2>3. CASE ev.ep.status # "budget_exhausted"
    <3>1. next = "eval"
      BY <2>3 DEF next
    <3>2. /\ job' \in Job /\ job'.pc = "eval" /\ job'.runs = runs /\ job'.at = job.at + 1
          /\ job'.summaries = job.summaries /\ job'.outcome = job.outcome
          /\ job'.exhausted = job.exhausted /\ Known' = Settled(ledger)
      BY <1>8, <1>11, <3>1
    <3>3. Shapes'
      BY <1>1, <2>1, <3>2 DEF RSInv, Shapes
    <3>4. Place'
      <4>1. job'.at <= Len(EvalPlan) + 1 /\ Len(job'.runs) = job'.at - 1
        BY <1>3, <1>6, <3>2
      <4>2. tree' = Absent /\ ev' = Absent /\ disk'.raw = job'.runs
            /\ job'.outcome = "partial" /\ Len(job'.summaries) = Len(Training)
        BY <1>1, <1>3, <2>1, <3>2
      <4> QED BY <3>2, <4>1, <4>2 DEF Place
    <3>5. Halting' /\ Whole' /\ CostsAreTheLedgers'
      <4>1. ~job'.exhausted /\ job'.outcome = "partial" /\ ledger' = ledger
        BY <1>1, <1>3, <2>3, <3>2
      <4>2. Halting' /\ Whole'
        BY <4>1 DEF Halting, Whole
      <4>3. CostsAreTheLedgers'
        BY <1>9, <3>2, <4>1 DEF CostsAreTheLedgers
      <4> QED BY <4>2, <4>3
    <3>6. Closing'
      BY <1>2, <2>1, <3>2, ClosingKept
    <3>7. Walk' /\ Watching' /\ AggregateIsTrue'
      BY <1>1, <1>2, WalkKept, LookKept
    <3> QED BY <3>3, <3>4, <3>5, <3>6, <3>7 DEF RSInv
  <2> QED BY <2>2, <2>3
<1> QED BY <1>1, <1>10, <1>11

LEMMA StepEvaluated ==
    ASSUME RSInv, Evaluated
    PROVE  RSInv'
<1>1. /\ job.pc = "eval" /\ ev = Absent /\ job.at > Len(EvalPlan)
      /\ job' = [job EXCEPT !.pc = "report", !.outcome = "complete"]
      /\ UNCHANGED <<ledger, tree, ev, disk, look>>
  BY DEF Evaluated
<1>2. /\ tree = Absent /\ job \in Job /\ ledger \in Purse /\ Known = Settled(ledger)
      /\ job.at <= Len(EvalPlan) + 1 /\ job.at \in Nat
      /\ Len(job.summaries) = Len(Training) /\ Len(job.runs) = job.at - 1
      /\ disk.raw = job.runs /\ ~job.exhausted
  BY <1>1, EvalIs
<1>3. /\ job' \in Job /\ job'.pc = "report" /\ job'.outcome = "complete" /\ job'.runs = job.runs
      /\ job'.summaries = job.summaries /\ job'.exhausted = job.exhausted
  BY <1>1, <1>2 DEF Job
<1>4. Len(job.runs) = Len(EvalPlan)
  BY <1>1, <1>2, PlanIs
<1>5. Known' = Known
  BY <1>1, <1>3 DEF Known
<1>6. Shapes'
  BY <1>1, <1>3 DEF RSInv, Shapes
<1>7. Place' /\ Halting' /\ Whole'
  BY <1>1, <1>2, <1>3, <1>4 DEF Place, Halting, Whole
<1>8. CostsAreTheLedgers'
  BY <1>1, <1>2, <1>5 DEF CostsAreTheLedgers, Purse, Settled
<1>9. Closing'
  BY <1>1, <1>3, ClosingKept
<1>10. Walk' /\ Watching' /\ AggregateIsTrue'
  BY <1>1, WalkKept, LookKept
<1> QED BY <1>6, <1>7, <1>8, <1>9, <1>10 DEF RSInv

LEMMA StepPublish ==
    ASSUME RSInv, Publish
    PROVE  RSInv'
<1>1. /\ job.pc = "report" /\ job' = [job EXCEPT !.pc = "close"]
      /\ disk' = [disk EXCEPT !.benchmark = Benchmark]
      /\ UNCHANGED <<ledger, tree, ev, look>>
  BY DEF Publish, Benchmark
<1>2. /\ tree = Absent /\ ev = Absent /\ job \in Job
      /\ DOMAIN disk = {"manifest", "controller", "benchmark", "raw", "torn"}
  BY <1>1 DEF RSInv, Place, Shapes
<1>3. /\ job' \in Job /\ job'.pc = "close" /\ job'.outcome = job.outcome /\ job'.runs = job.runs
      /\ job'.summaries = job.summaries /\ job'.exhausted = job.exhausted
  BY <1>1, <1>2 DEF Job
<1>4. /\ disk'.manifest = disk.manifest /\ disk'.raw = disk.raw /\ disk'.benchmark = Benchmark
      /\ DOMAIN disk' = DOMAIN disk
  <2> HIDE DEF Benchmark
  <2> QED BY <1>1, <1>2
<1>5. Known' = Known
  BY <1>1, <1>3 DEF Known
<1>6. Shapes'
  BY <1>1, <1>3, <1>4 DEF RSInv, Shapes
<1>7. Place' /\ Halting' /\ Whole'
  BY <1>1, <1>2, <1>3, <1>4 DEF RSInv, Place, Halting, Whole
<1>8. Closing'
  <2>1. Benchmark' = Benchmark
    BY <1>3 DEF Benchmark, ManifestStatus, TrainingPartial, AggregateRuns, RunsComplete, Planned
  <2>2. disk.manifest \in {Absent, [status |-> "running"]}
    BY <1>1 DEF RSInv, Closing
  <2> QED BY <1>3, <1>4, <2>1, <2>2 DEF Closing
<1>9. CostsAreTheLedgers'
  <2>1. Known <= Settled(ledger) /\ (job.outcome = "complete" => Known = Settled(ledger))
    BY DEF RSInv, CostsAreTheLedgers
  <2> QED BY <1>1, <1>3, <1>5, <2>1 DEF CostsAreTheLedgers
<1>10. Walk' /\ Watching' /\ AggregateIsTrue'
  BY <1>1, WalkKept, LookKept
<1> QED BY <1>6, <1>7, <1>8, <1>9, <1>10 DEF RSInv

LEMMA StepClose ==
    ASSUME RSInv, Close
    PROVE  RSInv'
<1> DEFINE controller == IF job.artifact # Absent /\ job.artifact.trained THEN job.artifact ELSE Absent
           m == [status |-> ManifestStatus, partial |-> TrainingPartial, controller |-> controller,
                 collection |-> CollectionCost(job.summaries),
                 evaluation |-> EvaluationCost(job.runs)]
<1>1. /\ job.pc = "close" /\ job' = [job EXCEPT !.pc = "done"]
      /\ disk' = [disk EXCEPT !.manifest = m]
      /\ UNCHANGED <<ledger, tree, ev, look>>
  BY DEF Close
<1>2. /\ tree = Absent /\ ev = Absent /\ job \in Job
      /\ DOMAIN disk = {"manifest", "controller", "benchmark", "raw", "torn"}
  BY <1>1 DEF RSInv, Place, Shapes
<1>3. /\ job' \in Job /\ job'.pc = "done" /\ job'.outcome = job.outcome /\ job'.runs = job.runs
      /\ job'.summaries = job.summaries /\ job'.exhausted = job.exhausted
  BY <1>1, <1>2 DEF Job
<1>4. m.status = ManifestStatus /\ m.partial = TrainingPartial
  OBVIOUS
<1> HIDE DEF m
<1>5. /\ disk'.manifest = m /\ disk'.raw = disk.raw /\ disk'.benchmark = disk.benchmark
      /\ DOMAIN disk' = DOMAIN disk
  BY <1>1, <1>2
<1>6. Known' = Known
  BY <1>1, <1>3 DEF Known
<1>7. Shapes'
  BY <1>1, <1>3, <1>5 DEF RSInv, Shapes
<1>8. Place' /\ Halting' /\ Whole'
  BY <1>1, <1>2, <1>3, <1>5 DEF RSInv, Place, Halting, Whole
<1>9. Closing'
  <2>1. /\ Benchmark' = Benchmark /\ ManifestStatus' = ManifestStatus
        /\ TrainingPartial' = TrainingPartial
    BY <1>3 DEF Benchmark, ManifestStatus, TrainingPartial, AggregateRuns, RunsComplete, Planned
  <2>2. disk.benchmark = Benchmark
    BY <1>1 DEF RSInv, Closing
  <2> QED BY <1>3, <1>4, <1>5, <2>1, <2>2 DEF Closing
<1>10. CostsAreTheLedgers'
  <2>1. Known <= Settled(ledger) /\ (job.outcome = "complete" => Known = Settled(ledger))
    BY DEF RSInv, CostsAreTheLedgers
  <2> QED BY <1>1, <1>3, <1>6, <2>1 DEF CostsAreTheLedgers
<1>11. Walk' /\ Watching' /\ AggregateIsTrue'
  BY <1>1, WalkKept, LookKept
<1> QED BY <1>7, <1>8, <1>9, <1>10, <1>11 DEF RSInv

\* A step cut short never lowers what was settled.
LEMMA FlightIs ==
    ASSUME RSInv, NEW r \in InFlight
    PROVE  /\ r.ledger \in Purse /\ Settled(ledger) <= Settled(r.ledger)
           /\ tree # Absent \/ ev # Absent
<1>1. ledger \in Purse
  BY DEF RSInv, Shapes, Purse
<1>2. ASSUME NEW e \in Episode, NEW a \in Kinds, r \in Steps(e, ledger, a)
      PROVE  r.ledger \in Purse /\ Settled(ledger) <= Settled(r.ledger)
  <2>1. /\ r.ep \in Episode /\ r.ledger \in Purse /\ r.ep.cost >= e.cost
        /\ Settled(r.ledger) - Settled(ledger) = r.ep.cost - e.cost
    BY <1>1, <1>2, StepIs
  <2>2. /\ r.ep.cost \in Nat /\ e.cost \in Nat
        /\ Settled(r.ledger) \in Int /\ Settled(ledger) \in Int
    BY <1>1, <2>1, EpisodeIs, SettledInt
  <2> QED BY <2>1, <2>2
<1>3. CASE MayBranch
  <2>1. tree # Absent /\ r \in Steps(Top.ep, ledger, PatchActions[Top.next])
    BY <1>3 DEF MayBranch, InFlight
  <2>2. Top.next \in 1..2 /\ Top \in Branching
    BY <1>3, SearchIs, PatchesAre DEF MayBranch
  <2>3. PatchActions[Top.next] \in Kinds /\ Top.ep \in Episode
    BY <2>2, PatchesAre, BranchingIs DEF Patches, Kinds
  <2> QED BY <1>2, <2>1, <2>3
<1>4. CASE ~MayBranch
  <2>1. ev # Absent /\ \E a \in Choice : r \in Steps(ev.ep, ledger, a)
    BY <1>4 DEF InFlight
  <2>2. job.pc = "eval"
    BY <2>1 DEF RSInv, Place
  <2>3. ev.ep \in Episode
    BY <2>1, <2>2, EvalIs, PlayIs
  <2> QED BY <1>2, <2>1, <2>2, <2>3, ChoiceIsAKind
<1> QED BY <1>3, <1>4

LEMMA StepDie ==
    ASSUME RSInv, Die
    PROVE  RSInv'
<1>1. /\ job.pc \notin {"off", "done", "dead"} /\ UNCHANGED look
      /\ tree' = Absent /\ ev' = Absent /\ disk' \in {disk, [disk EXCEPT !.torn = TRUE]}
      /\ \/ job' = [job EXCEPT !.pc = "dead"] /\ UNCHANGED ledger
         \/ \E r \in InFlight : ledger' = r.ledger /\ job' = [job EXCEPT !.pc = "dead", !.asked = @ + 1]
  BY DEF Die
<1>2. /\ job \in Job /\ ledger \in Purse
      /\ DOMAIN disk = {"manifest", "controller", "benchmark", "raw", "torn"}
  BY DEF RSInv, Shapes, Purse
<1>3. /\ job' \in Job /\ job'.pc = "dead" /\ job'.outcome = job.outcome /\ job'.runs = job.runs
      /\ job'.summaries = job.summaries /\ job'.exhausted = job.exhausted
  <2>1. CASE job' = [job EXCEPT !.pc = "dead"]
    BY <1>2, <2>1 DEF Job
  <2>2. CASE job' = [job EXCEPT !.pc = "dead", !.asked = @ + 1]
    <3>1. job.asked + 1 \in Nat
      BY <1>2 DEF Job
    <3> QED BY <1>2, <2>2, <3>1 DEF Job
  <2> QED BY <1>1, <2>1, <2>2
<1>10. /\ ledger' \in Purse /\ Settled(ledger) <= Settled(ledger')
       /\ tree = Absent /\ ev = Absent => UNCHANGED ledger
  <2>1. CASE UNCHANGED ledger
    BY <1>2, <2>1, SettledInt
  <2>2. ASSUME NEW r \in InFlight, ledger' = r.ledger
        PROVE  /\ ledger' \in Purse /\ Settled(ledger) <= Settled(ledger')
               /\ tree # Absent \/ ev # Absent
    BY <1>2, <2>2, FlightIs
  <2> QED BY <1>1, <2>1, <2>2
<1>4. disk'.manifest = disk.manifest /\ disk'.raw = disk.raw /\ DOMAIN disk' = DOMAIN disk
  BY <1>1, <1>2
<1>5. Shapes'
  BY <1>1, <1>3, <1>4, <1>10 DEF RSInv, Shapes, Purse
<1>6. Place' /\ Halting' /\ Whole'
  BY <1>1, <1>3, <1>4 DEF RSInv, Place, Halting, Whole
<1>7. Closing'
  BY <1>1, <1>3, <1>4, ClosingKept
<1>8. CostsAreTheLedgers'
  <2>1. /\ Known <= Settled(ledger) /\ Known \in Int /\ Settled(ledger) \in Int
        /\ Settled(ledger') \in Int
        /\ job.outcome = "complete" => Known = Settled(ledger)
        /\ CollectionCost(job.summaries) \in Int /\ EvaluationCost(job.runs) \in Int
        /\ tree # Absent => tree.billed \in Nat
        /\ ev # Absent => ev.ep.cost \in Nat
    BY <1>10, SettledInt, KnownIs DEF RSInv, CostsAreTheLedgers
  <2>2. Known' = CollectionCost(job.summaries) + EvaluationCost(job.runs) + 0 + 0
    BY <1>1, <1>3 DEF Known
  <2>3. job.outcome = "complete" => tree = Absent /\ ev = Absent
    BY DEF RSInv, Place
  <2>4. Known = CollectionCost(job.summaries) + EvaluationCost(job.runs)
                + (IF tree = Absent THEN 0 ELSE tree.billed) + (IF ev = Absent THEN 0 ELSE ev.ep.cost)
    BY DEF Known
  <2>5. Known' <= Settled(ledger')
    BY <1>1, <1>10, <2>1, <2>2, <2>4
  <2>6. job.outcome = "complete" => Known' = Settled(ledger')
    BY <1>1, <1>10, <2>1, <2>2, <2>3, <2>4
  <2> QED BY <1>3, <2>5, <2>6 DEF CostsAreTheLedgers
<1>9. Walk' /\ Watching' /\ AggregateIsTrue'
  BY <1>1, WalkKept, LookKept
<1> QED BY <1>5, <1>6, <1>7, <1>8, <1>9 DEF RSInv
-----------------------------------------------------------------------------
(* Those who look.                                                         *)

LEMMA OnlyLooks ==
    ASSUME RSInv, UNCHANGED <<ledger, job, tree, ev, disk>>,
           DOMAIN look' = {"pc", "manifest", "report"}, Watching', AggregateIsTrue'
    PROVE  RSInv'
<1>1. Shapes'
  BY DEF RSInv, Shapes
<1>2. Place' /\ Halting' /\ Whole' /\ Walk'
  BY DEF RSInv, Place, Halting, Whole, Walk
<1>3. Closing'
  <2>1. Benchmark' = Benchmark /\ ManifestStatus' = ManifestStatus /\ TrainingPartial' = TrainingPartial
    BY DEF Benchmark, ManifestStatus, TrainingPartial, AggregateRuns, RunsComplete, Planned
  <2> QED BY <2>1 DEF RSInv, Closing
<1>4. CostsAreTheLedgers'
  <2>1. Known' = Known
    BY DEF Known
  <2> QED BY <2>1 DEF RSInv, CostsAreTheLedgers
<1> QED BY <1>1, <1>2, <1>3, <1>4 DEF RSInv

\* Who covers a plan, and has no run twice or outside it, has it once.
LEMMA CoveredOnce ==
    ASSUME NEW runs \in Seq(Ran), NEW split \in {"validation", "test"}, ~Unfit(runs),
           \A p \in Range(Policies), t \in Planned(split) :
              \E i \in DOMAIN runs : runs[i].task = t /\ runs[i].policy = p /\ runs[i].split = split
    PROVE  RunsComplete(AggregateRuns(runs, split), split)
<1> SUFFICES ASSUME NEW p \in Range(Policies)
             PROVE  /\ AggregateRuns(runs, split).summary[p].n = Cardinality(Planned(split))
                    /\ AggregateRuns(runs, split).summary[p].missing = {}
  BY DEF RunsComplete
<1> DEFINE items == {i \in DOMAIN runs : runs[i].policy = p /\ runs[i].split = split}
           f == [i \in items |-> runs[i].task]
<1>1. /\ AggregateRuns(runs, split).summary[p].n = Cardinality(items)
      /\ AggregateRuns(runs, split).summary[p].missing
            = Planned(split) \ {runs[i].task : i \in items}
  BY DEF AggregateRuns
<1>2. \A t \in Planned(split) : \E i \in items : runs[i].task = t
  OBVIOUS
<1>3. f \in Bijection(items, Planned(split))
  <2>1. \A i \in items : runs[i].task \in Planned(split)
    BY DEF Unfit
  <2>2. f \in [items -> Planned(split)]
    BY <2>1
  <2>3. \A i, k \in items : f[i] = f[k] => i = k
    BY DEF Unfit
  <2>4. \A t \in Planned(split) : \E i \in items : f[i] = t
    BY <1>2
  <2> HIDE DEF f, items
  <2>5. f \in Injection(items, Planned(split))
    BY <2>2, <2>3 DEF Injection, IsInjective
  <2>6. f \in Surjection(items, Planned(split))
    BY <2>2, <2>4 DEF Surjection
  <2> QED BY <2>5, <2>6 DEF Bijection
<1>4. IsFiniteSet(items)
  <2>1. DOMAIN runs = 1..Len(runs) /\ Len(runs) \in Int /\ 1 \in Int
    OBVIOUS
  <2>2. IsFiniteSet(1..Len(runs))
    BY <2>1, FS_Interval
  <2>3. items \subseteq 1..Len(runs)
    BY <2>1
  <2> QED BY <2>2, <2>3, FS_Subset
<1>5. Cardinality(items) = Cardinality(Planned(split))
  <2> HIDE DEF f, items
  <2>1. ExistsBijection(items, Planned(split))
    BY <1>3 DEF ExistsBijection
  <2> QED BY <1>4, <2>1, FS_Bijection
<1> HIDE DEF items
<1>6. Planned(split) \ {runs[i].task : i \in items} = {}
  BY <1>2
<1> QED BY <1>1, <1>5, <1>6

LEMMA StepReadManifest ==
    ASSUME RSInv, ReadManifest
    PROVE  RSInv'
<1>1. /\ disk.manifest # Absent
      /\ look' = [look EXCEPT !.pc = "controller", !.manifest = disk.manifest]
      /\ UNCHANGED <<ledger, job, tree, ev, disk>>
  BY DEF ReadManifest
<1>2. DOMAIN look = {"pc", "manifest", "report"}
  BY DEF RSInv, Shapes
<1>3. look'.pc = "controller" /\ look'.manifest = disk.manifest /\ DOMAIN look' = DOMAIN look
  BY <1>1, <1>2
<1>4. Watching'
  <2>1. job.pc # "done" => disk.manifest \in {Absent, [status |-> "running"]}
    BY DEF RSInv, Closing
  <2> QED BY <1>1, <1>3, <2>1 DEF Watching
<1>5. AggregateIsTrue'
  BY <1>3 DEF AggregateIsTrue
<1> QED BY <1>1, <1>2, <1>3, <1>4, <1>5, OnlyLooks

LEMMA StepCompareController ==
    ASSUME RSInv, CompareController
    PROVE  RSInv'
<1>1. /\ look.pc = "controller" /\ UNCHANGED <<ledger, job, tree, ev, disk>>
      /\ \/ look' = [look EXCEPT !.pc = "over", !.report = Refused]
         \/ look' = [look EXCEPT !.pc = "raw"]
  BY DEF CompareController
<1>2. DOMAIN look = {"pc", "manifest", "report"}
  BY DEF RSInv, Shapes
<1>3. Watching
  BY DEF RSInv
<1>4. CASE look' = [look EXCEPT !.pc = "over", !.report = Refused]
  <2>1. look'.pc = "over" /\ look'.report = Refused /\ DOMAIN look' = DOMAIN look
    BY <1>2, <1>4
  <2>2. Watching'
    BY <2>1 DEF Watching
  <2>3. AggregateIsTrue'
    BY <2>1 DEF AggregateIsTrue, Refused
  <2> QED BY <1>1, <1>2, <2>1, <2>2, <2>3, OnlyLooks
<1>5. CASE look' = [look EXCEPT !.pc = "raw"]
  <2>1. look'.pc = "raw" /\ look'.manifest = look.manifest /\ DOMAIN look' = DOMAIN look
    BY <1>2, <1>5
  <2>2. Watching'
    BY <1>1, <1>3, <2>1 DEF Watching
  <2>3. AggregateIsTrue'
    BY <2>1 DEF AggregateIsTrue
  <2> QED BY <1>1, <1>2, <2>1, <2>2, <2>3, OnlyLooks
<1> QED BY <1>1, <1>4, <1>5

LEMMA StepCombine ==
    ASSUME RSInv, Combine
    PROVE  RSInv'
<1> DEFINE own == [status |-> look.manifest.status, raw |-> disk.raw,
                   partial |-> look.manifest.status # "running" /\ look.manifest.partial]
           All(others) == [seed \in OtherSeeds \cup {"own"} |->
                              IF seed = "own" THEN own ELSE others[seed]]
           Verdict(others) ==
              IF disk.torn \/ \E s \in DOMAIN All(others) : Unfit(All(others)[s].raw)
              THEN Refused ELSE [status |-> ReportStatus(All(others)), entries |-> All(others)]
<1>1. look.pc = "raw" /\ UNCHANGED <<ledger, job, tree, ev, disk>>
  BY DEF Combine
<1>2. PICK others \in [OtherSeeds -> Elsewhere] :
         look' = [look EXCEPT !.pc = "over", !.report = Verdict(others)]
  BY DEF Combine
<1> DEFINE entries == All(others)
           report == Verdict(others)
<1>3. DOMAIN look = {"pc", "manifest", "report"} /\ job \in Job
  BY DEF RSInv, Shapes
<1>4. look'.pc = "over" /\ look'.report = report /\ DOMAIN look' = DOMAIN look
  <2> HIDE DEF report
  <2> QED BY <1>2, <1>3 DEF report
<1>5. Watching'
  BY <1>4 DEF Watching
<1>6. ASSUME report.status = "complete"
      PROVE  /\ job.pc = "done" /\ job.outcome = "complete" /\ ~job.exhausted
             /\ \A i \in DOMAIN job.summaries : ~job.summaries[i].partial
             /\ Len(job.summaries) = Len(Training)
             /\ report.entries["own"].raw = job.runs /\ Len(job.runs) = Len(EvalPlan)
             /\ disk.benchmark.status = "complete"
             /\ \A seed \in OtherSeeds : report.entries[seed].status = "complete"
  <2>1. /\ ~\E s \in DOMAIN entries : Unfit(entries[s].raw)
        /\ report = [status |-> ReportStatus(entries), entries |-> entries]
    BY <1>6 DEF Refused
  <2>2. DOMAIN entries = OtherSeeds \cup {"own"} /\ entries["own"] = own
    OBVIOUS
  <2>3. own.raw = disk.raw /\ own.status = look.manifest.status
    OBVIOUS
  <2> HIDE DEF All, own, Verdict, report, entries
  <2>4. ReportStatus(entries) = "complete" /\ report.entries = entries
    BY <1>6, <2>1
  <2>5. /\ Covers(entries, "test")
        /\ \A seed \in DOMAIN entries : entries[seed].status = "complete"
    BY <2>4 DEF ReportStatus
  <2>6. look.manifest.status = "complete"
    BY <2>2, <2>3, <2>5
  <2>7. job.pc = "done" /\ look.manifest = disk.manifest
    BY <1>1, <2>6 DEF RSInv, Watching
  <2>8. disk.manifest.status = ManifestStatus /\ disk.benchmark = Benchmark
    BY <2>7 DEF RSInv, Closing
  <2>9. ManifestStatus = "complete"
    BY <2>6, <2>7, <2>8
  <2>10. job.outcome = "complete" /\ ~TrainingPartial
    BY <2>9 DEF ManifestStatus
  <2>11. /\ ~job.exhausted /\ Len(job.summaries) = Len(Training)
         /\ Len(job.runs) = Len(EvalPlan) /\ disk.raw = job.runs
    BY <2>10 DEF RSInv, Whole
  <2>12. RunsComplete(AggregateRuns(job.runs, "test"), "test")
    <3>1. job.runs \in Seq(Ran)
      BY <1>3, JobIs
    <3>2. entries["own"].raw = job.runs /\ "own" \in DOMAIN entries
      BY <2>2, <2>3, <2>11
    <3>3. ~Unfit(job.runs)
      BY <2>1, <3>2
    <3>4. \A p \in Range(Policies), t \in Planned("test") :
             \E i \in DOMAIN job.runs : /\ job.runs[i].task = t /\ job.runs[i].policy = p
                                        /\ job.runs[i].split = "test"
      BY <2>5, <3>2 DEF Covers
    <3> QED BY <3>1, <3>3, <3>4, CoveredOnce
  <2>13. disk.benchmark.status = "complete"
    BY <2>8, <2>9, <2>12 DEF Benchmark
  <2>14. \A i \in DOMAIN job.summaries : ~job.summaries[i].partial
    BY <2>10 DEF TrainingPartial
  <2>15. report.entries["own"].raw = job.runs
    BY <2>2, <2>3, <2>4, <2>11
  <2>16. \A seed \in OtherSeeds : report.entries[seed].status = "complete"
    BY <2>2, <2>4, <2>5
  <2> QED BY <2>7, <2>10, <2>11, <2>13, <2>14, <2>15, <2>16
<1>7. AggregateIsTrue'
  <2> HIDE DEF report
  <2>1. job' = job /\ disk' = disk
    BY <1>1
  <2> QED BY <1>4, <1>6, <2>1 DEF AggregateIsTrue
<1> QED BY <1>1, <1>3, <1>4, <1>5, <1>7, OnlyLooks
-----------------------------------------------------------------------------
(* The theorems of the v0.1 study.                                         *)

LEMMA StepRS == RSInv /\ [ResearchNext]_rvars => RSInv'
<1> SUFFICES ASSUME RSInv, [ResearchNext]_rvars PROVE RSInv'
  OBVIOUS
<1>1. CASE Begin \/ Plant \/ Probe \/ Branch \/ Leave
  BY <1>1, StepBegin, StepPlant, StepProbe, StepBranch, StepLeave
<1>2. CASE Harvest \/ Uproot \/ Fit
  BY <1>2, StepHarvest, StepUproot, StepFit
<1>3. CASE StartEval \/ Act \/ Graded \/ Record \/ Evaluated
  BY <1>3, StepStartEval, StepAct, StepGraded, StepRecord, StepEvaluated
<1>4. CASE Publish \/ Close \/ Die
  BY <1>4, StepPublish, StepClose, StepDie
<1>5. CASE ReadManifest \/ CompareController \/ Combine
  BY <1>5, StepReadManifest, StepCompareController, StepCombine
<1>6. CASE UNCHANGED rvars
  <2>1. UNCHANGED <<ledger, job, tree, ev, disk, look>>
    BY <1>6 DEF rvars
  <2>2. DOMAIN look' = {"pc", "manifest", "report"}
    BY <2>1 DEF RSInv, Shapes
  <2>3. Watching' /\ AggregateIsTrue'
    BY <2>1 DEF RSInv, Watching, AggregateIsTrue
  <2> QED BY <2>1, <2>2, <2>3, OnlyLooks
<1> QED BY <1>1, <1>2, <1>3, <1>4, <1>5, <1>6 DEF ResearchNext

\* The strengthened invariant of a v0.1 study: where the process is, what its
\* search has been through, what it has billed, what its files say.
THEOREM ResearchInductive == ResearchSpec => []RSInv
<1> QED BY InitRS, StepRS, PTL DEF ResearchSpec

\* The transitions a controller is fitted to are the tree of the task: the
\* branches of research.py:205-262 share no state.
THEOREM RowsHold == ResearchSpec => []RowsFormATree
<1>1. RSInv => RowsFormATree
  <2> SUFFICES ASSUME RSInv, tree # Absent PROVE RowsFormATree
    BY DEF RowsFormATree
  <2>1. ATree(tree.rows)
    BY DEF RSInv, Walk, Walks
  <2> QED BY <2>1 DEF ATree, RowsFormATree
<1> QED BY <1>1, ResearchInductive, PTL

\* What a v0.1 study says it cost is never more than what the ledger charged by
\* rows it settled, and all of it while the study goes on or ended complete: what
\* it does not know of is what rows that nothing settled still charge.
THEOREM CostsHold == ResearchSpec => []CostsAreTheLedgers
<1>1. RSInv => CostsAreTheLedgers
  BY Zenon DEF RSInv
<1> QED BY <1>1, ResearchInductive, PTL

\* An aggregate of aggregate_studies.py that says "complete" is.
THEOREM AggregateHolds == ResearchSpec => []AggregateIsTrue
<1>1. RSInv => AggregateIsTrue
  BY Zenon DEF RSInv
<1> QED BY <1>1, ResearchInductive, PTL

\* After a refusal by the ledger nothing more is asked for, from the branch
\* that met it up to the evaluation.
THEOREM ExhaustionHolds == ResearchSpec => NothingAfterExhaustion
<1>1. ASSUME RSInv, [ResearchNext]_rvars, job.exhausted PROVE job'.asked = job.asked
  <2>1. job \in Job
    BY <1>1 DEF RSInv, Shapes
  <2>2. ~MayBranch
    <3>1. CASE tree = Absent
      BY <3>1 DEF MayBranch
    <3>2. CASE tree # Absent
      BY <1>1, <3>2, SearchIs DEF MayBranch
    <3> QED BY <3>1, <3>2
  <2>3. ~Act
    <3>1. ASSUME Act PROVE FALSE
      <4>1. ev # Absent /\ ev.pc = "act"
        BY <3>1 DEF Act
      <4>2. job.pc = "eval"
        BY <1>1, <4>1 DEF RSInv, Place
      <4> QED BY <1>1, <4>1, <4>2, EvalIs
    <3> QED BY <3>1
  <2>4. \A pc : [job EXCEPT !.pc = pc].asked = job.asked
    BY <2>1 DEF Job
  <2>5. CASE Begin \/ Evaluated \/ Publish \/ Close
    BY <2>1, <2>5 DEF Begin, Evaluated, Publish, Close, Job
  <2>6. CASE Harvest
    BY <2>1, <2>6 DEF Harvest, Job
  <2>7. CASE Branch \/ Uproot
    BY <2>2, <2>4, <2>7 DEF Branch, Uproot
  <2>8. CASE Fit
    BY <2>1, <2>8 DEF Fit, Job
  <2>9. CASE Record
    BY <2>1, <2>9 DEF Record, Job
  <2>10. CASE Plant \/ Probe \/ Leave \/ StartEval \/ Graded
    BY <2>10 DEF Plant, Probe, Leave, StartEval, Graded
  <2>11. CASE ReadManifest \/ CompareController \/ Combine
    BY <2>11 DEF ReadManifest, CompareController, Combine
  <2>12. CASE UNCHANGED rvars
    BY <2>12 DEF rvars
  <2>13. CASE Die
    <3>1. InFlight = {}
      <4>1. CASE ev = Absent
        BY <2>2, <4>1 DEF InFlight
      <4>2. CASE ev # Absent
        <5>1. job.pc = "eval"
          BY <1>1, <4>2 DEF RSInv, Place
        <5>2. ev.pc = "record"
          BY <1>1, <5>1, EvalIs
        <5> QED BY <2>2, <5>2 DEF InFlight
      <4> QED BY <4>1, <4>2
    <3> QED BY <2>1, <2>13, <3>1 DEF Die, Job
  <2> QED BY <1>1, <2>3, <2>5, <2>6, <2>7, <2>8, <2>9, <2>10, <2>11, <2>12, <2>13 DEF ResearchNext
<1>2. RSInv /\ [ResearchNext]_rvars => [job.exhausted => job'.asked = job.asked]_rvars
  BY <1>1
<1> QED BY <1>2, ResearchInductive, PTL DEF ResearchSpec, NothingAfterExhaustion

=============================================================================
