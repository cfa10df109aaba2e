---------------------------- MODULE LedgerProofs ----------------------------
(***************************************************************************)
(* The ledger's caps for any number of calls, any amounts, bills, stamps   *)
(* and caps.  CommittedWithinCaps and RollingDayWithinCap are inductive    *)
(* together with: unknown bills keep their reservation (so that settling   *)
(* never raises what a row binds) and rows that were never inserted hold 0.*)
(***************************************************************************)
EXTENDS Ledger, TotalsProofs

Shape ==
    \A i \in Charge :
        /\ call[i] = "idle" => charges[i].status = "absent"
        /\ call[i] \in {"open", "denied"} => charges[i].status \in {"reserved", "uncertain"}
        /\ charges[i].status = "absent" =>
              charges[i].charged = 0 /\ charges[i].reserved = 0

\* RollingDayWithinCap for every end of the window, not only for stamps.
RollingAlways == \A t \in Int : CommittedPublicIn(t) <= DayCap

IInv ==
    /\ TypeOK
    /\ Shape
    /\ UnknownKeepsReservation
    /\ OverrunLatched
    /\ CommittedWithinCaps
    /\ RollingAlways

\* The columns that Total sums.
ChargedCol(b) == [i \in Charge |-> IF charges[i].bucket = b
                                   THEN charges[i].charged ELSE 0]
AfterCol(t) == [i \in Charge |->
                   IF charges[i].bucket = "public" /\ charges[i].created > t
                   THEN charges[i].charged ELSE 0]
BoundCol(b) == [i \in Charge |-> IF charges[i].bucket = b THEN Bound(i) ELSE 0]
WindowCol(t) == [i \in Charge |-> IF /\ charges[i].bucket = "public"
                                     /\ charges[i].created > t - Day
                                     /\ charges[i].created <= t
                                  THEN Bound(i) ELSE 0]

\* Every column is a function from row numbers to integers, and a row binds
\* no more than it is charged.
LEMMA Columns ==
    ASSUME TypeOK
    PROVE  /\ \A b \in Bucket : /\ ChargedCol(b) \in [1..N -> Int]
                                /\ BoundCol(b) \in [1..N -> Int]
           /\ \A t \in Int : /\ AfterCol(t) \in [1..N -> Int]
                             /\ WindowCol(t) \in [1..N -> Int]
           /\ \A i \in Charge : /\ Bound(i) \in Nat
                                /\ Bound(i) <= charges[i].charged
BY LedgerAssumption
   DEF TypeOK, Row, Charge, ChargedCol, BoundCol, AfterCol, WindowCol, Bound

LEMMA ColumnsNext ==
    ASSUME TypeOK'
    PROVE  /\ \A b \in Bucket : BoundCol(b)' \in [1..N -> Int]
           /\ \A t \in Int : WindowCol(t)' \in [1..N -> Int]
           /\ \A i \in Charge : Bound(i)' \in Nat
BY LedgerAssumption
   DEF TypeOK, Row, Charge, BoundCol, WindowCol, Bound

LEMMA SumsAreTotals ==
    /\ \A b : Charged(b) = Total(ChargedCol(b), N)
    /\ \A b : Committed(b) = Total(BoundCol(b), N)
    /\ \A t : ChargedPublicAfter(t) = Total(AfterCol(t), N)
    /\ \A t : CommittedPublicIn(t) = Total(WindowCol(t), N)
BY DEF Charged, Committed, ChargedPublicAfter, CommittedPublicIn,
       ChargedCol, BoundCol, AfterCol, WindowCol

\* What is bound never exceeds what is charged, in a bucket and in every
\* window of one day that contains the stamp a reservation is made with.
LEMMA BoundUnderCharged ==
    ASSUME TypeOK
    PROVE  /\ \A b \in Bucket : Committed(b) <= Charged(b)
           /\ \A t, now \in Int : t >= now =>
                 CommittedPublicIn(t) <= ChargedPublicAfter(now - Day)
<1>1. N \in Nat /\ Day \in Nat
  BY LedgerAssumption
<1>2. ASSUME NEW b \in Bucket PROVE Committed(b) <= Charged(b)
  <2>1. \A i \in 1..N : BoundCol(b)[i] <= ChargedCol(b)[i]
    BY Columns DEF BoundCol, ChargedCol, Charge, TypeOK, Row
  <2>2. BoundCol(b) \in [1..N -> Int] /\ ChargedCol(b) \in [1..N -> Int]
    BY Columns
  <2> QED BY <1>1, <2>1, <2>2, TotalMonotone, SumsAreTotals
<1>3. ASSUME NEW t \in Int, NEW now \in Int, t >= now
      PROVE  CommittedPublicIn(t) <= ChargedPublicAfter(now - Day)
  <2>1. now - Day \in Int
    BY <1>1
  <2>2. \A i \in 1..N : WindowCol(t)[i] <= AfterCol(now - Day)[i]
    <3> SUFFICES ASSUME NEW i \in 1..N
                 PROVE  WindowCol(t)[i] <= AfterCol(now - Day)[i]
      OBVIOUS
    <3>1. Bound(i) \in Nat /\ Bound(i) <= charges[i].charged
          /\ charges[i].charged \in Nat /\ charges[i].created \in Int
      BY Columns DEF TypeOK, Row, Charge
    <3>2. charges[i].created > t - Day => charges[i].created > now - Day
      BY <1>1, <1>3, <3>1
    <3> QED BY <3>1, <3>2 DEF WindowCol, AfterCol, Charge
  <2>3. WindowCol(t) \in [1..N -> Int] /\ AfterCol(now - Day) \in [1..N -> Int]
    BY Columns, <2>1
  <2> QED BY <1>1, <2>2, <2>3, TotalMonotone, SumsAreTotals
<1> QED BY <1>2, <1>3

LEMMA CommittedInt ==
    ASSUME TypeOK
    PROVE  /\ \A b \in Bucket : Committed(b) \in Int /\ Charged(b) \in Int
           /\ \A t \in Int : /\ CommittedPublicIn(t) \in Int
                             /\ ChargedPublicAfter(t) \in Int
BY Columns, SumsAreTotals, TotalInt, LedgerAssumption

-----------------------------------------------------------------------------
\* A step that moves no row to another bucket or stamp and raises no row's
\* bound keeps every cap.
LEMMA LoweringKeepsCaps ==
    ASSUME TypeOK, TypeOK', CommittedWithinCaps, RollingAlways,
           \A i \in Charge : /\ charges'[i].bucket = charges[i].bucket
                             /\ charges'[i].created = charges[i].created
                             /\ Bound(i)' <= Bound(i)
    PROVE  CommittedWithinCaps' /\ RollingAlways'
<1>1. N \in Nat /\ Cap \in [Bucket -> Nat] /\ TotalCap \in Nat /\ DayCap \in Nat
  BY LedgerAssumption
<1>2. ASSUME NEW b \in Bucket
      PROVE  Committed(b)' <= Committed(b) /\ Committed(b)' \in Int /\ Committed(b) \in Int
  <2>1. BoundCol(b) \in [1..N -> Int] /\ BoundCol(b)' \in [1..N -> Int]
    BY Columns, ColumnsNext
  <2>2. \A i \in 1..N : BoundCol(b)'[i] <= BoundCol(b)[i]
    BY Columns, ColumnsNext DEF BoundCol, Charge
  <2>3. Total(BoundCol(b)', N) <= Total(BoundCol(b), N)
    BY <1>1, <2>1, <2>2, TotalMonotone
  <2>4. Committed(b)' = Total(BoundCol(b)', N)
    BY DEF Committed, BoundCol
  <2> QED BY <2>1, <2>3, <2>4, <1>1, SumsAreTotals, TotalInt
<1>3. ASSUME NEW t \in Int
      PROVE  CommittedPublicIn(t)' <= CommittedPublicIn(t)
             /\ CommittedPublicIn(t)' \in Int /\ CommittedPublicIn(t) \in Int
  <2>1. WindowCol(t) \in [1..N -> Int] /\ WindowCol(t)' \in [1..N -> Int]
    BY Columns, ColumnsNext
  <2>2. \A i \in 1..N : WindowCol(t)'[i] <= WindowCol(t)[i]
    BY Columns, ColumnsNext DEF WindowCol, Charge
  <2>3. Total(WindowCol(t)', N) <= Total(WindowCol(t), N)
    BY <1>1, <2>1, <2>2, TotalMonotone
  <2>4. CommittedPublicIn(t)' = Total(WindowCol(t)', N)
    BY DEF CommittedPublicIn, WindowCol
  <2> QED BY <2>1, <2>3, <2>4, <1>1, SumsAreTotals, TotalInt
<1>4. CommittedWithinCaps'
  <2>1. "research" \in Bucket /\ "public" \in Bucket
    BY DEF Bucket
  <2>2. \A b \in Bucket : Cap[b] \in Int
    BY <1>1
  <2> QED BY <1>1, <1>2, <2>1, <2>2 DEF CommittedWithinCaps
<1>5. RollingAlways'
  BY <1>1, <1>3 DEF RollingAlways
<1> QED BY <1>4, <1>5

\* A reservation that the allowances admit keeps every cap.
LEMMA ReserveKeepsCaps ==
    ASSUME TypeOK, TypeOK', CommittedWithinCaps, RollingAlways, Shape,
           NEW i \in Charge, NEW b \in Bucket, NEW n \in Nat, NEW now \in Int,
           Reserve(i, b, n, now)
    PROVE  CommittedWithinCaps' /\ RollingAlways'
<1>1. /\ N \in Nat /\ Cap \in [Bucket -> Nat] /\ TotalCap \in Nat
      /\ DayCap \in Nat /\ Day \in Nat /\ Calibration \in Nat
  BY LedgerAssumption
<1>2. /\ charges[i].charged = 0 /\ charges[i].reserved = 0
      /\ Allowed(b, n, now)
      /\ charges'[i].bucket = b /\ charges'[i].created = now
      /\ charges'[i].charged = n /\ charges'[i].reserved = n
      /\ \A j \in Charge : j # i => charges'[j] = charges[j]
  BY DEF Reserve, Arrives, Shape, TypeOK
<1>3. /\ Bound(i) = 0 /\ Bound(i)' = n
      /\ \A j \in Charge : j # i => Bound(j)' = Bound(j)
  BY <1>2 DEF Bound
<1>4. ASSUME NEW c \in Bucket
      PROVE  /\ Committed(c)' = Committed(c) + (IF c = b THEN n ELSE 0)
             /\ Committed(c) \in Int /\ Charged(c) \in Int
             /\ Committed(c) <= Charged(c)
  <2>1. BoundCol(c) \in [1..N -> Int] /\ BoundCol(c)' \in [1..N -> Int]
    BY Columns, ColumnsNext
  <2>2. \A j \in 1..N : j # i => BoundCol(c)'[j] = BoundCol(c)[j]
    BY <1>2, <1>3 DEF BoundCol, Charge
  <2>3. Total(BoundCol(c)', N)
           = Total(BoundCol(c), N) - BoundCol(c)[i] + BoundCol(c)'[i]
    BY <1>1, <2>1, <2>2, TotalUpdate DEF Charge
  <2>4. BoundCol(c)[i] = 0 /\ BoundCol(c)'[i] = IF c = b THEN n ELSE 0
    BY <1>2, <1>3 DEF BoundCol
  <2>5. Committed(c)' = Total(BoundCol(c)', N)
    BY DEF Committed, BoundCol
  <2>6. Committed(c) = Total(BoundCol(c), N)
    BY SumsAreTotals
  <2>7. Committed(c) \in Int /\ Charged(c) \in Int /\ Committed(c) <= Charged(c)
    BY CommittedInt, BoundUnderCharged
  <2> QED BY <2>3, <2>4, <2>5, <2>6, <2>7
<1>5. CommittedWithinCaps'
  <2>1. "research" \in Bucket /\ "public" \in Bucket
    BY DEF Bucket
  <2>2. CalibrationCharge \in Nat
    BY <1>1 DEF CalibrationCharge
  <2>3. /\ Charged("research") + Charged("public") + CalibrationCharge + n <= TotalCap
        /\ Charged(b) + (IF b = "research" THEN CalibrationCharge ELSE 0) + n <= Cap[b]
    BY <1>2 DEF Allowed
  <2>4. \A c \in Bucket : Committed(c)' <= Cap[c]
    <3> SUFFICES ASSUME NEW c \in Bucket PROVE Committed(c)' <= Cap[c]
      OBVIOUS
    <3>1. Cap[c] \in Int /\ Committed(c) <= Cap[c]
      BY <1>1 DEF CommittedWithinCaps
    <3> QED BY <1>4, <2>2, <2>3, <3>1
  <2>5. Committed("research")' + Committed("public")' <= TotalCap
    <3>1. /\ Committed("research")' = Committed("research") + (IF "research" = b THEN n ELSE 0)
          /\ Committed("public")' = Committed("public") + (IF "public" = b THEN n ELSE 0)
          /\ Committed("research") \in Int /\ Charged("research") \in Int
          /\ Committed("public") \in Int /\ Charged("public") \in Int
          /\ Committed("research") <= Charged("research")
          /\ Committed("public") <= Charged("public")
      BY <1>4, <2>1
    <3>2. CASE b = "research"
      BY <1>1, <2>2, <2>3, <3>1, <3>2
    <3>3. CASE b = "public"
      BY <1>1, <2>2, <2>3, <3>1, <3>3
    <3> QED BY <3>2, <3>3 DEF Bucket
  <2> QED BY <2>4, <2>5 DEF CommittedWithinCaps
<1>6. RollingAlways'
  <2> SUFFICES ASSUME NEW t \in Int PROVE CommittedPublicIn(t)' <= DayCap
    BY DEF RollingAlways
  <2> DEFINE In == b = "public" /\ now > t - Day /\ now <= t
  <2>1. WindowCol(t) \in [1..N -> Int] /\ WindowCol(t)' \in [1..N -> Int]
    BY Columns, ColumnsNext
  <2>2. \A j \in 1..N : j # i => WindowCol(t)'[j] = WindowCol(t)[j]
    BY <1>2, <1>3 DEF WindowCol, Charge
  <2>3. Total(WindowCol(t)', N)
           = Total(WindowCol(t), N) - WindowCol(t)[i] + WindowCol(t)'[i]
    BY <1>1, <2>1, <2>2, TotalUpdate DEF Charge
  <2>4. WindowCol(t)[i] = 0 /\ WindowCol(t)'[i] = IF In THEN n ELSE 0
    BY <1>2, <1>3 DEF WindowCol
  <2>5. CommittedPublicIn(t)' = Total(WindowCol(t)', N)
    BY DEF CommittedPublicIn, WindowCol
  <2>6. CommittedPublicIn(t) = Total(WindowCol(t), N) /\ CommittedPublicIn(t) \in Int
    BY SumsAreTotals, CommittedInt
  <2>7. CommittedPublicIn(t)' = CommittedPublicIn(t) + (IF In THEN n ELSE 0)
    BY <2>3, <2>4, <2>5, <2>6
  <2>8. CASE ~In
    BY <2>6, <2>7, <2>8 DEF RollingAlways
  <2>9. CASE In
    <3>1. ChargedPublicAfter(now - Day) + n <= DayCap
      BY <1>2, <2>9 DEF Allowed
    <3>2. CommittedPublicIn(t) <= ChargedPublicAfter(now - Day)
      BY <2>9, BoundUnderCharged
    <3>3. now - Day \in Int
      BY <1>1
    <3>4. ChargedPublicAfter(now - Day) \in Int
      BY <3>3, CommittedInt
    <3> QED BY <1>1, <2>6, <2>7, <2>9, <3>1, <3>2, <3>4
  <2> QED BY <2>8, <2>9
<1> QED BY <1>5, <1>6

-----------------------------------------------------------------------------
LEMMA InitIInv == Init => IInv
<1> SUFFICES ASSUME Init PROVE IInv
  OBVIOUS
<1>1. TypeOK /\ Shape /\ UnknownKeepsReservation /\ OverrunLatched
  <2>1. NoRow \in Row
    BY DEF NoRow, Row, Bucket
  <2>2. TypeOK
    BY <2>1 DEF Init, TypeOK, Reason
  <2>3. \A i \in Charge : charges[i] = NoRow /\ call[i] = "idle"
    BY DEF Init
  <2> QED BY <2>2, <2>3 DEF Shape, UnknownKeepsReservation, OverrunLatched,
             Overran, NoRow
<1>2. N \in Nat /\ Cap \in [Bucket -> Nat] /\ TotalCap \in Nat /\ DayCap \in Nat
  BY LedgerAssumption
<1>3. \A i \in Charge : Bound(i) = 0
  BY DEF Init, NoRow, Bound
<1>4. ASSUME NEW b \in Bucket PROVE Committed(b) = 0
  <2>1. \A i \in 1..N : BoundCol(b)[i] = 0
    BY <1>3 DEF BoundCol, Charge
  <2> QED BY <1>1, <1>2, <2>1, Columns, TotalZero, SumsAreTotals
<1>5. ASSUME NEW t \in Int PROVE CommittedPublicIn(t) = 0
  <2>1. \A i \in 1..N : WindowCol(t)[i] = 0
    BY <1>3 DEF WindowCol, Charge
  <2> QED BY <1>1, <1>2, <2>1, Columns, TotalZero, SumsAreTotals
<1>6. CommittedWithinCaps
  BY <1>2, <1>4 DEF CommittedWithinCaps, Bucket
<1>7. RollingAlways
  BY <1>2, <1>5 DEF RollingAlways
<1> QED BY <1>1, <1>6, <1>7 DEF IInv

\* The conjuncts of IInv that speak of one row at a time.
LEMMA RowsStep ==
    ASSUME IInv, [Next]_vars
    PROVE  TypeOK' /\ Shape' /\ UnknownKeepsReservation' /\ OverrunLatched'
<1> USE DEF IInv, TypeOK, Shape, UnknownKeepsReservation, OverrunLatched, Overran,
            Row, Reason
<1>1. CASE UNCHANGED vars
  BY <1>1 DEF vars
<1>2. ASSUME NEW i \in Charge, NEW b \in Bucket, NEW n \in Amounts, NEW now \in Times,
             Reserve(i, b, n, now)
      PROVE  TypeOK' /\ Shape' /\ UnknownKeepsReservation' /\ OverrunLatched'
  <2>1. n \in Nat /\ now \in Int
    BY LedgerAssumption
  <2>2. disabled = "none"
    BY <1>2 DEF Reserve, Allowed
  <2> QED BY <1>2, <2>1, <2>2 DEF Reserve, Arrives
<1>3. ASSUME NEW i \in Charge, NEW b \in Bucket, NEW n \in Amounts, NEW now \in Times,
             Refuse(i, b, n, now)
      PROVE  TypeOK' /\ Shape' /\ UnknownKeepsReservation' /\ OverrunLatched'
  BY <1>3 DEF Refuse
<1>4. ASSUME NEW i \in Charge, NEW cost \in Bills, SettleReported(i, cost)
      PROVE  TypeOK' /\ Shape' /\ UnknownKeepsReservation' /\ OverrunLatched'
  <2>1. cost \in Nat
    BY LedgerAssumption
  <2> QED BY <1>4, <2>1 DEF SettleReported
<1>5. ASSUME NEW i \in Charge, SettleUnknown(i)
      PROVE  TypeOK' /\ Shape' /\ UnknownKeepsReservation' /\ OverrunLatched'
  BY <1>5 DEF SettleUnknown
<1>6. ASSUME NEW i \in Charge, Deny(i)
      PROVE  TypeOK' /\ Shape' /\ UnknownKeepsReservation' /\ OverrunLatched'
  BY <1>6 DEF Deny
<1>7. ASSUME NEW i \in Charge, Crash(i)
      PROVE  TypeOK' /\ Shape' /\ UnknownKeepsReservation' /\ OverrunLatched'
  BY <1>7 DEF Crash
<1>8. ASSUME NEW i \in Charge, MarkUncertain(i)
      PROVE  TypeOK' /\ Shape' /\ UnknownKeepsReservation' /\ OverrunLatched'
  BY <1>8 DEF MarkUncertain
<1>9. CASE ImportCalibration
  BY <1>9 DEF ImportCalibration
<1>10. CASE Pause \/ Resume \/ ClearAccess
  BY <1>10 DEF Pause, Resume, ClearAccess
<1> QED BY <1>1, <1>2, <1>3, <1>4, <1>5, <1>6, <1>7, <1>8, <1>9, <1>10 DEF Next

\* Only Reserve raises what a row binds.
LEMMA OnlyReserveRaises ==
    ASSUME IInv, [Next]_vars
    PROVE  \/ \E i \in Charge, b \in Bucket, n \in Nat, now \in Int : Reserve(i, b, n, now)
           \/ \A i \in Charge : /\ charges'[i].bucket = charges[i].bucket
                                /\ charges'[i].created = charges[i].created
                                /\ Bound(i)' <= Bound(i)
<1> DEFINE Lowers == \A i \in Charge : /\ charges'[i].bucket = charges[i].bucket
                                       /\ charges'[i].created = charges[i].created
                                       /\ Bound(i)' <= Bound(i)
<1>1. \A i \in Charge : charges[i] \in Row /\ Bound(i) \in Nat
  BY Columns DEF IInv, TypeOK
<1>2. CASE charges' = charges
  BY <1>1, <1>2 DEF Bound
<1>3. ASSUME NEW i \in Charge, NEW cost \in Bills, SettleReported(i, cost)
      PROVE  Lowers
  <2>1. cost \in Nat /\ charges[i].charged = charges[i].reserved
    BY <1>3, LedgerAssumption DEF SettleReported, IInv, UnknownKeepsReservation
  <2>2. /\ charges' = [charges EXCEPT ![i].charged = cost, ![i].status = "estimated"]
        /\ charges \in [Charge -> Row]
    BY <1>3 DEF SettleReported, IInv, TypeOK
  <2> QED BY <1>1, <2>1, <2>2 DEF Bound, Row
<1>4. ASSUME NEW i \in Charge, SettleUnknown(i)
      PROVE  Lowers
  <2>1. charges[i].charged = charges[i].reserved
    BY <1>4 DEF SettleUnknown, IInv, UnknownKeepsReservation
  <2>2. /\ charges' = [charges EXCEPT ![i].charged = charges[i].reserved,
                                      ![i].status = "uncertain"]
        /\ charges \in [Charge -> Row]
    BY <1>4 DEF SettleUnknown, IInv, TypeOK
  <2> QED BY <1>1, <2>1, <2>2 DEF Bound, Row
<1>5. ASSUME NEW i \in Charge, MarkUncertain(i)
      PROVE  Lowers
  <2>1. /\ charges' = [charges EXCEPT ![i].status = "uncertain"]
        /\ charges \in [Charge -> Row]
    BY <1>5 DEF MarkUncertain, IInv, TypeOK
  <2> QED BY <1>1, <2>1 DEF Bound, Row
<1>6. ASSUME NEW i \in Charge, NEW b \in Bucket, NEW n \in Amounts, NEW now \in Times,
             Reserve(i, b, n, now)
      PROVE  \E j \in Charge, c \in Bucket, m \in Nat, t \in Int : Reserve(j, c, m, t)
  BY <1>6, LedgerAssumption
<1>7. \/ charges' = charges
      \/ \E i \in Charge, cost \in Bills : SettleReported(i, cost)
      \/ \E i \in Charge : SettleUnknown(i) \/ MarkUncertain(i)
      \/ \E i \in Charge, b \in Bucket, n \in Amounts, now \in Times :
            Reserve(i, b, n, now)
  BY DEF Next, vars, Refuse, Deny, Crash, ImportCalibration, Pause, Resume, ClearAccess
<1> QED BY <1>2, <1>3, <1>4, <1>5, <1>6, <1>7

LEMMA StepIInv == IInv /\ [Next]_vars => IInv'
<1> SUFFICES ASSUME IInv, [Next]_vars PROVE IInv'
  OBVIOUS
<1>1. TypeOK' /\ Shape' /\ UnknownKeepsReservation' /\ OverrunLatched'
  BY RowsStep
<1>2. CommittedWithinCaps' /\ RollingAlways'
  BY <1>1, OnlyReserveRaises, ReserveKeepsCaps, LoweringKeepsCaps DEF IInv
<1> QED BY <1>1, <1>2 DEF IInv

\* The strengthening holds in every reachable state.
THEOREM Inductive == Spec => []IInv
<1>1. QED BY InitIInv, StepIInv, PTL DEF Spec

\* Reservations never bind more than a bucket's cap or the total cap, for
\* any number of concurrent calls, amounts, bills, crashes and pauses.
THEOREM CapsHold == Spec => []CommittedWithinCaps
<1>1. IInv => CommittedWithinCaps
  BY DEF IInv
<1> QED BY <1>1, Inductive, PTL

\* Type correctness of the ledger.
THEOREM TypesHold == Spec => []TypeOK
<1>1. IInv => TypeOK
  BY DEF IInv
<1> QED BY <1>1, Inductive, PTL

\* An overrun leaves the discrepancy reason in the settings, whatever pauses,
\* rejections and removals of other reasons surround it.
THEOREM OverrunLatches == Spec => []OverrunLatched
<1>1. IInv => OverrunLatched
  BY DEF IInv
<1> QED BY <1>1, Inductive, PTL

\* A row whose bill is unknown charges its whole reservation.
THEOREM UnknownBillsStayCharged == Spec => []UnknownKeepsReservation
<1>1. IInv => UnknownKeepsReservation
  BY DEF IInv
<1> QED BY <1>1, Inductive, PTL

\* No window of one day binds more than the rolling public allowance, in
\* whatever order stamped reservations commit.
THEOREM RollingDayHolds == Spec => []RollingDayWithinCap
<1>1. IInv => RollingDayWithinCap
  BY LedgerAssumption DEF IInv, RollingAlways, RollingDayWithinCap
<1> QED BY <1>1, Inductive, PTL

\* After a bill above its reservation no charge row is ever inserted.
THEOREM OverrunStopsSpending == Spec => NoSpendAfterOverrun
<1> DEFINE A == (\E i \in Charge : Overran(i)) =>
                   \A j \in Charge : charges'[j].status = "absent"
                                     <=> charges[j].status = "absent"
<1>1. IInv /\ [Next]_vars => [A]_vars
  <2> SUFFICES ASSUME IInv, Next, NEW k \in Charge, Overran(k)
               PROVE  \A j \in Charge : charges'[j].status = "absent"
                                        <=> charges[j].status = "absent"
    BY DEF vars
  <2>1. disabled = "reservation_exceeded" /\ charges \in [Charge -> Row]
    BY DEF IInv, OverrunLatched, TypeOK
  <2>2. \A i \in Charge, b \in Bucket, n \in Amounts, now \in Times :
            ~Reserve(i, b, n, now)
    BY <2>1 DEF Reserve, Allowed
  <2>3. ASSUME NEW i \in Charge, NEW cost \in Bills, SettleReported(i, cost)
        PROVE  \A j \in Charge : charges'[j].status = "absent"
                                 <=> charges[j].status = "absent"
    BY <2>1, <2>3 DEF SettleReported, Row
  <2>4. ASSUME NEW i \in Charge, SettleUnknown(i) \/ MarkUncertain(i)
        PROVE  \A j \in Charge : charges'[j].status = "absent"
                                 <=> charges[j].status = "absent"
    BY <2>1, <2>4 DEF SettleUnknown, MarkUncertain, Row
  <2>5. CASE charges' = charges
    BY <2>5
  <2> QED BY <2>2, <2>3, <2>4, <2>5 DEF Next, Refuse, Deny, Crash,
             ImportCalibration, Pause, Resume, ClearAccess
<1> QED BY <1>1, Inductive, PTL DEF Spec, NoSpendAfterOverrun

LEMMA AccountedStep ==
    ASSUME IInv, [Next]_vars, NEW i \in Charge
    PROVE  /\ charges[i].status \in {"estimated", "uncertain"} =>
                charges'[i] = charges[i]
           /\ charges[i].status = "reserved" =>
                /\ charges'[i].reserved = charges[i].reserved
                /\ charges'[i].bucket = charges[i].bucket
                /\ charges'[i].created = charges[i].created
                /\ charges'[i].status # "absent"
<1> DEFINE A == /\ charges[i].status \in {"estimated", "uncertain"} =>
                     charges'[i] = charges[i]
                /\ charges[i].status = "reserved" =>
                     /\ charges'[i].reserved = charges[i].reserved
                     /\ charges'[i].bucket = charges[i].bucket
                     /\ charges'[i].created = charges[i].created
                     /\ charges'[i].status # "absent"
<1>1. charges \in [Charge -> Row] /\ Shape
  BY DEF IInv, TypeOK
<1>2. ASSUME NEW k \in Charge, NEW b \in Bucket, NEW n \in Amounts, NEW now \in Times,
             Reserve(k, b, n, now)
      PROVE  A
  BY <1>1, <1>2 DEF Reserve, Arrives, Shape
<1>3. ASSUME NEW k \in Charge, NEW cost \in Bills, SettleReported(k, cost)
      PROVE  A
  BY <1>1, <1>3 DEF SettleReported, Row
<1>4. ASSUME NEW k \in Charge, SettleUnknown(k) \/ MarkUncertain(k)
      PROVE  A
  BY <1>1, <1>4 DEF SettleUnknown, MarkUncertain, Row
<1>5. CASE charges' = charges
  BY <1>5
<1> QED BY <1>2, <1>3, <1>4, <1>5 DEF Next, vars, Refuse, Deny, Crash,
           ImportCalibration, Pause, Resume, ClearAccess

\* An accounted row is final, and a reserved one keeps its terms.
THEOREM AccountedIsFinal == Spec => AccountedForever
<1>1. IInv /\ [Next]_vars =>
        [\A i \in Charge :
          /\ charges[i].status \in {"estimated", "uncertain"} =>
                charges'[i] = charges[i]
          /\ charges[i].status = "reserved" =>
                /\ charges'[i].reserved = charges[i].reserved
                /\ charges'[i].bucket = charges[i].bucket
                /\ charges'[i].created = charges[i].created
                /\ charges'[i].status # "absent"]_vars
  BY AccountedStep
<1> QED BY <1>1, Inductive, PTL DEF Spec, AccountedForever

-----------------------------------------------------------------------------
(* The refinement.                                                         *)

\* Charged amounts are naturals, and inserting or settling one row changes
\* the sum of that row's bucket only, by the row's change.
LEMMA ChargedNat == ASSUME TypeOK, NEW b \in Bucket PROVE Charged(b) \in Nat
<1> DEFINE zero == [i \in 1..N |-> 0]
<1>1. N \in Nat /\ zero \in [1..N -> Int] /\ ChargedCol(b) \in [1..N -> Int]
  BY LedgerAssumption, Columns
<1>2. Total(zero, N) = 0
  BY <1>1, TotalZero
<1>3. \A i \in 1..N : zero[i] <= ChargedCol(b)[i]
  BY DEF ChargedCol, Charge, TypeOK, Row
<1> HIDE DEF zero
<1>4. Total(zero, N) <= Total(ChargedCol(b), N) /\ Total(ChargedCol(b), N) \in Int
  BY <1>1, <1>3, TotalMonotone, TotalInt
<1> QED BY <1>2, <1>4, SumsAreTotals

LEMMA ChargedUpdate ==
    ASSUME TypeOK, TypeOK', NEW i \in Charge, NEW b \in Bucket,
           \A j \in Charge : j # i => charges'[j] = charges[j],
           charges'[i].bucket = b,
           charges[i].bucket = b \/ charges[i].charged = 0
    PROVE  \A c \in Bucket : Charged(c)' = Charged(c)
              + (IF c = b THEN charges'[i].charged - charges[i].charged ELSE 0)
<1> SUFFICES ASSUME NEW c \in Bucket
             PROVE  Charged(c)' = Charged(c)
                + (IF c = b THEN charges'[i].charged - charges[i].charged ELSE 0)
  OBVIOUS
<1>1. N \in Nat /\ ChargedCol(c) \in [1..N -> Int]
  BY LedgerAssumption, Columns
<1>2. ChargedCol(c)' \in [1..N -> Int]
  BY DEF ChargedCol, TypeOK, Row, Charge
<1>3. \A j \in 1..N : j # i => ChargedCol(c)'[j] = ChargedCol(c)[j]
  BY DEF ChargedCol, Charge
<1>4. Total(ChargedCol(c)', N)
         = Total(ChargedCol(c), N) - ChargedCol(c)[i] + ChargedCol(c)'[i]
  BY <1>1, <1>2, <1>3, TotalUpdate DEF Charge
<1>5. Charged(c)' = Total(ChargedCol(c)', N)
  BY DEF Charged, ChargedCol
<1>6. /\ ChargedCol(c)[i] = IF charges[i].bucket = c THEN charges[i].charged ELSE 0
      /\ ChargedCol(c)'[i] = IF b = c THEN charges'[i].charged ELSE 0
      /\ charges[i].charged \in Nat /\ charges'[i].charged \in Nat
  BY DEF ChargedCol, TypeOK, Row
<1>7. Charged(c) = Total(ChargedCol(c), N) /\ Charged(c) \in Nat
  BY SumsAreTotals, ChargedNat
<1> QED BY <1>4, <1>5, <1>6, <1>7

ChargedSums == [b \in Bucket |-> Charged(b)]
Halted == disabled = "reservation_exceeded"

\* One row of bucket b changes: the abstract step is decided by whether its
\* charge rises and whether the discrepancy reason is set by the step.
LEMMA OneRowRefines ==
    ASSUME IInv, TypeOK', NEW i \in Charge, NEW b \in Bucket,
           \A j \in Charge : j # i => charges'[j] = charges[j],
           charges'[i].bucket = b,
           charges[i].bucket = b \/ charges[i].charged = 0
    PROVE  /\ ChargedSums' = [ChargedSums EXCEPT ![b] = ChargedSums'[b]]
           /\ ChargedSums'[b] = ChargedSums[b] + (charges'[i].charged - charges[i].charged)
           /\ ChargedSums'[b] \in Nat /\ ChargedSums[b] \in Nat
<1>1. \A c \in Bucket : Charged(c)' = Charged(c)
              + (IF c = b THEN charges'[i].charged - charges[i].charged ELSE 0)
  BY ChargedUpdate DEF IInv
<1>2. \A c \in Bucket : Charged(c) \in Nat
  BY ChargedNat DEF IInv
<1>3. charges[i].charged \in Nat /\ charges'[i].charged \in Nat
  BY DEF IInv, TypeOK, Row
<1>4. Charged(b)' \in Nat
  <2> DEFINE zero == [k \in 1..N |-> 0]
  <2>1. N \in Nat /\ zero \in [1..N -> Int]
    BY LedgerAssumption
  <2>2. ChargedCol(b)' \in [1..N -> Int]
    BY DEF ChargedCol, TypeOK, Row, Charge
  <2>3. \A k \in 1..N : zero[k] <= ChargedCol(b)'[k]
    BY DEF ChargedCol, TypeOK, Row, Charge
  <2>4. Total(zero, N) = 0
    BY <2>1, TotalZero
  <2> HIDE DEF zero
  <2>5. Total(zero, N) <= Total(ChargedCol(b)', N) /\ Total(ChargedCol(b)', N) \in Int
    BY <2>1, <2>2, <2>3, TotalMonotone, TotalInt
  <2>6. Charged(b)' = Total(ChargedCol(b)', N)
    BY DEF Charged, ChargedCol
  <2> QED BY <2>4, <2>5, <2>6
<1>5. /\ ChargedSums = [c \in Bucket |-> Charged(c)]
      /\ ChargedSums' = [c \in Bucket |-> Charged(c)']
  BY DEF ChargedSums
<1>6. \A c \in Bucket : c # b => Charged(c)' = Charged(c)
  BY <1>1, <1>2
<1>7. ChargedSums' = [ChargedSums EXCEPT ![b] = ChargedSums'[b]]
  BY <1>5, <1>6
<1> QED BY <1>1, <1>2, <1>3, <1>4, <1>5, <1>7

\* Without an overrun a row binds exactly what it is charged, so what is
\* charged is inside the caps.
LEMMA UnhaltedInsideCaps ==
    ASSUME IInv, ~Halted
    PROVE  /\ \A b \in Bucket : Charged(b) <= Cap[b]
           /\ Charged("research") + Charged("public") <= TotalCap
<1>1. \A i \in Charge : Bound(i) = charges[i].charged
  BY DEF IInv, OverrunLatched, Overran, Halted, Bound, TypeOK, Row
<1>2. ASSUME NEW b \in Bucket PROVE Charged(b) = Committed(b)
  <2>1. ChargedCol(b) = BoundCol(b)
    BY <1>1 DEF ChargedCol, BoundCol
  <2> QED BY <2>1, SumsAreTotals
<1> QED BY <1>2 DEF IInv, CommittedWithinCaps, Bucket

LEMMA RefinesInit == Init => Authority!Init
<1> SUFFICES ASSUME Init PROVE Authority!Init
  OBVIOUS
<1>1. TypeOK /\ N \in Nat
  BY InitIInv, LedgerAssumption DEF IInv
<1>2. ASSUME NEW b \in Bucket PROVE Charged(b) = 0
  <2>1. \A i \in 1..N : ChargedCol(b)[i] = 0
    BY DEF ChargedCol, Charge, Init, NoRow
  <2> QED BY <1>1, <2>1, Columns, TotalZero, SumsAreTotals
<1>3. disabled # "reservation_exceeded"
  BY DEF Init
<1> QED BY <1>2, <1>3 DEF Authority!Init, Authority!Bucket, Bucket

LEMMA RefinesStep == IInv /\ [Next]_vars => [Authority!Next]_(Authority!vars)
<1> SUFFICES ASSUME IInv, [Next]_vars
             PROVE  Authority!Next \/ UNCHANGED <<ChargedSums, Halted>>
  BY DEF Authority!vars, ChargedSums, Halted
<1>0. TypeOK' /\ charges \in [Charge -> Row] /\ Shape /\ UnknownKeepsReservation
  BY RowsStep DEF IInv, TypeOK
<1>1. CASE charges' = charges /\ Halted' = Halted
  <2>1. \A b : Charged(b)' = Charged(b)
    BY <1>1 DEF Charged
  <2> QED BY <1>1, <2>1 DEF ChargedSums
<1>2. ASSUME NEW i \in Charge, NEW b \in Bucket, NEW n \in Amounts, NEW now \in Times,
             Reserve(i, b, n, now)
      PROVE  Authority!Authorize(b)
  <2>1. n \in Nat /\ n >= 1 /\ Calibration \in Nat /\ Cap \in [Bucket -> Nat] /\ TotalCap \in Nat
    BY <1>2, LedgerAssumption DEF Reserve
  <2>2. /\ charges[i].charged = 0 /\ Allowed(b, n, now) /\ disabled' = disabled
        /\ charges'[i].bucket = b /\ charges'[i].charged = n
        /\ \A j \in Charge : j # i => charges'[j] = charges[j]
    BY <1>0, <1>2 DEF Reserve, Arrives, Shape
  <2>3. /\ ChargedSums' = [ChargedSums EXCEPT ![b] = ChargedSums'[b]]
        /\ ChargedSums'[b] = ChargedSums[b] + n
        /\ ChargedSums'[b] \in Nat /\ ChargedSums[b] \in Nat
    BY <1>0, <2>1, <2>2, OneRowRefines
  <2>4. ~Halted /\ Halted' = Halted
    BY <2>2 DEF Halted, Allowed
  <2>5. \A c \in Bucket : ChargedSums[c] \in Nat /\ ChargedSums[c] = Charged(c)
    BY ChargedNat DEF ChargedSums, IInv
  <2>6. CalibrationCharge \in Nat
    BY <2>1 DEF CalibrationCharge
  <2>7. /\ ChargedSums["research"] + ChargedSums["public"] + CalibrationCharge + n <= TotalCap
        /\ ChargedSums[b] + (IF b = "research" THEN CalibrationCharge ELSE 0) + n <= Cap[b]
    BY <2>2, <2>5 DEF Allowed, Bucket
  <2>8. \A c \in Bucket : c # b => ChargedSums'[c] = ChargedSums[c]
    BY <2>3 DEF ChargedSums
  <2>9. \A c \in Bucket : ChargedSums'[c] <= Cap[c]
    <3> SUFFICES ASSUME NEW c \in Bucket PROVE ChargedSums'[c] <= Cap[c]
      OBVIOUS
    <3>1. CASE c = b
      BY <2>1, <2>3, <2>6, <2>7, <3>1
    <3>2. CASE c # b
      BY <2>4, <2>5, <2>8, <3>2, UnhaltedInsideCaps
    <3> QED BY <3>1, <3>2
  <2>10. ChargedSums'["research"] + ChargedSums'["public"] <= TotalCap
    <3>1. CASE b = "research"
      BY <2>1, <2>3, <2>5, <2>6, <2>7, <2>8, <3>1 DEF Bucket
    <3>2. CASE b = "public"
      BY <2>1, <2>3, <2>5, <2>6, <2>7, <2>8, <3>2 DEF Bucket
    <3> QED BY <3>1, <3>2 DEF Bucket
  <2>11. ChargedSums'[b] > ChargedSums[b]
    BY <2>1, <2>3
  <2> QED BY <2>3, <2>4, <2>9, <2>10, <2>11
          DEF Authority!Authorize, Authority!OnlyChanges, Authority!InsideCaps,
              Authority!Bucket, Bucket, ChargedSums, Halted
<1>3. ASSUME NEW i \in Charge, NEW cost \in Bills, SettleReported(i, cost)
      PROVE  Authority!Overrun(charges[i].bucket) \/ Authority!Release(charges[i].bucket)
  <2> DEFINE b == charges[i].bucket
  <2>1. cost \in Nat /\ b \in Bucket /\ charges[i].charged \in Nat
        /\ charges[i].reserved = charges[i].charged
    BY <1>0, <1>3, LedgerAssumption DEF SettleReported, UnknownKeepsReservation, Row
  <2>2. /\ charges'[i].bucket = b /\ charges'[i].charged = cost
        /\ \A j \in Charge : j # i => charges'[j] = charges[j]
    BY <1>0, <1>3 DEF SettleReported, Row
  <2> HIDE DEF b
  <2>3. /\ ChargedSums' = [ChargedSums EXCEPT ![b] = ChargedSums'[b]]
        /\ ChargedSums'[b] = ChargedSums[b] + (cost - charges[i].charged)
        /\ ChargedSums'[b] \in Nat /\ ChargedSums[b] \in Nat
    <3>1. charges[i].bucket = b
      BY DEF b
    <3> QED BY <1>0, <2>1, <2>2, <3>1, OneRowRefines
  <2>4. CASE cost > charges[i].reserved
    <3>1. Halted' = TRUE
      BY <1>3, <2>4 DEF SettleReported, Halted
    <3>2. ChargedSums'[b] > ChargedSums[b]
      BY <2>1, <2>3, <2>4
    <3>3. Authority!Overrun(b)
      BY <2>3, <3>1, <3>2 DEF Authority!Overrun, Authority!OnlyChanges, ChargedSums, Halted
    <3> QED BY <3>3 DEF b
  <2>5. CASE ~(cost > charges[i].reserved)
    <3>1. Halted' = Halted
      BY <1>3, <2>5 DEF SettleReported, Halted
    <3>2. ChargedSums'[b] \in 0..ChargedSums[b]
      BY <2>1, <2>3, <2>5
    <3>3. Authority!Release(b)
      BY <2>3, <3>1, <3>2 DEF Authority!Release, Authority!OnlyChanges, ChargedSums, Halted
    <3> QED BY <3>3 DEF b
  <2> QED BY <2>4, <2>5
<1>4. ASSUME NEW i \in Charge, SettleUnknown(i) \/ MarkUncertain(i)
      PROVE  UNCHANGED <<ChargedSums, Halted>>
  <2>1. \A j \in Charge : /\ charges'[j].bucket = charges[j].bucket
                          /\ charges'[j].charged = charges[j].charged
    BY <1>0, <1>4 DEF SettleUnknown, MarkUncertain, UnknownKeepsReservation, Row
  <2>2. \A b : Charged(b)' = Charged(b)
    BY <2>1 DEF Charged
  <2>3. disabled' = disabled
    BY <1>4 DEF SettleUnknown, MarkUncertain
  <2> QED BY <2>2, <2>3 DEF ChargedSums, Halted
<1>5. \/ charges' = charges /\ Halted' = Halted
      \/ \E i \in Charge, cost \in Bills : SettleReported(i, cost)
      \/ \E i \in Charge : SettleUnknown(i) \/ MarkUncertain(i)
      \/ \E i \in Charge, b \in Bucket, n \in Amounts, now \in Times :
            Reserve(i, b, n, now)
  BY DEF Next, vars, Refuse, Deny, Crash, ImportCalibration, Pause, Resume,
         ClearAccess, Halted
<1>6. \A i \in Charge : charges[i].bucket \in Authority!Bucket
  BY <1>0 DEF Row, Bucket, Authority!Bucket
<1>7. \A b \in Bucket : b \in Authority!Bucket
  BY DEF Bucket, Authority!Bucket
<1> QED BY <1>1, <1>2, <1>3, <1>4, <1>5, <1>6, <1>7 DEF Authority!Next

\* The ledger implements the abstract spend authority: its sums only rise by
\* authorisations inside the caps, and by overruns after which none follows.
THEOREM LedgerRefinesAuthority == Spec => ImplementsSpendAuthority
BY RefinesInit, RefinesStep, Inductive, PTL
   DEF Spec, ImplementsSpendAuthority, Authority!Spec

\* Every authority, and so the ledger's sums, stays inside the caps until an
\* overrun halts it.
THEOREM ChargedWithinCaps == Spec => []Authority!WithinCaps
<1>1. IInv => Authority!WithinCaps
  BY UnhaltedInsideCaps
     DEF Authority!WithinCaps, Authority!InsideCaps, Authority!Bucket, Bucket, Halted
<1> QED BY <1>1, Inductive, PTL

=============================================================================
