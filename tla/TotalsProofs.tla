---------------------------- MODULE TotalsProofs ----------------------------
(***************************************************************************)
(* What SUM preserves and bounds, for a table of any length.  The library's *)
(* induction theorems take an operator parameter; induction is done here   *)
(* with the least element of a set of counterexamples, which is first      *)
(* order.                                                                  *)
(***************************************************************************)
EXTENDS Totals, TLAPS, WellFoundedInduction

\* A non-empty set of naturals has a least element.
LEMMA LeastNatural ==
    ASSUME NEW T \in SUBSET Nat, T # {}
    PROVE  \E m \in T : \A k \in T : m <= k
<1> DEFINE R == {ss \in Nat \X Nat : ss[1] < ss[2]}
<1>1. IsWellFoundedOn(R, Nat)
  BY NatLessThanWellFounded DEF OpToRel
<1> HIDE DEF R
<1>2. PICK x \in T : \A y \in T : ~(<<y, x>> \in R)
  BY <1>1, WFMin
<1>3. \A y \in T : ~(y < x)
  BY <1>2 DEF R
<1> QED BY <1>3

\* Induction over the naturals, for a property given as the set of the
\* numbers that have it.
LEMMA SetInduction ==
    ASSUME NEW G, 0 \in G,
           \A n \in Nat : n \in G => n + 1 \in G
    PROVE  \A n \in Nat : n \in G
<1>1. SUFFICES ASSUME {n \in Nat : n \notin G} # {} PROVE FALSE
  OBVIOUS
<1>2. PICK m \in {n \in Nat : n \notin G} :
           \A k \in {n \in Nat : n \notin G} : m <= k
  BY <1>1, LeastNatural
<1>3. m # 0 /\ m - 1 \in Nat /\ m - 1 \in G
  BY <1>2
<1> QED BY <1>2, <1>3

-----------------------------------------------------------------------------
\* The recursive definition has a solution: the partial sums are integers,
\* they start at 0, and each adds the next row.
LEMMA PartialSumsExist ==
    ASSUME NEW n \in Nat, NEW f \in [1..n -> Int]
    PROVE  \E s \in [0..n -> Int] :
              s = [k \in 0..n |-> IF k = 0 THEN 0 ELSE s[k-1] + f[k]]
<1> DEFINE Solves(s, m) ==
               s = [k \in 0..m |-> IF k = 0 THEN 0 ELSE s[k-1] + f[k]]
           Solvable(m) == m <= n => \E s \in [0..m -> Int] : Solves(s, m)
           G == {m \in Nat : Solvable(m)}
<1>1. 0 \in G
  <2> DEFINE z == [k \in 0..0 |-> 0]
  <2>1. z \in [0..0 -> Int] /\ Solves(z, 0)
    OBVIOUS
  <2> QED BY <2>1
<1>2. ASSUME NEW m \in Nat, m \in G PROVE m + 1 \in G
  <2>0. Solvable(m)
    BY <1>2
  <2>1. SUFFICES ASSUME m + 1 <= n
                 PROVE  \E s \in [0..(m+1) -> Int] : Solves(s, m+1)
    <3> HIDE DEF Solves
    <3> QED BY DEF Solvable
  <2>2. PICK s \in [0..m -> Int] : Solves(s, m)
    <3>1. m <= n
      BY <2>1
    <3> HIDE DEF Solves
    <3> QED BY <2>0, <3>1
  <2> DEFINE t == [k \in 0..(m+1) |-> IF k = m+1 THEN s[m] + f[m+1] ELSE s[k]]
  <2>3. t \in [0..(m+1) -> Int]
    BY <2>1
  <2>4. ASSUME NEW k \in 0..(m+1)
        PROVE  t[k] = IF k = 0 THEN 0 ELSE t[k-1] + f[k]
    BY <2>2
  <2>5. Solves(t, m+1)
    BY <2>4
  <2> QED BY <2>3, <2>5
<1>3. n \in G
  <2> HIDE DEF G
  <2> QED BY <1>1, <1>2, SetInduction
<1>4. Solvable(n)
  BY <1>3
<1> QED BY <1>4

LEMMA PartialSumsDef ==
    ASSUME NEW n \in Nat, NEW f \in [1..n -> Int]
    PROVE  /\ PartialSums(f, n) \in [0..n -> Int]
           /\ PartialSums(f, n)[0] = 0
           /\ \A k \in 1..n :
                 PartialSums(f, n)[k] = PartialSums(f, n)[k-1] + f[k]
<1> DEFINE s == PartialSums(f, n)
<1>1. s = [k \in 0..n |-> IF k = 0 THEN 0 ELSE s[k-1] + f[k]]
  BY PartialSumsExist DEF PartialSums
<1> HIDE DEF s
<1>2. s[0] = 0 /\ \A k \in 1..n : s[k] = s[k-1] + f[k]
  BY <1>1
<1> DEFINE G == {k \in Nat : k <= n => s[k] \in Int}
<1>3. 0 \in G
  BY <1>2
<1>4. ASSUME NEW k \in Nat, k \in G PROVE k + 1 \in G
  BY <1>2, <1>4
<1>5. \A k \in Nat : k \in G
  <2> HIDE DEF G
  <2> QED BY <1>3, <1>4, SetInduction
<1>6. \A k \in 0..n : s[k] \in Int
  BY <1>5
<1>7. s \in [0..n -> Int]
  <2>1. DOMAIN s = 0..n /\ s = [k \in 0..n |-> s[k]]
    BY <1>1, Zenon
  <2> QED BY <1>6, <2>1
<1> QED BY <1>2, <1>7 DEF s

LEMMA TotalInt ==
    ASSUME NEW n \in Nat, NEW f \in [1..n -> Int]
    PROVE  Total(f, n) \in Int
BY PartialSumsDef DEF Total

\* Rewriting one row changes the sum by exactly that row's change.
LEMMA TotalUpdate ==
    ASSUME NEW n \in Nat, NEW f \in [1..n -> Int], NEW g \in [1..n -> Int],
           NEW i \in 1..n, \A k \in 1..n : k # i => g[k] = f[k]
    PROVE  Total(g, n) = Total(f, n) - f[i] + g[i]
<1> DEFINE s == PartialSums(f, n)
           t == PartialSums(g, n)
           G == {k \in Nat : k <= n =>
                    t[k] = IF k < i THEN s[k] ELSE s[k] - f[i] + g[i]}
<1>1. /\ s \in [0..n -> Int] /\ s[0] = 0
      /\ \A k \in 1..n : s[k] = s[k-1] + f[k]
  BY PartialSumsDef
<1>2. /\ t \in [0..n -> Int] /\ t[0] = 0
      /\ \A k \in 1..n : t[k] = t[k-1] + g[k]
  BY PartialSumsDef
<1> HIDE DEF s, t
<1>3. 0 \in G
  BY <1>1, <1>2
<1>4. ASSUME NEW k \in Nat, k \in G PROVE k + 1 \in G
  <2>1. SUFFICES ASSUME k + 1 <= n
                 PROVE  t[k+1] = IF k+1 < i THEN s[k+1] ELSE s[k+1] - f[i] + g[i]
    OBVIOUS
  <2>0. t[k+1] = t[k] + g[k+1] /\ s[k+1] = s[k] + f[k+1]
    <3>1. k + 1 \in 1..n /\ (k + 1) - 1 = k
      BY <2>1
    <3> QED BY <1>1, <1>2, <3>1
  <2>2. /\ t[k+1] = t[k] + g[k+1] /\ s[k+1] = s[k] + f[k+1]
        /\ t[k] = IF k < i THEN s[k] ELSE s[k] - f[i] + g[i]
    BY <1>4, <2>0, <2>1
  <2>3. s[k] \in Int /\ f[k+1] \in Int /\ g[k+1] \in Int /\ f[i] \in Int /\ g[i] \in Int
    BY <1>1, <2>1
  <2>4. CASE k + 1 = i
    BY <2>2, <2>3, <2>4
  <2>5. CASE k + 1 # i
    <3>1. g[k+1] = f[k+1]
      BY <2>1, <2>5
    <3> QED BY <2>2, <2>3, <2>5, <3>1
  <2> QED BY <2>4, <2>5
<1>5. n \in G
  <2> HIDE DEF G
  <2> QED BY <1>3, <1>4, SetInduction
<1>6. t[n] = s[n] - f[i] + g[i]
  BY <1>5
<1> QED BY <1>6 DEF Total, s, t

\* A column that is nowhere above another has no larger sum.
LEMMA TotalMonotone ==
    ASSUME NEW n \in Nat, NEW f \in [1..n -> Int], NEW g \in [1..n -> Int],
           \A k \in 1..n : f[k] <= g[k]
    PROVE  Total(f, n) <= Total(g, n)
<1> DEFINE s == PartialSums(f, n)
           t == PartialSums(g, n)
           G == {k \in Nat : k <= n => s[k] <= t[k]}
<1>1. /\ s \in [0..n -> Int] /\ s[0] = 0
      /\ \A k \in 1..n : s[k] = s[k-1] + f[k]
  BY PartialSumsDef
<1>2. /\ t \in [0..n -> Int] /\ t[0] = 0
      /\ \A k \in 1..n : t[k] = t[k-1] + g[k]
  BY PartialSumsDef
<1> HIDE DEF s, t
<1>3. 0 \in G
  BY <1>1, <1>2
<1>4. ASSUME NEW k \in Nat, k \in G PROVE k + 1 \in G
  <2>1. SUFFICES ASSUME k + 1 <= n PROVE s[k+1] <= t[k+1]
    OBVIOUS
  <2>2. s[k] \in Int /\ t[k] \in Int /\ f[k+1] \in Int /\ g[k+1] \in Int
    BY <1>1, <1>2, <2>1
  <2>3. t[k+1] = t[k] + g[k+1] /\ s[k+1] = s[k] + f[k+1] /\ s[k] <= t[k]
    BY <1>1, <1>2, <1>4, <2>1
  <2>4. f[k+1] <= g[k+1]
    BY <2>1
  <2> QED BY <2>2, <2>3, <2>4
<1>5. n \in G
  <2> HIDE DEF G
  <2> QED BY <1>3, <1>4, SetInduction
<1> QED BY <1>5 DEF Total, s, t

\* An empty table sums to 0.
LEMMA TotalZero ==
    ASSUME NEW n \in Nat, NEW f \in [1..n -> Int], \A k \in 1..n : f[k] = 0
    PROVE  Total(f, n) = 0
<1> DEFINE s == PartialSums(f, n)
           G == {k \in Nat : k <= n => s[k] = 0}
<1>1. /\ s \in [0..n -> Int] /\ s[0] = 0
      /\ \A k \in 1..n : s[k] = s[k-1] + f[k]
  BY PartialSumsDef
<1> HIDE DEF s
<1>2. 0 \in G
  BY <1>1
<1>3. ASSUME NEW k \in Nat, k \in G PROVE k + 1 \in G
  BY <1>1, <1>3
<1>4. n \in G
  <2> HIDE DEF G
  <2> QED BY <1>2, <1>3, SetInduction
<1> QED BY <1>4 DEF Total, s

LEMMA Regroup == \A a, b, c, d \in Int : (a + b) + (c + d) = (a + c) + (b + d)
OBVIOUS

\* The sums of two columns are the sum of their sum.
LEMMA TotalAdd ==
    ASSUME NEW n \in Nat, NEW f \in [1..n -> Int], NEW g \in [1..n -> Int],
           NEW h \in [1..n -> Int], \A k \in 1..n : h[k] = f[k] + g[k]
    PROVE  Total(h, n) = Total(f, n) + Total(g, n)
<1> DEFINE s == PartialSums(f, n)
           t == PartialSums(g, n)
           u == PartialSums(h, n)
           G == {k \in Nat : k <= n => u[k] = s[k] + t[k]}
<1>1. /\ s \in [0..n -> Int] /\ s[0] = 0
      /\ \A k \in 1..n : s[k] = s[k-1] + f[k]
  BY PartialSumsDef
<1>2. /\ t \in [0..n -> Int] /\ t[0] = 0
      /\ \A k \in 1..n : t[k] = t[k-1] + g[k]
  BY PartialSumsDef
<1>3. /\ u \in [0..n -> Int] /\ u[0] = 0
      /\ \A k \in 1..n : u[k] = u[k-1] + h[k]
  BY PartialSumsDef
<1> HIDE DEF s, t, u
<1>4. 0 \in G
  BY <1>1, <1>2, <1>3
<1>5. ASSUME NEW k \in Nat, k \in G PROVE k + 1 \in G
  <2>1. SUFFICES ASSUME k + 1 <= n PROVE u[k+1] = s[k+1] + t[k+1]
    OBVIOUS
  <2>2. s[k] \in Int /\ t[k] \in Int /\ f[k+1] \in Int /\ g[k+1] \in Int
    BY <1>1, <1>2, <2>1
  <2>3. k + 1 \in 1..n /\ (k + 1) - 1 = k
    BY <2>1
  <2>4. s[k+1] = s[k] + f[k+1] /\ t[k+1] = t[k] + g[k+1] /\ u[k+1] = u[k] + h[k+1]
    BY <1>1, <1>2, <1>3, <2>3
  <2>5. u[k] = s[k] + t[k]
    BY <1>5, <2>1
  <2>6. h[k+1] = f[k+1] + g[k+1]
    BY <2>3
  <2>7. u[k+1] = (s[k] + t[k]) + (f[k+1] + g[k+1])
    BY <2>4, <2>5, <2>6, Zenon
  <2>8. s[k+1] = s[k] + f[k+1] /\ t[k+1] = t[k] + g[k+1]
    BY <2>4
  <2>9. (s[k] + t[k]) + (f[k+1] + g[k+1]) = (s[k] + f[k+1]) + (t[k] + g[k+1])
    BY <2>2, Regroup
  <2> QED BY <2>7, <2>8, <2>9, Zenon
<1>6. n \in G
  <2> HIDE DEF G
  <2> QED BY <1>4, <1>5, SetInduction
<1> QED BY <1>6 DEF Total, s, t, u

\* A row more.
LEMMA TotalAppend ==
    ASSUME NEW n \in Nat, NEW f \in [1..n -> Int], NEW g \in [1..(n + 1) -> Int],
           \A k \in 1..n : g[k] = f[k]
    PROVE  Total(g, n + 1) = Total(f, n) + g[n + 1]
<1> DEFINE s == PartialSums(f, n)
           t == PartialSums(g, n + 1)
           G == {k \in Nat : k <= n => t[k] = s[k]}
<1>1. /\ s \in [0..n -> Int] /\ s[0] = 0 /\ \A k \in 1..n : s[k] = s[k-1] + f[k]
  BY PartialSumsDef
<1>2. /\ t \in [0..(n + 1) -> Int] /\ t[0] = 0
      /\ \A k \in 1..(n + 1) : t[k] = t[k-1] + g[k]
  <2>1. n + 1 \in Nat
    OBVIOUS
  <2> QED BY <2>1, PartialSumsDef
<1> HIDE DEF s, t
<1>3. 0 \in G
  BY <1>1, <1>2
<1>4. ASSUME NEW k \in Nat, k \in G PROVE k + 1 \in G
  <2> SUFFICES ASSUME k + 1 <= n PROVE t[k + 1] = s[k + 1]
    OBVIOUS
  <2>1. k + 1 \in 1..n /\ k + 1 \in 1..(n + 1) /\ (k + 1) - 1 = k /\ k <= n
    OBVIOUS
  <2> QED BY <1>1, <1>2, <1>4, <2>1
<1>5. \A k \in Nat : k \in G
  <2> HIDE DEF G
  <2> QED BY <1>3, <1>4, SetInduction
<1>6. t[n] = s[n]
  BY <1>5
<1>7. t[n + 1] = t[n] + g[n + 1]
  <2>1. n + 1 \in 1..(n + 1) /\ (n + 1) - 1 = n
    OBVIOUS
  <2> QED BY <1>2, <2>1
<1> QED BY <1>6, <1>7 DEF Total, s, t

=============================================================================
