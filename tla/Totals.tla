------------------------------- MODULE Totals -------------------------------
(***************************************************************************)
(* SELECT COALESCE(SUM(charged), 0): the sum of an integer column over the *)
(* rows 1..n of a table, as a recursive function over the row number, so   *)
(* that modules with theorems can use it.                                  *)
(***************************************************************************)
EXTENDS Integers

\* PartialSums(f, n)[k] is the sum of f[1] .. f[k].
PartialSums(f, n) ==
    LET s[k \in 0..n] == IF k = 0 THEN 0 ELSE s[k-1] + f[k]
    IN  s

Total(f, n) == PartialSums(f, n)[n]

=============================================================================
