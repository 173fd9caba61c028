--------------------------------- MODULE Sums ---------------------------------
(* The sum of the first n values of f. *)
EXTENDS Integers

SumTo(f, n) ==
  LET total[i \in 0..n] == IF i = 0 THEN 0 ELSE total[i - 1] + f[i] IN total[n]
===============================================================================
