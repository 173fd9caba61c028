------------------------------ MODULE Iterations -------------------------------
(***************************************************************************)
(* What the proofs need of a recursive function of a number: induction     *)
(* over the numbers, as an operator cannot be a lemma's parameter here; an *)
(* iteration is a function, whatever its step; and the sums of Sums.       *)
(***************************************************************************)
EXTENDS Sums, WellFoundedInduction, TLAPS

\* There is a least in any numbers.
LEMMA LeastOf ==
  ASSUME NEW S \in SUBSET Nat, S # {}
  PROVE  \E m \in S : \A n \in S : m <= n
<1> DEFINE R == OpToRel(<, Nat)
<1>1. IsWellFoundedOn(R, Nat)
  BY NatLessThanWellFounded
<1>2. R = {ss \in Nat \X Nat : ss[1] < ss[2]}
  BY DEF OpToRel
<1> HIDE DEF R
<1>3. PICK m \in S : \A n \in S : <<n, m>> \notin R
  BY <1>1, WFMin
<1>4. ASSUME NEW n \in S PROVE m <= n
  <2>1. m \in Nat /\ n \in Nat
    OBVIOUS
  <2>2. n < m => <<n, m>> \in R
    BY <1>2, <2>1
  <2> QED
    BY <1>3, <2>1, <2>2
<1> QED
  BY <1>3, <1>4

\* What holds of 0, and of n + 1 whenever it holds of n, holds of every number.
LEMMA Induct ==
  ASSUME NEW S \in SUBSET Nat, 0 \in S, \A n \in Nat : n \in S => n + 1 \in S
  PROVE  S = Nat
<1> SUFFICES ASSUME Nat \ S # {} PROVE FALSE
  OBVIOUS
<1>1. PICK m \in Nat \ S : \A n \in Nat \ S : m <= n
  BY LeastOf
<1>2. m # 0 /\ m - 1 \in Nat /\ m - 1 \in S /\ (m - 1) + 1 = m
  BY <1>1
<1> QED
  BY <1>1, <1>2

\* The values of an iteration: from b, by step.
Iterates(g, n, b, step) == g[0] = b /\ \A i \in 1..n : g[i] = step[<<i, g[i - 1]>>]

LEMMA IterationExists ==
  ASSUME NEW S, NEW b \in S, NEW N \in Nat, NEW step \in [(1..N) \X S -> S]
  PROVE  \E g \in [0..N -> S] : Iterates(g, N, b, step)
<1> DEFINE P == {n \in Nat : n <= N => \E g \in [0..n -> S] : Iterates(g, n, b, step)}
<1>1. 0 \in P
  <2>1. [i \in 0..0 |-> b] \in [0..0 -> S] /\ Iterates([i \in 0..0 |-> b], 0, b, step)
    BY DEF Iterates
  <2> QED
    BY <2>1
<1>2. ASSUME NEW n \in Nat, n \in P PROVE n + 1 \in P
  <2> SUFFICES ASSUME n + 1 <= N PROVE \E g \in [0..n + 1 -> S] : Iterates(g, n + 1, b, step)
    OBVIOUS
  <2>1. PICK g \in [0..n -> S] : Iterates(g, n, b, step)
    BY <1>2
  <2> DEFINE last == step[<<n + 1, g[n]>>]
             h == [i \in 0..n + 1 |-> IF i = n + 1 THEN last ELSE g[i]]
  <2>2. last \in S
    OBVIOUS
  <2> HIDE DEF last
  <2>3. h \in [0..n + 1 -> S]
    BY <2>2
  <2>4. h[0] = b
    BY <2>1 DEF Iterates
  <2>5. ASSUME NEW i \in 1..n + 1 PROVE h[i] = step[<<i, h[i - 1]>>]
    <3>1. CASE i = n + 1
      <4>1. h[i] = last /\ h[i - 1] = g[n]
        BY <3>1
      <4> QED
        BY <3>1, <4>1 DEF last
    <3>2. CASE i # n + 1
      <4>1. i \in 1..n /\ h[i] = g[i] /\ h[i - 1] = g[i - 1]
        BY <3>2
      <4> QED
        BY <2>1, <4>1 DEF Iterates
    <3> QED
      BY <3>1, <3>2
  <2> QED
    BY <2>3, <2>4, <2>5 DEF Iterates
<1>3. N \in P
  <2> HIDE DEF P
  <2> QED
    BY <1>1, <1>2, Induct DEF P
<1> QED
  BY <1>3

-------------------------------------------------------------------------------
(* Sums *)

Additive(S) == 0 \in S /\ \A a, b \in S : a + b \in S

\* The sums of f up to n, all in S.
Totals(t, f, n, S) ==
  /\ t \in [0..n -> S] /\ SumTo(f, n) = t[n] /\ t[0] = 0
  /\ \A i \in 1..n : t[i] = t[i - 1] + f[i]

IsSum(g, f, n) == g = [i \in 0..n |-> IF i = 0 THEN 0 ELSE g[i - 1] + f[i]]

LEMMA SumsIn ==
  ASSUME NEW S \in SUBSET Int, Additive(S), NEW n \in Nat, NEW f, \A i \in 1..n : f[i] \in S
  PROVE  \E t : Totals(t, f, n, S)
<1> DEFINE step == [x \in (1..n) \X S |-> x[2] + f[x[1]]]
<1>1. step \in [(1..n) \X S -> S]
  BY DEF Additive
<1>2. PICK g \in [0..n -> S] : Iterates(g, n, 0, step)
  BY <1>1, IterationExists DEF Additive
<1>3. \A i \in 1..n : g[i] = g[i - 1] + f[i]
  <2> SUFFICES ASSUME NEW i \in 1..n PROVE g[i] = g[i - 1] + f[i]
    OBVIOUS
  <2>1. g[i - 1] \in S
    OBVIOUS
  <2>2. <<i, g[i - 1]>> \in (1..n) \X S
    BY <2>1
  <2>3. step[<<i, g[i - 1]>>] = g[i - 1] + f[i]
    BY <2>2
  <2> QED
    BY <1>2, <2>3 DEF Iterates
<1>4. g[0] = 0
  BY <1>2 DEF Iterates
<1>5. IsSum(g, f, n)
  BY <1>3, <1>4 DEF IsSum
<1> DEFINE h == CHOOSE k : IsSum(k, f, n)
<1>6. IsSum(h, f, n)
  BY <1>5
<1>7. SumTo(f, n) = h[n]
  BY DEF SumTo, IsSum
<1> HIDE DEF h, step
<1>8. h[0] = 0
  BY <1>6 DEF IsSum
<1>9. \A i \in 1..n : h[i] = h[i - 1] + f[i]
  BY <1>6 DEF IsSum
<1>10. h \in [0..n -> S]
  <2> DEFINE P == {i \in Nat : i <= n => h[i] = g[i]}
  <2>1. 0 \in P
    BY <1>4, <1>8
  <2>2. ASSUME NEW i \in Nat, i \in P PROVE i + 1 \in P
    <3> SUFFICES ASSUME i + 1 <= n PROVE h[i + 1] = g[i + 1]
      OBVIOUS
    <3>1. h[i] = g[i] /\ i + 1 \in 1..n /\ (i + 1) - 1 = i
      BY <2>2
    <3> QED
      BY <1>3, <1>9, <3>1
  <2>3. P = Nat
    <3> HIDE DEF P
    <3> QED
      BY <2>1, <2>2, Induct DEF P
  <2>4. \A i \in 0..n : h[i] = g[i]
    BY <2>3
  <2> QED
    BY <1>6, <2>4 DEF IsSum
<1> QED
  BY <1>7, <1>8, <1>9, <1>10 DEF Totals

\* One more, where the others are the same.
LEMMA SumStepIn ==
  ASSUME NEW S \in SUBSET Int, Additive(S),
         NEW n \in Nat, NEW f, NEW g, \A i \in 1..n : f[i] \in S /\ g[i] = f[i], g[n + 1] \in S
  PROVE  /\ SumTo(f, n) \in S /\ SumTo(g, n) = SumTo(f, n)
         /\ SumTo(g, n + 1) = SumTo(f, n) + g[n + 1]
<1>1. PICK a : Totals(a, f, n, S)
  BY SumsIn
<1>2. PICK b : Totals(b, g, n, S)
  <2>1. \A i \in 1..n : g[i] \in S
    OBVIOUS
  <2> QED
    BY <2>1, SumsIn
<1>3. PICK m \in Nat : m = n + 1
  OBVIOUS
<1>4. PICK c : Totals(c, g, m, S)
  <2>1. ASSUME NEW i \in 1..m PROVE g[i] \in S
    <3>1. i \in 1..n \/ i = n + 1
      BY <1>3
    <3> QED
      BY <3>1
  <2>2. \A i \in 1..m : g[i] \in S
    BY <2>1
  <2> QED
    BY <2>2, SumsIn
<1> DEFINE P == {i \in Nat : i <= n => a[i] = b[i] /\ a[i] = c[i]}
<1>5. 0 \in P
  BY <1>1, <1>2, <1>4 DEF Totals
<1>6. ASSUME NEW i \in Nat, i \in P PROVE i + 1 \in P
  <2> SUFFICES ASSUME i + 1 <= n PROVE a[i + 1] = b[i + 1] /\ a[i + 1] = c[i + 1]
    OBVIOUS
  <2>1. a[i] = b[i] /\ a[i] = c[i]
    BY <1>6
  <2>2. PICK k \in 1..n : k = i + 1 /\ k - 1 = i /\ k \in 1..m
    BY <1>3
  <2>3. a[k] = a[k - 1] + f[k]
    BY <1>1 DEF Totals
  <2>4. b[k] = b[k - 1] + g[k]
    BY <1>2 DEF Totals
  <2>5. c[k] = c[k - 1] + g[k]
    BY <1>4, <2>2 DEF Totals
  <2> QED
    BY <2>1, <2>2, <2>3, <2>4, <2>5
<1>7. P = Nat
  <2> HIDE DEF P
  <2> QED
    BY <1>5, <1>6, Induct DEF P
<1>8. a[n] = b[n] /\ a[n] = c[n]
  BY <1>7
<1>9. n + 1 \in 1..n + 1 /\ (n + 1) - 1 = n
  OBVIOUS
<1> QED
  BY <1>1, <1>2, <1>3, <1>4, <1>8, <1>9 DEF Totals

LEMMA SumFact ==
  ASSUME NEW n \in Nat, NEW f, \A i \in 1..n : f[i] \in Nat
  PROVE  \E t : Totals(t, f, n, Nat)
<1>1. Nat \in SUBSET Int /\ Additive(Nat)
  BY DEF Additive
<1> QED
  BY <1>1, SumsIn

LEMMA SumStep ==
  ASSUME NEW n \in Nat, NEW f, NEW g, \A i \in 1..n : f[i] \in Nat /\ g[i] = f[i], g[n + 1] \in Nat
  PROVE  /\ SumTo(f, n) \in Nat /\ SumTo(g, n) = SumTo(f, n)
         /\ SumTo(g, n + 1) = SumTo(f, n) + g[n + 1]
<1>1. Nat \in SUBSET Int /\ Additive(Nat)
  BY DEF Additive
<1> QED
  BY <1>1, SumStepIn

LEMMA IntSumStep ==
  ASSUME NEW n \in Nat, NEW f, NEW g, \A i \in 1..n : f[i] \in Int /\ g[i] = f[i], g[n + 1] \in Int
  PROVE  /\ SumTo(f, n) \in Int /\ SumTo(g, n) = SumTo(f, n)
         /\ SumTo(g, n + 1) = SumTo(f, n) + g[n + 1]
<1>1. Int \in SUBSET Int /\ Additive(Int)
  BY DEF Additive
<1> QED
  BY <1>1, SumStepIn
===============================================================================
