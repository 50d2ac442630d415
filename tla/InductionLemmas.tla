--------------------------- MODULE InductionLemmas ---------------------------
(***************************************************************************)
(* Induction over the natural numbers, stated for a set instead of a       *)
(* predicate, and what follows from it: a function defined by recursion    *)
(* over 0..n exists and satisfies its equations.                           *)
(***************************************************************************)
EXTENDS Integers, Sequences, WellFoundedInduction, TLAPS

(* A set with 0 that is closed under successor holds every natural number. *)
LEMMA Induction ==
  ASSUME NEW S, 0 \in S, \A n \in Nat : n \in S => n + 1 \in S
  PROVE  Nat \subseteq S
<1> SUFFICES ASSUME Nat \ S # {} PROVE FALSE
  OBVIOUS
<1> DEFINE T == Nat \ S
<1>1. T \subseteq Nat /\ T # {}
  OBVIOUS
<1>2. PICK m \in T : \A k \in T : <<k, m>> \notin OpToRel(<, Nat)
  <2> HIDE DEF T
  <2> QED BY <1>1, WFMin, NatLessThanWellFounded, Zenon
<1>3. \A k \in T : ~(k < m)
  BY <1>2, Zenon DEF OpToRel
<1>4. m # 0 /\ m - 1 \in Nat
  OBVIOUS
<1>5. m - 1 \in T
  BY <1>4
<1> QED
  BY <1>3, <1>4, <1>5

(* The same up to a bound. *)
LEMMA InductionUpTo ==
  ASSUME NEW n \in Nat, NEW S, 0 \in S, \A k \in 0..(n - 1) : k \in S => k + 1 \in S
  PROVE  0..n \subseteq S
<1> DEFINE T == {k \in Nat : k <= n => k \in S}
<1>1. 0 \in T
  OBVIOUS
<1>2. \A k \in Nat : k \in T => k + 1 \in T
  OBVIOUS
<1>3. Nat \subseteq T
  <2> HIDE DEF T
  <2> QED BY <1>1, <1>2, Induction
<1> QED
  BY <1>3

(* From a bound down to 0. *)
LEMMA InductionDown ==
  ASSUME NEW n \in Nat, NEW S, n \in S, \A k \in 1..n : k \in S => k - 1 \in S
  PROVE  0..n \subseteq S
<1> DEFINE T == {k \in Nat : k <= n => n - k \in S}
<1>1. 0 \in T
  OBVIOUS
<1>2. \A k \in Nat : k \in T => k + 1 \in T
  <2> TAKE k \in Nat
  <2> HAVE k \in T
  <2>1. CASE k + 1 <= n
    <3>1. n - k \in 1..n /\ n - k \in S
      BY <2>1
    <3>2. (n - k) - 1 \in S
      BY <3>1
    <3>3. (n - k) - 1 = n - (k + 1)
      OBVIOUS
    <3> QED BY <3>2, <3>3
  <2>2. CASE ~(k + 1 <= n)
    BY <2>2
  <2> QED BY <2>1, <2>2
<1>3. Nat \subseteq T
  <2> HIDE DEF T
  <2> QED BY <1>1, <1>2, Induction
<1>4. \A k \in 0..n : k \in S
  <2> TAKE k \in 0..n
  <2>1. n - k \in T /\ n - k <= n /\ n - (n - k) = k
    BY <1>3
  <2> QED BY <2>1
<1> QED
  BY <1>4

(* Recursion over 0..n: a first value and a step determine a function. *)
Recurs(f, n, T, b, step) ==
  /\ f \in [0..n -> T]
  /\ f[0] = b
  /\ \A k \in 1..n : f[k] = step[k][f[k - 1]]

LEMMA Recursion ==
  ASSUME NEW n \in Nat, NEW T, NEW b \in T, NEW step \in [1..n -> [T -> T]]
  PROVE  \E f : Recurs(f, n, T, b, step)
<1> DEFINE Good(m, f) == f[0] = b /\ \A k \in 1..m : f[k] = step[k][f[k - 1]]
           S == {m \in 0..n : \E f \in [0..m -> T] : Good(m, f)}
<1>1. 0 \in S
  <2> DEFINE f == [k \in 0..0 |-> b]
  <2>1. f \in [0..0 -> T] /\ Good(0, f)
    OBVIOUS
  <2>2. \E h \in [0..0 -> T] : Good(0, h)
    <3> HIDE DEF f, Good
    <3> QED BY <2>1
  <2> QED BY <2>2
<1>2. \A k \in 0..(n - 1) : k \in S => k + 1 \in S
  <2> TAKE m \in 0..(n - 1)
  <2> HAVE m \in S
  <2>1. PICK f \in [0..m -> T] : Good(m, f)
    OBVIOUS
  <2> DEFINE g == [k \in 0..(m + 1) |-> IF k = m + 1 THEN step[m + 1][f[m]] ELSE f[k]]
  <2>2. f[m] \in T /\ m + 1 \in 1..n
    OBVIOUS
  <2>3. step[m + 1][f[m]] \in T
    BY <2>2
  <2>4. g \in [0..(m + 1) -> T]
    BY <2>3
  <2>5. Good(m + 1, g)
    <3>1. g[0] = b
      BY <2>1
    <3>2. ASSUME NEW k \in 1..(m + 1) PROVE g[k] = step[k][g[k - 1]]
      <4>1. CASE k = m + 1
        BY <4>1
      <4>2. CASE k # m + 1
        <5>1. k \in 1..m /\ g[k] = f[k] /\ g[k - 1] = f[k - 1]
          BY <4>2
        <5> QED BY <5>1, <2>1
      <4> QED BY <4>1, <4>2
    <3> QED BY <3>1, <3>2
  <2>6. \E h \in [0..(m + 1) -> T] : Good(m + 1, h)
    <3> HIDE DEF g, Good
    <3> QED BY <2>4, <2>5
  <2>7. m + 1 \in 0..n
    OBVIOUS
  <2> HIDE DEF Good
  <2> QED BY <2>6, <2>7
<1>3. 0..n \subseteq S
  <2> HIDE DEF S
  <2> QED BY <1>1, <1>2, InductionUpTo
<1>4. n \in S
  <2> HIDE DEF S
  <2> QED BY <1>3
<1> QED
  BY <1>4 DEF Recurs
=============================================================================
