----------------------------- MODULE Induction -----------------------------
(***************************************************************************)
(* Induction over the naturals in a first-order form: the sets it speaks   *)
(* of are ordinary values, which the provers can instantiate.              *)
(***************************************************************************)
EXTENDS Integers, TLAPS, WellFoundedInduction

(* A set of naturals has a least element.                                  *)
LEMMA LeastNat ==
  ASSUME NEW S \in SUBSET Nat, S # {}
  PROVE  \E n \in S : \A m \in S : n <= m
<1>1. PICK n \in S : \A m \in S : ~(<<m, n>> \in OpToRel(<, Nat))
  BY NatLessThanWellFounded, WFMin
<1>2. ASSUME NEW m \in S, m < n PROVE FALSE
  <2>1. <<m, n>> \in OpToRel(<, Nat)
    BY <1>2 DEF OpToRel
  <2> QED BY <1>1, <2>1
<1>3. \A m \in S : n <= m
  BY <1>2
<1> QED BY <1>3

(* A set that has 0, and n + 1 whenever it has n, has every natural.       *)
LEMMA Induct ==
  ASSUME NEW S, 0 \in S, \A n \in Nat : n \in S => n + 1 \in S
  PROVE  \A n \in Nat : n \in S
<1> DEFINE B == {n \in Nat : n \notin S}
<1> SUFFICES ASSUME B # {} PROVE FALSE
  OBVIOUS
<1>1. PICK n \in B : \A m \in B : n <= m
  BY LeastNat
<1>2. n # 0 /\ n - 1 \in Nat
  BY <1>1
<1>3. n - 1 \notin B
  BY <1>1, <1>2
<1> QED BY <1>1, <1>2, <1>3

(***************************************************************************)
(* Recursive functions.  The step is a function too, so that the provers   *)
(* can instantiate it.                                                     *)
(***************************************************************************)
IsRun(g, a, F, n) ==
  /\ DOMAIN g = 0..n /\ g[0] = a
  /\ \A i \in 1..n : g[i] = F[<<i, g[i - 1]>>]

(* There is a run of every length.                                         *)
LEMMA RunExists ==
  ASSUME NEW a, NEW F, NEW N \in Nat
  PROVE  \E g : IsRun(g, a, F, N)
<1> DEFINE P == {n \in Nat : \E g : IsRun(g, a, F, n)}
<1>1. 0 \in P
  <2>1. IsRun([i \in 0..0 |-> a], a, F, 0)
    BY DEF IsRun
  <2> QED BY <2>1
<1>2. ASSUME NEW n \in Nat, n \in P PROVE n + 1 \in P
  <2>1. PICK g : IsRun(g, a, F, n)
    BY <1>2
  <2> DEFINE h == [i \in 0..(n + 1) |-> IF i = n + 1 THEN F[<<n + 1, g[n]>>] ELSE g[i]]
  <2>2. \A i \in 1..(n + 1) : i - 1 \in 0..n /\ h[i - 1] = g[i - 1]
    OBVIOUS
  <2>3. \A i \in 1..n : h[i] = F[<<i, g[i - 1]>>]
    BY <2>1 DEF IsRun
  <2>4. h[n + 1] = F[<<n + 1, g[n]>>] /\ h[0] = g[0] /\ DOMAIN h = 0..(n + 1)
    OBVIOUS
  <2> HIDE DEF h
  <2>5. h[n + 1] = F[<<n + 1, h[n]>>]
    <3>1. n + 1 \in 1..(n + 1) /\ (n + 1) - 1 = n
      OBVIOUS
    <3>2. h[n] = g[n]
      BY <2>2, <3>1
    <3> QED BY <2>4, <3>2
  <2>6. \A i \in 1..(n + 1) : h[i] = F[<<i, h[i - 1]>>]
    BY <2>2, <2>3, <2>5
  <2>7. IsRun(h, a, F, n + 1)
    BY <2>1, <2>4, <2>6 DEF IsRun
  <2> QED BY <2>7
<1> HIDE DEF P
<1>3. N \in P
  BY <1>1, <1>2, Induct
<1> QED BY <1>3 DEF P

(* Two runs agree where both are defined.                                  *)
LEMMA RunUnique ==
  ASSUME NEW a, NEW F, NEW g, NEW h, NEW m \in Nat, NEW n \in Nat, m <= n,
         IsRun(g, a, F, m), IsRun(h, a, F, n)
  PROVE  \A i \in 0..m : g[i] = h[i]
<1> DEFINE P == {i \in Nat : i <= m => g[i] = h[i]}
<1>1. 0 \in P
  BY DEF IsRun
<1>2. ASSUME NEW i \in Nat, i \in P PROVE i + 1 \in P
  <2> SUFFICES ASSUME i + 1 <= m PROVE g[i + 1] = h[i + 1]
    OBVIOUS
  <2>1. g[i] = h[i]
    BY <1>2
  <2>2. i + 1 \in 1..m /\ i + 1 \in 1..n /\ (i + 1) - 1 = i
    OBVIOUS
  <2> QED BY <2>1, <2>2 DEF IsRun
<1>3. \A i \in Nat : i \in P
  <2> HIDE DEF P
  <2> QED BY <1>1, <1>2, Induct
<1> QED BY <1>3

IsRecursion(f, a, F) ==
  /\ f = [n \in Nat |-> f[n]]
  /\ f[0] = a /\ \A n \in Nat : f[n + 1] = F[<<n + 1, f[n]>>]

(* A recursive function on the naturals exists.                            *)
LEMMA RecursionExists ==
  ASSUME NEW a, NEW F
  PROVE  \E f : IsRecursion(f, a, F)
<1> DEFINE R(n) == CHOOSE g : IsRun(g, a, F, n)
           f == [n \in Nat |-> R(n)[n]]
<1>1. \A n \in Nat : IsRun(R(n), a, F, n)
  BY RunExists, Zenon
<1> HIDE DEF R
<1>2. f[0] = a
  BY <1>1 DEF IsRun
<1>3. ASSUME NEW n \in Nat PROVE f[n + 1] = F[<<n + 1, f[n]>>]
  <2>1. IsRun(R(n), a, F, n) /\ IsRun(R(n + 1), a, F, n + 1)
    BY <1>1
  <2>2. R(n)[n] = R(n + 1)[n]
    BY <2>1, RunUnique
  <2>3. n + 1 \in 1..(n + 1) /\ (n + 1) - 1 = n
    OBVIOUS
  <2>4. R(n + 1)[n + 1] = F[<<n + 1, R(n + 1)[n]>>]
    BY <2>1, <2>3 DEF IsRun
  <2> QED BY <2>2, <2>4
<1>4. f = [n \in Nat |-> f[n]]
  OBVIOUS
<1> HIDE DEF f
<1>5. IsRecursion(f, a, F)
  BY <1>2, <1>3, <1>4, Zenon DEF IsRecursion
<1> QED BY <1>5

(* Its values stay in a set that the step does not leave, and it has the   *)
(* form of a definition.                                                   *)
IsDefined(f, S, a, F) ==
  /\ \A n \in Nat : f[n] \in S
  /\ f = [n \in Nat |-> IF n = 0 THEN a ELSE F[<<n, f[n - 1]>>]]

LEMMA TypedRecursion ==
  ASSUME NEW S, NEW a \in S, NEW F,
         \A n \in Nat, s \in S : F[<<n + 1, s>>] \in S
  PROVE  \E f : IsDefined(f, S, a, F)
<1>1. PICK f : IsRecursion(f, a, F)
  BY RecursionExists
<1>2. /\ f = [n \in Nat |-> f[n]]
      /\ f[0] = a /\ \A n \in Nat : f[n + 1] = F[<<n + 1, f[n]>>]
  BY <1>1, Zenon DEF IsRecursion
<1> DEFINE P == {n \in Nat : f[n] \in S}
<1>3. \A n \in Nat : n \in P
  <2>1. 0 \in P
    BY <1>2
  <2>2. ASSUME NEW n \in Nat, n \in P PROVE n + 1 \in P
    <3>1. f[n] \in S
      BY <2>2
    <3>2. F[<<n + 1, f[n]>>] \in S
      BY <3>1
    <3>3. f[n + 1] \in S
      BY <1>2, <3>2
    <3> QED BY <3>3
  <2> HIDE DEF P
  <2> QED BY <2>1, <2>2, Induct
<1>4. \A n \in Nat : f[n] = IF n = 0 THEN a ELSE F[<<n, f[n - 1]>>]
  <2> SUFFICES ASSUME NEW n \in Nat, n # 0 PROVE f[n] = F[<<n, f[n - 1]>>]
    BY <1>2
  <2>1. n - 1 \in Nat /\ (n - 1) + 1 = n
    OBVIOUS
  <2>2. f[(n - 1) + 1] = F[<<(n - 1) + 1, f[n - 1]>>]
    BY <1>2, <2>1
  <2> QED BY <2>1, <2>2
<1>5. IsDefined(f, S, a, F)
  <2>1. f = [n \in Nat |-> IF n = 0 THEN a ELSE F[<<n, f[n - 1]>>]]
    BY <1>2, <1>4, Zenon
  <2> QED BY <1>3, <2>1, Zenon DEF IsDefined
<1> QED BY <1>5
=============================================================================
