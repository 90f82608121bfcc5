--------------------------- MODULE SysTimerProofs ---------------------------
(***************************************************************************)
(* Proof that the delta list of SYSTIMER implements TimerService, for every *)
(* number of timers and every period.                                      *)
(*                                                                         *)
(* What the recursive function Until computes is proved by induction over  *)
(* the list, as the absence of a least counterexample.                     *)
(***************************************************************************)
EXTENDS SysTimer, SequenceTheorems, WellFoundedInduction, TLAPS

-----------------------------------------------------------------------------
(* Induction.                                                              *)

\* A set of numbers that is not empty has a least element.
LEMMA LeastNumber ==
  ASSUME NEW T \in SUBSET Nat, T # {}
  PROVE  \E n \in T : \A m \in T : n <= m
<1> DEFINE R == OpToRel(<, Nat)
<1>1. IsWellFoundedOn(R, Nat)
  BY NatLessThanWellFounded
<1>2. \A x, y \in Nat : x < y => <<x, y>> \in R
  BY DEF OpToRel
<1> HIDE DEF R
<1>3. PICK x \in T : \A y \in T : ~ (<<y, x>> \in R)
  BY <1>1, WFMin
<1>4. \A y \in T : ~(y < x)
  BY <1>2, <1>3
<1> QED BY <1>4

\* A set that has m, and i + 1 whenever it has i, has every number from m to n.
LEMMA Upwards ==
  ASSUME NEW m \in Nat, NEW n \in Nat, NEW T, m \in T,
         \A i \in m..(n - 1) : i \in T => i + 1 \in T
  PROVE  \A i \in m..n : i \in T
<1> SUFFICES ASSUME (m..n) \ T # {} PROVE FALSE
  OBVIOUS
<1>1. PICK i \in (m..n) \ T : \A j \in (m..n) \ T : i <= j
  <2>1. (m..n) \ T \in SUBSET Nat
    OBVIOUS
  <2> QED BY <2>1, LeastNumber
<1>2. i # m /\ i - 1 \in m..(n - 1)
  BY <1>1
<1>3. i - 1 \in T
  BY <1>1, <1>2
<1> QED BY <1>1, <1>2, <1>3

-----------------------------------------------------------------------------
(* Sums of counts.                                                         *)

\* f has the sums of the first counts of list l.
Sum(l, c, f, n) == f = [k \in 0..n |-> IF k = 0 THEN 0 ELSE f[k - 1] + c[l[k]]]

\* The recursive function of Until exists.
LEMMA SumExists ==
  ASSUME NEW l, NEW c, NEW n \in Nat
  PROVE  \E f : Sum(l, c, f, n)
<1> DEFINE T == {i \in 0..n : \E f : Sum(l, c, f, i)}
<1>1. 0 \in T
  <2> DEFINE f == [k \in 0..0 |-> 0]
  <2>1. Sum(l, c, f, 0)
    BY DEF Sum
  <2> QED BY <2>1
<1>2. ASSUME NEW i \in 0..(n - 1), i \in T PROVE i + 1 \in T
  <2>1. PICK f : Sum(l, c, f, i)
    BY <1>2
  <2> DEFINE g == [k \in 0..(i + 1) |-> IF k = i + 1 THEN f[i] + c[l[k]] ELSE f[k]]
  <2>2. f = [k \in 0..i |-> IF k = 0 THEN 0 ELSE f[k - 1] + c[l[k]]]
    BY <2>1 DEF Sum
  <2>3. \A k \in 0..i : f[k] = IF k = 0 THEN 0 ELSE f[k - 1] + c[l[k]]
    BY <2>2
  <2>4. g[i + 1] = f[i] + c[l[i + 1]] /\ \A k \in 0..i : g[k] = f[k]
    OBVIOUS
  <2>5. \A k \in 0..(i + 1) : g[k] = IF k = 0 THEN 0 ELSE g[k - 1] + c[l[k]]
    <3> HIDE DEF g
    <3>1. ASSUME NEW k \in 0..i PROVE g[k] = IF k = 0 THEN 0 ELSE g[k - 1] + c[l[k]]
      <4>1. k # 0 => k - 1 \in 0..i
        OBVIOUS
      <4> QED BY <2>3, <2>4, <4>1
    <3>2. g[i + 1] = g[i] + c[l[i + 1]] /\ (i + 1) - 1 = i
      BY <2>4
    <3> QED BY <3>1, <3>2
  <2>6. Sum(l, c, g, i + 1)
    <3>1. g = [k \in 0..(i + 1) |-> g[k]]
      OBVIOUS
    <3> HIDE DEF g
    <3> QED BY <2>5, <3>1 DEF Sum
  <2> QED BY <2>6
<1>3. \A i \in 0..n : i \in T
  <2> HIDE DEF T
  <2> QED BY <1>1, <1>2, Upwards
<1> QED BY <1>3

\* Each timer expires its count after the timer before it.
LEMMA UntilEquations ==
  ASSUME NEW l \in Seq(Timer), NEW c
  PROVE  /\ Until(l, c, 0) = 0
         /\ \A i \in 1..Len(l) : Until(l, c, i) = Until(l, c, i - 1) + c[l[i]]
<1> DEFINE s == CHOOSE f : f = [k \in 0..Len(l) |-> IF k = 0 THEN 0 ELSE f[k - 1] + c[l[k]]]
<1>1. Len(l) \in Nat
  OBVIOUS
<1>2. \E f : f = [k \in 0..Len(l) |-> IF k = 0 THEN 0 ELSE f[k - 1] + c[l[k]]]
  BY <1>1, SumExists DEF Sum
<1>3. s = [k \in 0..Len(l) |-> IF k = 0 THEN 0 ELSE s[k - 1] + c[l[k]]]
  BY <1>2
<1>4. \A i : Until(l, c, i) = s[i]
  BY DEF Until
<1> HIDE DEF s
<1>5. s[0] = 0 /\ \A i \in 1..Len(l) : s[i] = s[i - 1] + c[l[i]]
  BY <1>1, <1>3
<1> QED BY <1>4, <1>5

\* The sums are natural numbers, and none is less than the first.
LEMMA UntilNatural ==
  ASSUME NEW l \in Seq(Timer), NEW c \in [Timer -> Nat]
  PROVE  /\ \A i \in 0..Len(l) : Until(l, c, i) \in Nat
         /\ l # <<>> => Until(l, c, 1) = c[l[1]]
         /\ \A i \in 1..Len(l) : c[l[1]] <= Until(l, c, i)
<1>1. Len(l) \in Nat /\ \A i \in 1..Len(l) : c[l[i]] \in Nat
  OBVIOUS
<1>2. /\ Until(l, c, 0) = 0
      /\ \A i \in 1..Len(l) : Until(l, c, i) = Until(l, c, i - 1) + c[l[i]]
  BY UntilEquations
<1> DEFINE N == Len(l)
           U(i) == Until(l, c, i)
           d(i) == c[l[i]]
<1>3. /\ N \in Nat /\ U(0) = 0 /\ \A i \in 1..N : d(i) \in Nat
      /\ \A i \in 1..N : U(i) = U(i - 1) + d(i)
  BY <1>1, <1>2
<1>4. l # <<>> => 1 \in 1..N
  OBVIOUS
<1> HIDE DEF N, U, d
<1>5. \A i \in 0..N : U(i) \in Nat
  <2> DEFINE T == {i \in 0..N : U(i) \in Nat}
  <2>1. 0 \in T
    BY <1>3
  <2>2. ASSUME NEW i \in 0..(N - 1), i \in T PROVE i + 1 \in T
    <3>1. i + 1 \in 1..N /\ (i + 1) - 1 = i
      BY <1>3
    <3>2. U(i + 1) = U(i) + d(i + 1) /\ d(i + 1) \in Nat /\ U(i) \in Nat
      BY <1>3, <2>2, <3>1
    <3> QED BY <3>1, <3>2
  <2>3. \A i \in 0..N : i \in T
    <3> HIDE DEF T
    <3> QED BY <1>3, <2>1, <2>2, Upwards
  <2> QED BY <2>3
<1>6. 1 \in 1..N => U(1) = d(1)
  BY <1>3
<1>7. ASSUME 1 \in 1..N PROVE \A i \in 1..N : d(1) <= U(i)
  <2> DEFINE T == {i \in 1..N : d(1) <= U(i)}
  <2>1. 1 \in T
    BY <1>3, <1>6, <1>7
  <2>2. ASSUME NEW i \in 1..(N - 1), i \in T PROVE i + 1 \in T
    <3>1. i + 1 \in 1..N /\ (i + 1) - 1 = i /\ i \in 0..N
      BY <1>3
    <3>2. U(i + 1) = U(i) + d(i + 1) /\ d(i + 1) \in Nat /\ U(i) \in Nat /\ d(1) \in Nat
      BY <1>3, <1>5, <1>7, <3>1
    <3> QED BY <2>2, <3>1, <3>2
  <2>3. \A i \in 1..N : i \in T
    <3> HIDE DEF T
    <3> QED BY <1>3, <2>1, <2>2, Upwards
  <2> QED BY <2>3
<1>8. \A i \in 1..N : 1 \in 1..N
  BY <1>3
<1>9. \A i \in 1..N : d(1) <= U(i)
  BY <1>7, <1>8
<1> QED BY <1>4, <1>5, <1>6, <1>9 DEF N, U, d

\* The places m to n of list l stand in list k, s places further on, with the
\* same counts except perhaps for the first, whose sums are the same.
Shifted(l, c, k, e, m, n, s) ==
  /\ \A i \in m..n : i \in 0..Len(l) /\ i + s \in 0..Len(k)
  /\ Until(k, e, m + s) = Until(l, c, m)
  /\ \A i \in (m + 1)..n : e[k[i + s]] = c[l[i]]

\* Then all their sums are the same.
LEMMA UntilShifted ==
  ASSUME NEW l \in Seq(Timer), NEW c, NEW k \in Seq(Timer), NEW e,
         NEW m \in Nat, NEW n \in Nat, NEW s \in Int, Shifted(l, c, k, e, m, n, s)
  PROVE  \A i \in m..n : Until(k, e, i + s) = Until(l, c, i)
<1> USE DEF Shifted
<1> DEFINE T == {i \in m..n : Until(k, e, i + s) = Until(l, c, i)}
<1>1. CASE m <= n
  <2>1. m \in T
    BY <1>1
  <2>2. ASSUME NEW i \in m..(n - 1), i \in T PROVE i + 1 \in T
    <3>0. i + 1 \in m..n /\ i \in m..n /\ i + 1 \in (m + 1)..n /\ i \in Nat
      OBVIOUS
    <3>1. i + 1 \in 1..Len(l) /\ i + 1 - 1 = i
      <4>1. i + 1 \in 0..Len(l)
        BY <3>0
      <4> QED BY <3>0, <4>1
    <3>2. i + 1 + s \in 1..Len(k) /\ i + 1 + s - 1 = i + s
      <4>1. i + 1 + s \in 0..Len(k) /\ i + s \in 0..Len(k)
        BY <3>0
      <4> QED BY <3>0, <4>1
    <3>3. Until(l, c, i + 1) = Until(l, c, i) + c[l[i + 1]]
      BY <3>1, UntilEquations
    <3>4. Until(k, e, i + 1 + s) = Until(k, e, i + s) + e[k[i + 1 + s]]
      BY <3>2, UntilEquations
    <3>5. e[k[i + 1 + s]] = c[l[i + 1]]
      BY <3>0
    <3> QED BY <2>2, <3>0, <3>3, <3>4, <3>5
  <2>3. \A i \in m..n : i \in T
    <3> HIDE DEF T
    <3> QED BY <2>1, <2>2, Upwards
  <2> QED BY <2>3
<1>2. CASE n < m
  BY <1>2
<1> QED BY <1>1, <1>2

\* The same places.
LEMMA UntilUnshifted ==
  ASSUME NEW l \in Seq(Timer), NEW c, NEW r \in Seq(Timer), NEW e,
         NEW b \in Nat, Shifted(l, c, r, e, 0, b, 0)
  PROVE  \A i \in 0..b : Until(r, e, i) = Until(l, c, i)
<1>1. PICK a \in Nat : a = 0
  OBVIOUS
<1>2. Shifted(l, c, r, e, a, b, a) /\ a \in Int
  BY <1>1
<1>3. \A i \in a..b : Until(r, e, i + a) = Until(l, c, i)
  BY <1>2, UntilShifted
<1> QED BY <1>1, <1>3

\* One place further on.
LEMMA UntilShiftedOn ==
  ASSUME NEW l \in Seq(Timer), NEW c, NEW r \in Seq(Timer), NEW e, NEW a \in Nat,
         NEW b \in Nat, Shifted(l, c, r, e, a, b, 1)
  PROVE  \A i \in a..b : Until(r, e, i + 1) = Until(l, c, i)
<1>1. PICK x \in Int : x = 1
  OBVIOUS
<1>2. Shifted(l, c, r, e, a, b, x)
  BY <1>1
<1>3. \A i \in a..b : Until(r, e, i + x) = Until(l, c, i)
  BY <1>2, UntilShifted
<1> QED BY <1>1, <1>3

\* One place further back.
LEMMA UntilShiftedBack ==
  ASSUME NEW l \in Seq(Timer), NEW c, NEW r \in Seq(Timer), NEW e, NEW a \in Nat,
         NEW b \in Nat, Shifted(l, c, r, e, a, b, -1)
  PROVE  \A i \in a..b : Until(r, e, i - 1) = Until(l, c, i)
<1>1. PICK x \in Int : x = -1
  OBVIOUS
<1>2. Shifted(l, c, r, e, a, b, x)
  BY <1>1
<1>3. \A i \in a..b : Until(r, e, i + x) = Until(l, c, i)
  BY <1>2, UntilShifted
<1>4. \A i \in a..b : i + x = i - 1
  BY <1>1
<1> QED BY <1>4, <1>3

-----------------------------------------------------------------------------
(* Lists.                                                                  *)

\* Where the elements are after an insertion.
LEMMA InsertAtElements ==
  ASSUME NEW l \in Seq(Timer), NEW k \in 1..(Len(l) + 1), NEW t \in Timer
  PROVE  /\ InsertAt(l, k, t) \in Seq(Timer)
         /\ Len(InsertAt(l, k, t)) = Len(l) + 1
         /\ \A i \in 1..(k - 1) : InsertAt(l, k, t)[i] = l[i]
         /\ InsertAt(l, k, t)[k] = t
         /\ \A i \in k..Len(l) : InsertAt(l, k, t)[i + 1] = l[i]
<1> DEFINE A == SubSeq(l, 1, k - 1)
           B == <<t>>
           C == SubSeq(l, k, Len(l))
           D == A \o B
<1>0. Len(l) \in Nat /\ k \in Int /\ k - 1 \in Int /\ \A i \in 1..Len(l) : l[i] \in Timer
  OBVIOUS
<1>1. A \in Seq(Timer) /\ Len(A) = k - 1 /\ \A i \in 1..(k - 1) : A[i] = l[i]
  <2>1. \A i \in 1..(k - 1) : l[i] \in Timer
    BY <1>0
  <2>2. /\ A \in Seq(Timer) /\ Len(A) = IF 1 <= k - 1 THEN (k - 1) - 1 + 1 ELSE 0
        /\ \A i \in 1..((k - 1) - 1 + 1) : A[i] = l[1 + i - 1]
    BY <1>0, <2>1, SubSeqProperties
  <2> HIDE DEF A
  <2>3. Len(A) = k - 1
    BY <1>0, <2>2
  <2>4. \A i \in 1..(k - 1) : A[i] = l[i]
    BY <1>0, <2>2
  <2> QED BY <2>2, <2>3, <2>4
<1>2. C \in Seq(Timer) /\ Len(C) = Len(l) - k + 1 /\ \A i \in 1..(Len(l) - k + 1) : C[i] = l[k + i - 1]
  <2>1. \A i \in k..Len(l) : l[i] \in Timer
    BY <1>0
  <2>2. /\ C \in Seq(Timer) /\ Len(C) = IF k <= Len(l) THEN Len(l) - k + 1 ELSE 0
        /\ \A i \in 1..(Len(l) - k + 1) : C[i] = l[k + i - 1]
    BY <1>0, <2>1, SubSeqProperties
  <2> HIDE DEF C
  <2>3. Len(C) = Len(l) - k + 1
    BY <1>0, <2>2
  <2> QED BY <2>2, <2>3
<1>3. B \in Seq(Timer) /\ Len(B) = 1 /\ B[1] = t
  OBVIOUS
<1>4. InsertAt(l, k, t) = D \o C
  BY DEF InsertAt
<1> HIDE DEF A, B, C
<1>5. /\ D \in Seq(Timer) /\ Len(D) = Len(A) + Len(B)
      /\ \A i \in 1..(Len(A) + Len(B)) : D[i] = IF i <= Len(A) THEN A[i] ELSE B[i - Len(A)]
  BY <1>1, <1>3, ConcatProperties
<1> HIDE DEF D
<1>6. /\ D \o C \in Seq(Timer) /\ Len(D \o C) = Len(D) + Len(C)
      /\ \A i \in 1..(Len(D) + Len(C)) : (D \o C)[i] = IF i <= Len(D) THEN D[i] ELSE C[i - Len(D)]
  <2>1. D \in Seq(Timer) /\ C \in Seq(Timer)
    BY <1>2, <1>5
  <2> QED BY <2>1, ConcatProperties
<1>7. Len(D) = k /\ D[k] = t /\ \A i \in 1..(k - 1) : D[i] = l[i]
  <2>1. Len(A) = k - 1 /\ Len(B) = 1 /\ B[1] = t
    BY <1>1, <1>3
  <2>2. Len(D) = k /\ \A i \in 1..k : D[i] = IF i <= k - 1 THEN A[i] ELSE B[i - (k - 1)]
    BY <1>0, <1>5, <2>1
  <2>3. D[k] = t
    BY <1>0, <2>1, <2>2
  <2>4. \A i \in 1..(k - 1) : D[i] = l[i]
    BY <1>0, <1>1, <2>2
  <2> QED BY <2>2, <2>3, <2>4
<1> DEFINE R == D \o C
<1>8. Len(R) = Len(l) + 1
  BY <1>0, <1>2, <1>6, <1>7
<1>9. \A i \in 1..(Len(l) + 1) : R[i] = IF i <= k THEN D[i] ELSE C[i - k]
  BY <1>0, <1>2, <1>6, <1>7
<1>10. R \in Seq(Timer)
  BY <1>6
<1> HIDE DEF R
<1>11. \A i \in 1..(k - 1) : R[i] = l[i]
  BY <1>0, <1>7, <1>9
<1>12. R[k] = t
  BY <1>0, <1>7, <1>9
<1>13. ASSUME NEW i \in k..Len(l) PROVE R[i + 1] = l[i]
  <2>1. i + 1 \in 1..(Len(l) + 1) /\ ~(i + 1 <= k) /\ i + 1 - k \in 1..(Len(l) - k + 1)
        /\ k + (i + 1 - k) - 1 = i
    BY <1>0
  <2>2. R[i + 1] = C[i + 1 - k]
    BY <1>9, <2>1
  <2> QED BY <1>2, <2>1, <2>2
<1> QED BY <1>4, <1>8, <1>10, <1>11, <1>12, <1>13 DEF R

\* Where they are after a removal.
LEMMA RemoveAtElements ==
  ASSUME NEW l \in Seq(Timer), NEW k \in 1..Len(l)
  PROVE  /\ RemoveAt(l, k) \in Seq(Timer)
         /\ Len(RemoveAt(l, k)) = Len(l) - 1
         /\ \A i \in 1..(k - 1) : RemoveAt(l, k)[i] = l[i]
         /\ \A i \in (k + 1)..Len(l) : RemoveAt(l, k)[i - 1] = l[i]
<1> DEFINE A == SubSeq(l, 1, k - 1)
           C == SubSeq(l, k + 1, Len(l))
           R == A \o C
<1>0. Len(l) \in Nat /\ k \in Int /\ k - 1 \in Int /\ k + 1 \in Int /\ \A i \in 1..Len(l) : l[i] \in Timer
  OBVIOUS
<1>1. A \in Seq(Timer) /\ Len(A) = k - 1 /\ \A i \in 1..(k - 1) : A[i] = l[i]
  <2>1. \A i \in 1..(k - 1) : l[i] \in Timer
    BY <1>0
  <2>2. /\ A \in Seq(Timer) /\ Len(A) = IF 1 <= k - 1 THEN (k - 1) - 1 + 1 ELSE 0
        /\ \A i \in 1..((k - 1) - 1 + 1) : A[i] = l[1 + i - 1]
    BY <1>0, <2>1, SubSeqProperties
  <2> HIDE DEF A
  <2>3. Len(A) = k - 1
    BY <1>0, <2>2
  <2>4. \A i \in 1..(k - 1) : A[i] = l[i]
    BY <1>0, <2>2
  <2> QED BY <2>2, <2>3, <2>4
<1>2. C \in Seq(Timer) /\ Len(C) = Len(l) - k /\ \A i \in 1..(Len(l) - k) : C[i] = l[k + i]
  <2>1. \A i \in (k + 1)..Len(l) : l[i] \in Timer
    BY <1>0
  <2>2. /\ C \in Seq(Timer) /\ Len(C) = IF k + 1 <= Len(l) THEN Len(l) - (k + 1) + 1 ELSE 0
        /\ \A i \in 1..(Len(l) - (k + 1) + 1) : C[i] = l[(k + 1) + i - 1]
    BY <1>0, <2>1, SubSeqProperties
  <2> HIDE DEF C
  <2>3. Len(C) = Len(l) - k
    BY <1>0, <2>2
  <2>4. \A i \in 1..(Len(l) - k) : C[i] = l[k + i]
    <3> SUFFICES ASSUME NEW i \in 1..(Len(l) - k) PROVE C[i] = l[k + i]
      OBVIOUS
    <3>1. i \in 1..(Len(l) - (k + 1) + 1) /\ (k + 1) + i - 1 = k + i
      BY <1>0
    <3> QED BY <2>2, <3>1
  <2> QED BY <2>2, <2>3, <2>4
<1>4. RemoveAt(l, k) = R
  BY DEF RemoveAt
<1> HIDE DEF A, C
<1>5. /\ R \in Seq(Timer) /\ Len(R) = Len(A) + Len(C)
      /\ \A i \in 1..(Len(A) + Len(C)) : R[i] = IF i <= Len(A) THEN A[i] ELSE C[i - Len(A)]
  BY <1>1, <1>2, ConcatProperties
<1> HIDE DEF R
<1>6. Len(R) = Len(l) - 1
  BY <1>0, <1>1, <1>2, <1>5
<1>7. \A i \in 1..(Len(l) - 1) : R[i] = IF i <= k - 1 THEN A[i] ELSE C[i - (k - 1)]
  BY <1>0, <1>1, <1>2, <1>5
<1>8. \A i \in 1..(k - 1) : R[i] = l[i]
  BY <1>0, <1>1, <1>7
<1>9. ASSUME NEW i \in (k + 1)..Len(l) PROVE R[i - 1] = l[i]
  <2>1. /\ i - 1 \in 1..(Len(l) - 1) /\ ~(i - 1 <= k - 1) /\ i - 1 - (k - 1) \in 1..(Len(l) - k)
        /\ k + (i - 1 - (k - 1)) = i
    BY <1>0
  <2>2. R[i - 1] = C[i - 1 - (k - 1)]
    BY <1>7, <2>1
  <2> QED BY <1>2, <2>1, <2>2
<1> QED BY <1>4, <1>5, <1>6, <1>8, <1>9

\* List l has the timers of set S, each once.
Lists(l, S) ==
  /\ l \in Seq(Timer)
  /\ \A i, j \in 1..Len(l) : l[i] = l[j] => i = j
  /\ \A t \in Timer : t \in S <=> \E i \in 1..Len(l) : l[i] = t

\* F gives the ticks until each timer of list l expires.
Measured(l, c, F) == \A i \in 1..Len(l) : F[l[i]] = Until(l, c, i)

\* A timer is inserted at place k.
LEMMA InsertAtLists ==
  ASSUME NEW S, NEW l, Lists(l, S), NEW k \in 1..(Len(l) + 1), NEW t \in Timer, t \notin S
  PROVE  Lists(InsertAt(l, k, t), S \cup {t})
<1>1. l \in Seq(Timer) /\ Len(l) \in Nat /\ \A i \in 1..Len(l) : l[i] # t /\ l[i] \in Timer
  BY DEF Lists
<1> DEFINE r == InsertAt(l, k, t)
           N == Len(l)
<1>2. /\ r \in Seq(Timer) /\ Len(r) = N + 1
      /\ \A i \in 1..(k - 1) : r[i] = l[i]
      /\ r[k] = t
      /\ \A i \in k..N : r[i + 1] = l[i]
  BY <1>1, InsertAtElements
<1>3. /\ N \in Nat /\ k \in 1..(N + 1) /\ \A i, j \in 1..N : l[i] = l[j] => i = j
      /\ \A u \in Timer : u \in S <=> \E i \in 1..N : l[i] = u
      /\ \A i \in 1..N : l[i] # t /\ l[i] \in Timer
  BY <1>1 DEF Lists
<1>4. r \in Seq(Timer)
  BY <1>2
<1>5. Len(r) = N + 1
  BY <1>2
<1>6. \A i \in 1..(N + 1) : r[i] = IF i < k THEN l[i] ELSE IF i = k THEN t ELSE l[i - 1]
  <2> SUFFICES ASSUME NEW i \in 1..(N + 1)
               PROVE  r[i] = IF i < k THEN l[i] ELSE IF i = k THEN t ELSE l[i - 1]
    OBVIOUS
  <2> HIDE DEF r, N
  <2>1. CASE i < k
    BY <1>2, <1>3, <2>1
  <2>2. CASE i = k
    BY <1>2, <2>2
  <2>3. CASE i > k
    <3>1. i - 1 \in k..N /\ (i - 1) + 1 = i
      BY <1>3, <2>3
    <3>2. r[(i - 1) + 1] = l[i - 1]
      BY <1>2, <3>1
    <3> QED BY <1>3, <2>3, <3>1, <3>2
  <2> QED BY <1>3, <2>1, <2>2, <2>3
<1> HIDE DEF r, N
<1>7. ASSUME NEW i \in 1..(N + 1), NEW j \in 1..(N + 1), r[i] = r[j] PROVE i = j
  <2> DEFINE o(x) == IF x < k THEN x ELSE x - 1
  <2>1. ASSUME NEW x \in 1..(N + 1), x # k PROVE o(x) \in 1..N
    BY <1>3, <2>1
  <2>2. ASSUME NEW x \in 1..(N + 1), x # k PROVE r[x] = l[o(x)]
    BY <1>3, <1>6, <2>2
  <2>3. ASSUME NEW x \in 1..(N + 1), x # k PROVE r[x] # t
    BY <1>3, <2>1, <2>2, <2>3
  <2>4. r[k] = t
    BY <1>2
  <2>5. ASSUME o(i) = o(j), i # k, j # k PROVE i = j
    BY <1>3, <2>5
  <2> HIDE DEF o
  <2>6. CASE i = k \/ j = k
    BY <1>7, <2>3, <2>4, <2>6
  <2>7. CASE i # k /\ j # k
    <3>1. l[o(i)] = l[o(j)] /\ o(i) \in 1..N /\ o(j) \in 1..N
      BY <1>7, <2>1, <2>2, <2>7
    <3> QED BY <1>3, <2>5, <2>7, <3>1
  <2> QED BY <2>6, <2>7
<1>8. ASSUME NEW u \in Timer PROVE u \in S \cup {t} <=> \E i \in 1..(N + 1) : r[i] = u
  <2>1. CASE u = t
    BY <1>2, <1>3, <2>1
  <2>2. CASE u \in S /\ u # t
    <3>1. PICK i \in 1..N : l[i] = u
      BY <1>3, <2>2
    <3>2. CASE i < k
      BY <1>3, <1>6, <3>1, <3>2
    <3>3. CASE ~(i < k)
      <4>1. i + 1 \in 1..(N + 1) /\ ~(i + 1 < k) /\ i + 1 # k /\ i + 1 - 1 = i
        BY <1>3, <3>3
      <4>2. r[i + 1] = u
        BY <1>6, <3>1, <4>1
      <4> QED BY <2>2, <4>1, <4>2
    <3> QED BY <3>2, <3>3
  <2>3. CASE u \notin S /\ u # t
    <3> SUFFICES ASSUME NEW i \in 1..(N + 1), r[i] = u PROVE FALSE
      BY <2>3
    <3>1. (i < k => i \in 1..N) /\ (i > k => i - 1 \in 1..N) /\ (i < k \/ i = k \/ i > k)
      BY <1>3
    <3> QED BY <1>3, <1>6, <2>3, <3>1
  <2> QED BY <2>1, <2>2, <2>3
<1>9. \A i, j \in 1..Len(r) : r[i] = r[j] => i = j
  BY <1>5, <1>7
<1>10. \A u \in Timer : u \in S \cup {t} <=> \E i \in 1..Len(r) : r[i] = u
  BY <1>5, <1>8
<1>11. Lists(r, S \cup {t})
  BY <1>4, <1>9, <1>10 DEF Lists
<1> QED BY <1>11 DEF r

\* The timer at place k is removed.
LEMMA RemoveAtLists ==
  ASSUME NEW S, NEW l, Lists(l, S), NEW k \in 1..Len(l)
  PROVE  Lists(RemoveAt(l, k), S \ {l[k]})
<1> DEFINE r == RemoveAt(l, k)
           N == Len(l)
<1>1. l \in Seq(Timer)
  BY DEF Lists
<1>2. /\ r \in Seq(Timer) /\ Len(r) = N - 1
      /\ \A i \in 1..(k - 1) : r[i] = l[i]
      /\ \A i \in (k + 1)..N : r[i - 1] = l[i]
  BY <1>1, RemoveAtElements
<1>3. /\ N \in Nat /\ k \in 1..N /\ \A i, j \in 1..N : l[i] = l[j] => i = j
      /\ \A u \in Timer : u \in S <=> \E i \in 1..N : l[i] = u
      /\ \A i \in 1..N : l[i] \in Timer
  BY <1>1 DEF Lists
<1>4. r \in Seq(Timer)
  BY <1>2
<1>5. Len(r) = N - 1
  BY <1>2
<1> HIDE DEF r, N
<1>6. \A i \in 1..(N - 1) : r[i] = IF i < k THEN l[i] ELSE l[i + 1]
  <2> SUFFICES ASSUME NEW i \in 1..(N - 1) PROVE r[i] = IF i < k THEN l[i] ELSE l[i + 1]
    OBVIOUS
  <2>1. CASE i < k
    BY <1>2, <1>3, <2>1
  <2>2. CASE ~(i < k)
    <3>1. i + 1 \in (k + 1)..N /\ (i + 1) - 1 = i
      BY <1>3, <2>2
    <3>2. r[(i + 1) - 1] = l[i + 1]
      BY <1>2, <3>1
    <3> QED BY <2>2, <3>1, <3>2
  <2> QED BY <2>1, <2>2
<1>7. ASSUME NEW i \in 1..(N - 1), NEW j \in 1..(N - 1), r[i] = r[j] PROVE i = j
  <2> DEFINE o(x) == IF x < k THEN x ELSE x + 1
  <2>1. o(i) \in 1..N /\ o(j) \in 1..N
    BY <1>3
  <2>2. r[i] = l[o(i)] /\ r[j] = l[o(j)]
    BY <1>6
  <2>3. o(i) = o(j) => i = j
    BY <1>3
  <2> HIDE DEF o
  <2> QED BY <1>3, <1>7, <2>1, <2>2, <2>3
<1>8. ASSUME NEW u \in Timer PROVE u \in S \ {l[k]} <=> \E i \in 1..(N - 1) : r[i] = u
  <2>1. ASSUME u \in S \ {l[k]} PROVE \E i \in 1..(N - 1) : r[i] = u
    <3>1. PICK i \in 1..N : l[i] = u
      BY <1>3, <2>1
    <3>2. i # k
      BY <2>1, <3>1
    <3>3. CASE i < k
      <4>1. i \in 1..(N - 1)
        BY <1>3, <3>3
      <4> QED BY <1>6, <3>1, <3>3, <4>1
    <3>4. CASE i > k
      <4>1. i - 1 \in 1..(N - 1) /\ ~(i - 1 < k) /\ (i - 1) + 1 = i
        BY <1>3, <3>4
      <4>2. r[i - 1] = l[i]
        BY <1>6, <4>1
      <4> QED BY <3>1, <4>1, <4>2
    <3> QED BY <1>3, <3>2, <3>3, <3>4
  <2>2. ASSUME NEW i \in 1..(N - 1), r[i] = u PROVE u \in S \ {l[k]}
    <3>1. i \in 1..N /\ i + 1 \in 1..N
      BY <1>3
    <3>2. CASE i < k
      <4>1. l[i] = u /\ i # k
        BY <1>3, <1>6, <2>2, <3>2
      <4> QED BY <1>3, <3>1, <4>1
    <3>3. CASE ~(i < k)
      <4>1. l[i + 1] = u /\ i + 1 # k
        BY <1>3, <1>6, <2>2, <3>3
      <4> QED BY <1>3, <3>1, <4>1
    <3> QED BY <3>2, <3>3
  <2> QED BY <2>1, <2>2
<1>9. \A i, j \in 1..Len(r) : r[i] = r[j] => i = j
  BY <1>5, <1>7
<1>10. \A u \in Timer : u \in S \ {l[k]} <=> \E i \in 1..Len(r) : r[i] = u
  BY <1>5, <1>8
<1>11. Lists(r, S \ {l[k]})
  BY <1>4, <1>9, <1>10 DEF Lists
<1> QED BY <1>11 DEF r

-----------------------------------------------------------------------------
(* SYSTIMER_lInsertTimerList and SYSTIMER_lRemoveTimerList.                *)

\* G is F except that t is to expire after n ticks.
Except(F, G, t, n, S) == G[t] = n /\ \A u \in S : G[u] = F[u]

\* An inserted timer expires after the ticks asked for, and the others when
\* they would have.
LEMMA InsertedMeasured ==
  ASSUME NEW S, NEW l, Lists(l, S), NEW c \in [Timer -> Nat], NEW F, Measured(l, c, F),
         NEW t \in Timer, t \notin S, NEW n \in Nat,
         NEW G, Except(F, G, t, n, S)
  PROVE  /\ Lists(Inserted(t, n, l, c).list, S \cup {t})
         /\ Inserted(t, n, l, c).count \in [Timer -> Nat]
         /\ Measured(Inserted(t, n, l, c).list, Inserted(t, n, l, c).count, G)
<1> DEFINE N == Len(l)
           U(i) == Until(l, c, i)
           after == {i \in 1..Len(l) : Until(l, c, i) >= n}
           k == IF after = {} THEN Len(l) + 1 ELSE CHOOSE i \in after : \A j \in after : i <= j
           mine == n - Until(l, c, k - 1)
           e == [u \in Timer |-> IF u = t THEN mine
                                 ELSE IF k <= Len(l) /\ u = l[k] THEN c[u] - mine
                                 ELSE c[u]]
           r == InsertAt(l, k, t)
<1>0. Inserted(t, n, l, c).list = r /\ Inserted(t, n, l, c).count = e
  BY DEF Inserted
<1>1. /\ l \in Seq(Timer) /\ N \in Nat
      /\ \A i \in 1..N : l[i] \in Timer /\ l[i] \in S /\ l[i] # t
      /\ \A i, j \in 1..N : l[i] = l[j] => i = j
  BY DEF Lists
<1>2. U(0) = 0 /\ \A i \in 1..N : U(i) = U(i - 1) + c[l[i]]
  BY <1>1, UntilEquations
<1>3. \A i \in 0..N : U(i) \in Nat
  BY <1>1, UntilNatural
<1>4. k \in 1..(N + 1) /\ (k <= N => U(k) >= n) /\ \A i \in 1..(k - 1) : i \in 1..N /\ U(i) < n
  <2>1. CASE after = {}
    <3>1. k = N + 1
      BY <2>1
    <3>2. \A i \in 1..N : ~(U(i) >= n) /\ U(i) \in Nat
      <4>1. \A i \in 1..N : ~(Until(l, c, i) >= n)
        BY <2>1
      <4>2. \A i \in 1..N : i \in 0..N
        BY <1>1
      <4> QED BY <1>3, <4>1, <4>2
    <3> HIDE DEF k, U, N
    <3>3. \A i \in 1..N : U(i) < n
      BY <3>2
    <3> QED BY <1>1, <3>1, <3>3
  <2>2. CASE after # {}
    <3>1. after \in SUBSET Nat
      OBVIOUS
    <3>2. \E i \in after : \A j \in after : i <= j
      BY <2>2, <3>1, LeastNumber
    <3>3. k \in after /\ \A j \in after : k <= j
      BY <2>2, <3>2
    <3> HIDE DEF k
    <3>4. k \in 1..N /\ U(k) >= n
      BY <3>3
    <3>5. \A i \in 1..(k - 1) : i \in 1..N /\ i \notin after
      BY <1>1, <3>3, <3>4
    <3>6. \A i \in 1..(k - 1) : ~(U(i) >= n)
      BY <3>5
    <3> QED BY <1>1, <1>3, <3>4, <3>5, <3>6
  <2> QED BY <2>1, <2>2
<1> HIDE DEF after, k
<1>5. k - 1 \in 0..N /\ U(k - 1) \in Nat /\ U(k - 1) <= n
  <2>1. k - 1 \in 0..N
    BY <1>1, <1>4
  <2>2. CASE k = 1
    BY <1>2, <2>1, <2>2
  <2>3. CASE k # 1
    <3>1. k - 1 \in 1..(k - 1)
      BY <1>1, <1>4, <2>3
    <3>2. U(k - 1) < n
      BY <1>4, <3>1
    <3> QED BY <1>3, <2>1, <3>2
  <2> QED BY <2>2, <2>3
<1>6. mine \in Nat /\ U(k - 1) + mine = n
  BY <1>5
<1>7. k <= N => c[l[k]] - mine \in Nat /\ n + (c[l[k]] - mine) = U(k) /\ k \in 1..N
  <2> SUFFICES ASSUME k <= N PROVE c[l[k]] - mine \in Nat /\ n + (c[l[k]] - mine) = U(k) /\ k \in 1..N
    OBVIOUS
  <2>1. k \in 1..N /\ U(k) \in Nat /\ U(k) >= n
    BY <1>1, <1>3, <1>4
  <2>2. U(k) = U(k - 1) + c[l[k]] /\ c[l[k]] \in Nat
    BY <1>1, <1>2, <2>1
  <2> HIDE DEF U, mine
  <2> QED BY <1>5, <1>6, <2>1, <2>2
<1> HIDE DEF mine
<1>8. e \in [Timer -> Nat]
  BY <1>6, <1>7
<1>9. /\ e[t] = mine
      /\ k <= N => e[l[k]] = c[l[k]] - mine
      /\ \A i \in 1..N : i # k => e[l[i]] = c[l[i]]
  <2>1. ASSUME NEW i \in 1..N, i # k PROVE e[l[i]] = c[l[i]]
    <3>1. l[i] # t /\ l[i] \in Timer /\ (k <= N => l[i] # l[k])
      BY <1>1, <1>7, <2>1
    <3> QED BY <3>1
  <2>2. k <= N => e[l[k]] = c[l[k]] - mine
    BY <1>1, <1>7
  <2> QED BY <2>1, <2>2
<1>10. /\ r \in Seq(Timer) /\ Len(r) = N + 1
       /\ \A i \in 1..(k - 1) : r[i] = l[i]
       /\ r[k] = t
       /\ \A i \in k..N : r[i + 1] = l[i]
  BY <1>1, <1>4, InsertAtElements
<1>11. Lists(r, S \cup {t})
  BY <1>4, InsertAtLists
<1> HIDE DEF e, r
<1>12. r \in Seq(Timer) /\ \A i \in 1..(N + 1) : Until(r, e, i) = Until(r, e, i - 1) + e[r[i]]
  <2>1. r \in Seq(Timer) /\ Len(r) = N + 1
    BY <1>10
  <2>2. \A i \in 1..Len(r) : Until(r, e, i) = Until(r, e, i - 1) + e[r[i]]
    BY <2>1, UntilEquations
  <2> QED BY <2>1, <2>2
<1>13. \A i \in 0..(k - 1) : Until(r, e, i) = U(i)
  <2>1. \A i \in 0..(k - 1) : i \in 0..Len(l) /\ i + 0 \in 0..Len(r)
    BY <1>1, <1>4, <1>10
  <2>2. Until(r, e, 0 + 0) = Until(l, c, 0)
    BY <1>2, <1>10, UntilEquations
  <2>3. ASSUME NEW i \in (0 + 1)..(k - 1) PROVE e[r[i + 0]] = c[l[i]]
    <3>1. i \in 1..(k - 1) /\ i \in 1..N /\ i # k /\ i + 0 = i
      BY <1>4
    <3> QED BY <1>9, <1>10, <3>1
  <2>4. k - 1 \in Nat /\ 0 \in Int /\ r \in Seq(Timer)
    BY <1>4, <1>10
  <2>5. \A i \in 0..(k - 1) : Until(r, e, i) = Until(l, c, i)
    <3>1. Shifted(l, c, r, e, 0, k - 1, 0)
      BY <2>1, <2>2, <2>3 DEF Shifted
    <3> QED BY <1>1, <2>4, <3>1, UntilUnshifted
  <2> QED BY <2>5
<1>14. Until(r, e, k) = n
  <2>1. k \in 1..(N + 1) /\ k - 1 \in 0..(k - 1)
    BY <1>4
  <2>2. Until(r, e, k) = Until(r, e, k - 1) + e[r[k]]
    BY <1>12, <2>1
  <2> QED BY <1>6, <1>9, <1>10, <1>13, <2>1, <2>2
<1>15. \A i \in k..N : Until(r, e, i + 1) = U(i)
  <2>1. CASE k <= N
    <3>1. k + 1 \in 1..(N + 1) /\ (k + 1) - 1 = k /\ k \in k..N
      BY <1>1, <1>4, <2>1
    <3>2. Until(r, e, k + 1) = Until(r, e, k) + e[r[k + 1]]
      BY <1>12, <3>1
    <3>3. Until(r, e, k + 1) = U(k)
      BY <1>7, <1>9, <1>10, <1>14, <2>1, <3>1, <3>2
    <3>4. \A i \in k..N : i \in 0..Len(l) /\ i + 1 \in 0..Len(r)
      BY <1>1, <1>4, <1>10
    <3>5. ASSUME NEW i \in (k + 1)..N PROVE e[r[i + 1]] = c[l[i]]
      <4>1. i \in k..N /\ i \in 1..N /\ i # k
        BY <1>4
      <4> QED BY <1>9, <1>10, <4>1
    <3>6. k \in Nat /\ N \in Nat /\ 1 \in Int /\ r \in Seq(Timer)
      BY <1>1, <1>4, <1>10
    <3>7. Shifted(l, c, r, e, k, N, 1)
      BY <3>3, <3>4, <3>5 DEF Shifted
    <3> QED BY <1>1, <3>6, <3>7, UntilShiftedOn
  <2>2. CASE ~(k <= N)
    BY <1>1, <1>4, <2>2
  <2> QED BY <2>1, <2>2
<1> G[t] = n /\ \A u \in S : G[u] = F[u]
  BY DEF Except
<1>16. ASSUME NEW i \in 1..(N + 1) PROVE G[r[i]] = Until(r, e, i)
  <2>1. CASE i = k
    BY <1>10, <1>14, <2>1
  <2>2. CASE i < k
    <3>1. i \in 1..(k - 1) /\ i \in 0..(k - 1) /\ i \in 1..N
      BY <1>4, <2>2
    <3>2. r[i] = l[i] /\ l[i] \in S /\ F[l[i]] = U(i) /\ Until(r, e, i) = U(i)
      BY <1>1, <1>10, <1>13, <3>1 DEF Measured
    <3> QED BY <3>2
  <2>3. CASE i > k
    <3>1. i - 1 \in k..N /\ i - 1 \in 1..N /\ (i - 1) + 1 = i
      BY <1>1, <1>4, <2>3
    <3>2. r[(i - 1) + 1] = l[i - 1] /\ Until(r, e, (i - 1) + 1) = U(i - 1)
      BY <1>10, <1>15, <3>1
    <3>3. l[i - 1] \in S /\ F[l[i - 1]] = U(i - 1)
      BY <1>1, <3>1 DEF Measured
    <3> QED BY <3>1, <3>2, <3>3
  <2> QED BY <1>4, <2>1, <2>2, <2>3
<1>17. Measured(r, e, G)
  BY <1>10, <1>16 DEF Measured
<1> QED BY <1>0, <1>8, <1>11, <1>17

\* A timer is removed and the others expire when they would have.
LEMMA RemovedMeasured ==
  ASSUME NEW S, NEW l, Lists(l, S), NEW c \in [Timer -> Nat], NEW F, Measured(l, c, F),
         NEW t \in Timer, t \in S
  PROVE  /\ Lists(Removed(t, l, c).list, S \ {t})
         /\ Removed(t, l, c).count \in [Timer -> Nat]
         /\ Measured(Removed(t, l, c).list, Removed(t, l, c).count, F)
<1> DEFINE N == Len(l)
           U(i) == Until(l, c, i)
           k == CHOOSE i \in 1..Len(l) : l[i] = t
           e == IF k < Len(l) THEN [c EXCEPT ![l[k + 1]] = c[l[k + 1]] + c[t]] ELSE c
           r == RemoveAt(l, k)
<1>0. Removed(t, l, c).list = r /\ Removed(t, l, c).count = e
  BY DEF Removed
<1>1. /\ l \in Seq(Timer) /\ N \in Nat
      /\ \A i \in 1..N : l[i] \in Timer /\ l[i] \in S
      /\ \A i, j \in 1..N : l[i] = l[j] => i = j
  BY DEF Lists
<1>2. U(0) = 0 /\ \A i \in 1..N : U(i) = U(i - 1) + c[l[i]]
  BY <1>1, UntilEquations
<1>3. \A i \in 0..N : U(i) \in Nat
  BY <1>1, UntilNatural
<1>4. k \in 1..N /\ l[k] = t
  <2>1. \E i \in 1..N : l[i] = t
    BY DEF Lists
  <2> QED BY <2>1
<1> HIDE DEF k
<1>5. k < N => k + 1 \in 1..N /\ l[k + 1] \in Timer
  BY <1>1, <1>4
<1>6. e \in [Timer -> Nat]
  BY <1>5
<1>7. /\ k < N => e[l[k + 1]] = c[l[k + 1]] + c[t]
      /\ \A i \in 1..N : i # k + 1 => e[l[i]] = c[l[i]]
  <2>1. ASSUME NEW i \in 1..N, i # k + 1 PROVE e[l[i]] = c[l[i]]
    <3>1. l[i] \in Timer /\ (k < N => l[i] # l[k + 1])
      BY <1>1, <1>5, <2>1
    <3> QED BY <3>1
  <2>2. k < N => e[l[k + 1]] = c[l[k + 1]] + c[t]
    BY <1>5
  <2> QED BY <2>1, <2>2
<1>8. /\ r \in Seq(Timer) /\ Len(r) = N - 1
      /\ \A i \in 1..(k - 1) : r[i] = l[i]
      /\ \A i \in (k + 1)..N : r[i - 1] = l[i]
  BY <1>1, <1>4, RemoveAtElements
<1>9. Lists(r, S \ {t})
  BY <1>4, RemoveAtLists
<1> HIDE DEF e, r
<1>10. r \in Seq(Timer) /\ \A i \in 1..(N - 1) : Until(r, e, i) = Until(r, e, i - 1) + e[r[i]]
  <2>1. r \in Seq(Timer) /\ Len(r) = N - 1
    BY <1>8
  <2>2. \A i \in 1..Len(r) : Until(r, e, i) = Until(r, e, i - 1) + e[r[i]]
    BY <2>1, UntilEquations
  <2> QED BY <2>1, <2>2
<1>11. \A i \in 0..(k - 1) : Until(r, e, i) = U(i)
  <2>1. \A i \in 0..(k - 1) : i \in 0..Len(l) /\ i + 0 \in 0..Len(r)
    BY <1>1, <1>4, <1>8
  <2>2. Until(r, e, 0 + 0) = Until(l, c, 0)
    BY <1>2, <1>8, UntilEquations
  <2>3. ASSUME NEW i \in (0 + 1)..(k - 1) PROVE e[r[i + 0]] = c[l[i]]
    <3>1. i \in 1..(k - 1) /\ i \in 1..N /\ i # k + 1 /\ i + 0 = i
      BY <1>4
    <3> QED BY <1>7, <1>8, <3>1
  <2>4. k - 1 \in Nat /\ 0 \in Int /\ r \in Seq(Timer)
    BY <1>4, <1>8
  <2>5. \A i \in 0..(k - 1) : Until(r, e, i) = Until(l, c, i)
    <3>1. Shifted(l, c, r, e, 0, k - 1, 0)
      BY <2>1, <2>2, <2>3 DEF Shifted
    <3> QED BY <1>1, <2>4, <3>1, UntilUnshifted
  <2> QED BY <2>5
<1>12. \A i \in (k + 1)..N : Until(r, e, i - 1) = U(i)
  <2>1. CASE k < N
    <3>1. /\ k \in 1..(N - 1) /\ (k + 1) - 1 = k /\ k + 1 \in (k + 1)..N /\ k + 1 \in 1..N
          /\ k - 1 \in 0..(k - 1) /\ k \in 1..N /\ k - 1 \in 0..N
      BY <1>1, <1>4, <2>1
    <3>2. Until(r, e, k) = Until(r, e, k - 1) + e[r[k]]
      BY <1>10, <3>1
    <3>3. r[k] = l[k + 1]
      BY <1>8, <3>1
    <3>4. Until(r, e, k) = U(k - 1) + (c[l[k + 1]] + c[t])
      BY <1>7, <1>11, <2>1, <3>1, <3>2, <3>3
    <3>5. U(k) = U(k - 1) + c[t] /\ U(k + 1) = U(k) + c[l[k + 1]]
      BY <1>2, <1>4, <3>1
    <3>6. c[t] \in Nat /\ c[l[k + 1]] \in Nat /\ U(k - 1) \in Nat
      BY <1>1, <1>3, <3>1
    <3>7. Until(r, e, k) = U(k + 1)
      <4> HIDE DEF U
      <4> QED BY <3>4, <3>5, <3>6
    <3>8. \A i \in (k + 1)..N : i \in 0..Len(l) /\ i + (-1) \in 0..Len(r)
      BY <1>1, <1>4, <1>8
    <3>9. ASSUME NEW i \in ((k + 1) + 1)..N PROVE e[r[i + (-1)]] = c[l[i]]
      <4>1. i \in (k + 1)..N /\ i \in 1..N /\ i # k + 1 /\ i + (-1) = i - 1
        BY <1>4
      <4> QED BY <1>7, <1>8, <4>1
    <3>10. k + 1 \in Nat /\ N \in Nat /\ -1 \in Int /\ r \in Seq(Timer) /\ (k + 1) + (-1) = k
      BY <1>1, <1>4, <1>8
    <3>11. \A i \in (k + 1)..N : Until(r, e, i - 1) = Until(l, c, i)
      <4>1. Shifted(l, c, r, e, k + 1, N, -1)
        BY <3>7, <3>8, <3>9, <3>10 DEF Shifted
      <4> QED BY <1>1, <3>10, <4>1, UntilShiftedBack
    <3> QED BY <3>11
  <2>2. CASE ~(k < N)
    BY <1>1, <1>4, <2>2
  <2> QED BY <2>1, <2>2
<1>13. ASSUME NEW i \in 1..(N - 1) PROVE F[r[i]] = Until(r, e, i)
  <2>1. CASE i < k
    <3>1. i \in 1..(k - 1) /\ i \in 0..(k - 1) /\ i \in 1..N
      BY <1>4, <2>1
    <3>2. r[i] = l[i] /\ F[l[i]] = U(i) /\ Until(r, e, i) = U(i)
      BY <1>8, <1>11, <3>1 DEF Measured
    <3> QED BY <3>2
  <2>2. CASE ~(i < k)
    <3>1. i + 1 \in (k + 1)..N /\ i + 1 \in 1..N /\ (i + 1) - 1 = i
      BY <1>1, <1>4, <2>2
    <3>2. r[(i + 1) - 1] = l[i + 1] /\ Until(r, e, (i + 1) - 1) = U(i + 1)
      BY <1>8, <1>12, <3>1
    <3>3. F[l[i + 1]] = U(i + 1)
      BY <3>1 DEF Measured
    <3> QED BY <3>1, <3>2, <3>3
  <2> QED BY <2>1, <2>2
<1>14. Measured(r, e, F)
  BY <1>8, <1>13 DEF Measured
<1> QED BY <1>0, <1>6, <1>9, <1>14

\* A tick takes one from the first count, and from every sum.
LEMMA UntilTicked ==
  ASSUME NEW S, NEW l, Lists(l, S), l # <<>>, NEW c \in [Timer -> Nat],
         NEW e, e = [c EXCEPT ![l[1]] = c[l[1]] - 1]
  PROVE  \A i \in 1..Len(l) : Until(l, e, i) = Until(l, c, i) - 1
<1> DEFINE N == Len(l)
           T == {i \in 1..N : Until(l, e, i) = Until(l, c, i) - 1}
<1>1. /\ l \in Seq(Timer) /\ N \in Nat /\ 1 \in 1..N
      /\ \A i \in 1..N : l[i] \in Timer /\ (l[i] = l[1] => i = 1)
  BY DEF Lists
<1>2. /\ Until(l, c, 0) = 0 /\ \A i \in 1..N : Until(l, c, i) = Until(l, c, i - 1) + c[l[i]]
  BY <1>1, UntilEquations
<1>3. /\ Until(l, e, 0) = 0 /\ \A i \in 1..N : Until(l, e, i) = Until(l, e, i - 1) + e[l[i]]
  BY <1>1, UntilEquations
<1>4. \A i \in 0..N : Until(l, c, i) \in Nat
  BY <1>1, UntilNatural
<1>5. e[l[1]] = c[l[1]] - 1 /\ \A i \in 1..N : c[l[i]] \in Nat /\ (i # 1 => e[l[i]] = c[l[i]])
  BY <1>1
<1>6. 1 \in T
  <2>1. 1 \in 1..N /\ 1 - 1 = 0
    BY <1>1
  <2>2. Until(l, e, 1) = Until(l, e, 0) + e[l[1]] /\ Until(l, c, 1) = Until(l, c, 0) + c[l[1]]
    BY <1>2, <1>3, <2>1
  <2>3. Until(l, e, 1) = 0 + (c[l[1]] - 1) /\ Until(l, c, 1) = 0 + c[l[1]] /\ c[l[1]] \in Nat
    BY <1>2, <1>3, <1>5, <2>1, <2>2
  <2> QED BY <2>1, <2>3
<1>7. ASSUME NEW i \in 1..(N - 1), i \in T PROVE i + 1 \in T
  <2>1. i + 1 \in 1..N /\ (i + 1) - 1 = i /\ i + 1 # 1 /\ i \in 0..N
    BY <1>1
  <2>2. Until(l, e, i + 1) = Until(l, e, i) + c[l[i + 1]]
    BY <1>3, <1>5, <2>1
  <2>3. Until(l, c, i + 1) = Until(l, c, i) + c[l[i + 1]]
    BY <1>2, <2>1
  <2>4. Until(l, c, i) \in Nat /\ c[l[i + 1]] \in Nat
    BY <1>4, <1>5, <2>1
  <2> QED BY <1>7, <2>1, <2>2, <2>3, <2>4
<1>8. \A i \in 1..N : i \in T
  <2> HIDE DEF T
  <2> QED BY <1>1, <1>6, <1>7, Upwards
<1> QED BY <1>8

\* The counts are the same for the timers of set S.
Alike(c, e, S) == \A u \in S : e[u] = c[u]

\* The counts of timers that are not in the list do not matter.
LEMMA UntilElsewhere ==
  ASSUME NEW S, NEW l, Lists(l, S), NEW c, NEW e, Alike(c, e, S)
  PROVE  \A i \in 1..Len(l) : Until(l, e, i) = Until(l, c, i)
<1>1. l \in Seq(Timer) /\ Len(l) \in Nat /\ \A i \in 1..Len(l) : l[i] \in S
  BY DEF Lists
<1>3. Shifted(l, c, l, e, 0, Len(l), 0)
  <2>1. \A i \in 0..Len(l) : i \in 0..Len(l) /\ i + 0 \in 0..Len(l)
    BY <1>1
  <2>2. Until(l, e, 0 + 0) = Until(l, c, 0)
    BY <1>1, UntilEquations
  <2>3. ASSUME NEW i \in (0 + 1)..Len(l) PROVE e[l[i + 0]] = c[l[i]]
    <3>1. i \in 1..Len(l) /\ i + 0 = i
      BY <1>1
    <3> QED BY <1>1, <3>1 DEF Alike
  <2> QED BY <2>1, <2>2, <2>3 DEF Shifted
<1>4. \A i \in 0..Len(l) : Until(l, e, i) = Until(l, c, i)
  BY <1>1, <1>3, UntilUnshifted
<1>5. \A i \in 1..Len(l) : i \in 0..Len(l)
  BY <1>1
<1> QED BY <1>4, <1>5

-----------------------------------------------------------------------------
(* What a state of SYSTIMER means to its users.                            *)

\* The timers that run in table s.
Runs(s) == {t \in Timer : s[t] = "running"}

\* The ticks left to each timer of table s, with list l and counts c.
LeftOf(s, l, c) ==
  [t \in Timer |-> IF s[t] # "running" THEN 0
                   ELSE Until(l, c, CHOOSE i \in 1..Len(l) : l[i] = t)]

\* The ticks left to each timer, as TimerService sees them.
Left == [t \in Timer |-> Remaining(t)]

\* Both say the same.
LEMMA LeftIs == Left = LeftOf(state, g_timer_list, count)
BY DEF Left, LeftOf, Remaining

\* They are the sums over the list.
LEMMA LeftMeasured ==
  ASSUME NEW s, NEW l, NEW c \in [Timer -> Nat], Lists(l, Runs(s))
  PROVE  /\ Measured(l, c, LeftOf(s, l, c))
         /\ LeftOf(s, l, c) \in [Timer -> Nat]
         /\ \A t \in Timer : t \notin Runs(s) => LeftOf(s, l, c)[t] = 0
<1>1. /\ l \in Seq(Timer) /\ \A i \in 1..Len(l) : l[i] \in Timer /\ l[i] \in Runs(s)
      /\ \A i, j \in 1..Len(l) : l[i] = l[j] => i = j
      /\ \A t \in Runs(s) : \E i \in 1..Len(l) : l[i] = t
  BY DEF Lists, Runs
<1>2. \A i \in 1..Len(l) : (CHOOSE j \in 1..Len(l) : l[j] = l[i]) = i
  BY <1>1
<1>3. ASSUME NEW i \in 1..Len(l) PROVE LeftOf(s, l, c)[l[i]] = Until(l, c, i)
  <2>1. l[i] \in Timer /\ s[l[i]] = "running"
    BY <1>1 DEF Runs
  <2> QED BY <1>2, <2>1 DEF LeftOf
<1>4. \A i \in 1..Len(l) : i \in 0..Len(l) /\ Until(l, c, i) \in Nat
  <2>1. \A i \in 1..Len(l) : i \in 0..Len(l)
    BY <1>1
  <2> QED BY <1>1, <2>1, UntilNatural
<1>5. \A t \in Timer : t \notin Runs(s) => LeftOf(s, l, c)[t] = 0
  BY DEF LeftOf, Runs
<1>6. \A t \in Timer : LeftOf(s, l, c)[t] \in Nat
  <2> SUFFICES ASSUME NEW t \in Timer PROVE LeftOf(s, l, c)[t] \in Nat
    OBVIOUS
  <2>1. CASE t \in Runs(s)
    <3>1. PICK i \in 1..Len(l) : l[i] = t
      BY <1>1, <2>1
    <3> QED BY <1>3, <1>4, <3>1
  <2>2. CASE t \notin Runs(s)
    BY <1>5, <2>2
  <2> QED BY <2>1, <2>2
<1>7. LeftOf(s, l, c) \in [Timer -> Nat]
  <2>1. LeftOf(s, l, c) = [t \in Timer |-> LeftOf(s, l, c)[t]]
    BY DEF LeftOf
  <2> QED BY <1>6, <2>1
<1> QED BY <1>3, <1>5, <1>7 DEF Measured

\* No other function measures the list.
LEMMA LeftUnique ==
  ASSUME NEW s, NEW l, NEW c \in [Timer -> Nat], Lists(l, Runs(s)),
         NEW F \in [Timer -> Nat], Measured(l, c, F), \A t \in Timer : t \notin Runs(s) => F[t] = 0
  PROVE  LeftOf(s, l, c) = F
<1>1. /\ Measured(l, c, LeftOf(s, l, c)) /\ LeftOf(s, l, c) \in [Timer -> Nat]
      /\ \A t \in Timer : t \notin Runs(s) => LeftOf(s, l, c)[t] = 0
  BY LeftMeasured
<1>2. ASSUME NEW t \in Timer PROVE LeftOf(s, l, c)[t] = F[t]
  <2>1. CASE t \in Runs(s)
    <3>1. PICK i \in 1..Len(l) : l[i] = t
      BY <2>1 DEF Lists
    <3> QED BY <1>1, <3>1 DEF Measured
  <2>2. CASE t \notin Runs(s)
    BY <1>1, <2>2
  <2> QED BY <2>1, <2>2
<1> HIDE DEF LeftOf
<1> QED BY <1>1, <1>2

\* If the first timer has ticks left, they all have.
LEMMA FirstIsLeast ==
  ASSUME NEW s, NEW l, NEW c \in [Timer -> Nat], Lists(l, Runs(s)),
         l # <<>> => c[Head(l)] > 0, NEW t \in Runs(s)
  PROVE  LeftOf(s, l, c)[t] > 0
<1>1. l \in Seq(Timer) /\ t \in Timer
  BY DEF Lists, Runs
<1>2. PICK i \in 1..Len(l) : l[i] = t
  BY <1>1 DEF Lists
<1>3. l # <<>> /\ Head(l) = l[1] /\ l[1] \in Timer
  BY <1>1, <1>2
<1>4. LeftOf(s, l, c)[t] = Until(l, c, i)
  BY <1>2, LeftMeasured DEF Measured
<1>5. c[l[1]] <= Until(l, c, i) /\ Until(l, c, i) \in Nat
  <2>1. i \in 0..Len(l)
    BY <1>1, <1>2
  <2> QED BY <1>1, <2>1, UntilNatural
<1>6. c[l[1]] > 0 /\ c[l[1]] \in Nat
  BY <1>3
<1> QED BY <1>4, <1>5, <1>6

-----------------------------------------------------------------------------
(* The invariant.                                                          *)

\* The list has exactly the running timers, each once; outside the handler none
\* of them is due.
ListInv ==
  /\ Lists(g_timer_list, Runs(state))
  /\ count \in [Timer -> Nat]
  /\ ~handling => \A t \in Runs(state) : Left[t] > 0

TimerInv ==
  /\ ListInv
  /\ state \in [Timer -> {"free", "stopped", "running"}]
  /\ mode \in [Timer -> {"oneshot", "periodic"}]
  /\ reload \in [Timer -> Nat]
  /\ delete_swtmr \in [Timer -> BOOLEAN]
  /\ handling \in BOOLEAN

\* The ticks left before a step.
LEMMA LeftFacts ==
  ASSUME TimerInv
  PROVE  /\ Left \in [Timer -> Nat] /\ Measured(g_timer_list, count, Left)
         /\ \A t \in Timer : t \notin Runs(state) => Left[t] = 0
BY LeftIs, LeftMeasured DEF TimerInv, ListInv

\* The ticks left after a step.
LEMMA LeftAfter ==
  ASSUME Lists(g_timer_list', Runs(state')), count' \in [Timer -> Nat],
         NEW F \in [Timer -> Nat], Measured(g_timer_list', count', F),
         \A t \in Timer : t \notin Runs(state') => F[t] = 0
  PROVE  Left' = F
<1>1. Left' = LeftOf(state', g_timer_list', count')
  BY DEF Left, LeftOf, Remaining
<1> QED BY <1>1, LeftUnique

\* A timer is removed from the list and its state says so.
LEMMA Ended ==
  ASSUME TimerInv, NEW t \in Runs(state), SetList(Removed(t, g_timer_list, count)),
         NEW v \in {"free", "stopped"}, state' = [state EXCEPT ![t] = v]
  PROVE  /\ Lists(g_timer_list', Runs(state')) /\ count' \in [Timer -> Nat]
         /\ Left' = [Left EXCEPT ![t] = 0] /\ Runs(state') = Runs(state) \ {t}
<1> DEFINE F == [Left EXCEPT ![t] = 0]
<1>1. t \in Timer /\ Runs(state') = Runs(state) \ {t}
  BY DEF TimerInv, Runs
<1>2. /\ g_timer_list' = Removed(t, g_timer_list, count).list
      /\ count' = Removed(t, g_timer_list, count).count
  BY DEF SetList
<1>3. Lists(g_timer_list, Runs(state)) /\ count \in [Timer -> Nat]
  BY DEF TimerInv, ListInv
<1>4. Measured(g_timer_list, count, Left)
  BY LeftFacts
<1>5. /\ Lists(g_timer_list', Runs(state) \ {t}) /\ count' \in [Timer -> Nat]
      /\ Measured(g_timer_list', count', Left)
  BY <1>1, <1>2, <1>3, <1>4, RemovedMeasured
<1>6. Left \in [Timer -> Nat] /\ \A u \in Timer : u \notin Runs(state) => Left[u] = 0
  BY LeftFacts
<1>7. F \in [Timer -> Nat] /\ F[t] = 0 /\ \A u \in Timer \ {t} : F[u] = Left[u]
  BY <1>1, <1>6
<1> HIDE DEF F
<1>8. Measured(g_timer_list', count', F)
  <2> SUFFICES ASSUME NEW i \in 1..Len(g_timer_list')
               PROVE  F[g_timer_list'[i]] = Until(g_timer_list', count', i)
    BY DEF Measured
  <2>1. g_timer_list'[i] \in Timer \ {t}
    <3>1. g_timer_list' \in Seq(Timer)
      BY <1>5 DEF Lists
    <3>2. g_timer_list'[i] \in Timer
      BY <3>1
    <3>3. g_timer_list'[i] \in Runs(state) \ {t}
      BY <1>5, <3>2 DEF Lists
    <3> QED BY <3>2, <3>3
  <2> QED BY <1>5, <1>7, <2>1 DEF Measured
<1>9. \A u \in Timer : u \notin Runs(state') => F[u] = 0
  BY <1>1, <1>6, <1>7
<1>10. Lists(g_timer_list', Runs(state'))
  BY <1>1, <1>5
<1>11. Left' = F
  BY <1>5, <1>7, <1>8, <1>9, <1>10, LeftAfter
<1> QED BY <1>1, <1>5, <1>10, <1>11 DEF F

\* A timer is put into the list, after it is taken out if it was running.
LEMMA Restarted ==
  ASSUME TimerInv, NEW t \in Timer, NEW n \in Nat, NEW l, NEW c,
         \/ t \in Runs(state) /\ l = Removed(t, g_timer_list, count).list
                              /\ c = Removed(t, g_timer_list, count).count
         \/ t \notin Runs(state) /\ l = g_timer_list /\ c = count,
         SetList(Inserted(t, n, l, c)), state' = [state EXCEPT ![t] = "running"]
  PROVE  /\ Lists(g_timer_list', Runs(state')) /\ count' \in [Timer -> Nat]
         /\ Left' = [Left EXCEPT ![t] = n] /\ Runs(state') = Runs(state) \cup {t}
<1> DEFINE F == [Left EXCEPT ![t] = n]
           S == Runs(state) \ {t}
<1>1. Runs(state') = S \cup {t} /\ Runs(state') = Runs(state) \cup {t} /\ t \notin S
  BY DEF TimerInv, Runs
<1>2. Lists(g_timer_list, Runs(state)) /\ count \in [Timer -> Nat]
  BY DEF TimerInv, ListInv
<1>3. /\ Left \in [Timer -> Nat] /\ Measured(g_timer_list, count, Left)
      /\ \A u \in Timer : u \notin Runs(state) => Left[u] = 0
  BY LeftFacts
<1>4. Lists(l, S) /\ c \in [Timer -> Nat] /\ Measured(l, c, Left)
  <2>1. CASE t \in Runs(state)
    <3>1. l = Removed(t, g_timer_list, count).list /\ c = Removed(t, g_timer_list, count).count
      BY <2>1
    <3> QED BY <1>2, <1>3, <2>1, <3>1, RemovedMeasured
  <2>2. CASE t \notin Runs(state)
    <3>1. S = Runs(state) /\ l = g_timer_list /\ c = count
      BY <2>2
    <3> QED BY <1>2, <1>3, <3>1
  <2> QED BY <2>1, <2>2
<1>5. F \in [Timer -> Nat] /\ F[t] = n /\ \A u \in Timer \ {t} : F[u] = Left[u]
  BY <1>3
<1>6. S \subseteq Timer /\ t \notin S /\ \A u \in S : u \in Timer \ {t}
  BY DEF Runs
<1> HIDE DEF F, S
<1>7. /\ g_timer_list' = Inserted(t, n, l, c).list /\ count' = Inserted(t, n, l, c).count
  BY DEF SetList
<1>8. Except(Left, F, t, n, S)
  BY <1>5, <1>6 DEF Except
<1>9. /\ Lists(g_timer_list', S \cup {t}) /\ count' \in [Timer -> Nat]
      /\ Measured(g_timer_list', count', F)
  <2>2. /\ Lists(Inserted(t, n, l, c).list, S \cup {t})
        /\ Inserted(t, n, l, c).count \in [Timer -> Nat]
        /\ Measured(Inserted(t, n, l, c).list, Inserted(t, n, l, c).count, F)
    BY <1>4, <1>6, <1>8, InsertedMeasured
  <2> QED BY <1>7, <2>2
<1>10. \A u \in Timer : u \notin Runs(state') => F[u] = 0
  BY <1>1, <1>3, <1>5
<1>11. Lists(g_timer_list', Runs(state'))
  BY <1>1, <1>9
<1>12. Left' = F
  BY <1>5, <1>9, <1>10, <1>11, LeftAfter
<1> QED BY <1>1, <1>9, <1>11, <1>12 DEF F

\* A step that leaves the running timers and their counts alone.
LEMMA SameLeft ==
  ASSUME TimerInv, UNCHANGED g_timer_list, Runs(state') = Runs(state),
         \/ count' = count
         \/ \E t \in Timer \ Runs(state) : \E x \in Nat : count' = [count EXCEPT ![t] = x]
  PROVE  /\ Lists(g_timer_list', Runs(state')) /\ count' \in [Timer -> Nat]
         /\ Left' = Left
<1>1. Lists(g_timer_list, Runs(state)) /\ count \in [Timer -> Nat]
  BY DEF TimerInv, ListInv
<1>2. Lists(g_timer_list', Runs(state'))
  BY <1>1
<1>3. /\ Left \in [Timer -> Nat] /\ Measured(g_timer_list, count, Left)
      /\ \A u \in Timer : u \notin Runs(state) => Left[u] = 0
  BY LeftFacts
<1>4. count' \in [Timer -> Nat] /\ Measured(g_timer_list', count', Left)
  <2>1. CASE count' = count
    BY <1>1, <1>3, <2>1
  <2>2. ASSUME NEW t \in Timer \ Runs(state), NEW x \in Nat, count' = [count EXCEPT ![t] = x]
        PROVE  count' \in [Timer -> Nat] /\ Measured(g_timer_list', count', Left)
    <3>1. \A i \in 1..Len(g_timer_list) :
            Until(g_timer_list, count', i) = Until(g_timer_list, count, i)
      <4>1. Alike(count, count', Runs(state))
        BY <1>1, <2>2 DEF Alike, Runs
      <4> QED BY <1>1, <4>1, UntilElsewhere
    <3>2. count' \in [Timer -> Nat]
      BY <1>1, <2>2
    <3> QED BY <1>3, <3>1, <3>2 DEF Measured
  <2> QED BY <2>1, <2>2
<1>5. \A u \in Timer : u \notin Runs(state') => Left[u] = 0
  BY <1>3
<1>6. Left' = Left
  BY <1>2, <1>3, <1>4, <1>5, LeftAfter
<1> QED BY <1>2, <1>4, <1>6

-----------------------------------------------------------------------------
(* Every step keeps the invariant and is a step of TimerService.           *)

\* Between two interrupts no timer is due.
LEMMA NoneDue ==
  ASSUME TimerInv, ~handling
  PROVE  Service!Due = {}
<1>1. \A t \in Runs(state) : Left[t] > 0
  BY DEF TimerInv, ListInv
<1>2. Left \in [Timer -> Nat]
  BY LeftFacts
<1>3. \A t \in Runs(state) : t \in Timer /\ Left[t] # 0
  BY <1>1, <1>2 DEF Runs
<1> QED BY <1>3 DEF Service!Due, Service!Running, Left, Runs

\* Users call SYSTIMER only when TimerService allows it.
LEMMA Callable ==
  ASSUME TimerInv, MayCall
  PROVE  Service!MayCall
BY NoneDue DEF MayCall, FromMain, FromCallback, Service!MayCall

\* SysTick
LEMMA SysTickStep ==
  ASSUME TimerInv, SysTick
  PROVE  TimerInv' /\ Service!Tick
<1> DEFINE l == g_timer_list
           F == [t \in Timer |-> IF t \in Runs(state) THEN Left[t] - 1 ELSE 0]
<1>1. /\ ~handling /\ called' = None
      /\ UNCHANGED <<g_timer_list, state, reload, mode, delete_swtmr>>
  BY DEF SysTick, tblVars
<1>2. /\ Left \in [Timer -> Nat] /\ Measured(l, count, Left)
      /\ \A t \in Timer : t \notin Runs(state) => Left[t] = 0
  BY LeftFacts
<1>3. /\ Lists(l, Runs(state)) /\ count \in [Timer -> Nat]
      /\ \A t \in Runs(state) : Left[t] > 0
  BY <1>1 DEF TimerInv, ListInv
<1>4. F \in [Timer -> Nat] /\ \A t \in Timer : F[t] = IF t \in Runs(state) THEN Left[t] - 1 ELSE 0
  BY <1>2, <1>3
<1> HIDE DEF F
<1>5. l \in Seq(Timer) /\ \A i \in 1..Len(l) : l[i] \in Timer /\ l[i] \in Runs(state)
  BY <1>3 DEF Lists
<1>6. /\ count' \in [Timer -> Nat] /\ Measured(l, count', F) /\ handling' \in BOOLEAN
      /\ ~handling' /\ l # <<>> => count'[Head(l)] > 0
  <2>1. CASE l = <<>>
    <3>1. count' = count /\ handling' = handling
      BY <2>1 DEF SysTick
    <3>2. Measured(l, count', F)
      BY <2>1 DEF Measured
    <3> QED BY <1>3, <2>1, <3>1, <3>2 DEF TimerInv
  <2>2. CASE l # <<>>
    <3>1. Head(l) = l[1] /\ 1 \in 1..Len(l)
      BY <1>5, <2>2
    <3>2. l[1] \in Timer /\ count[l[1]] > 0 /\ count[l[1]] \in Nat
      <4>1. l[1] \in Timer /\ l[1] \in Runs(state) /\ Left[l[1]] = Until(l, count, 1)
        BY <1>2, <1>5, <3>1 DEF Measured
      <4>2. Until(l, count, 1) = count[l[1]]
        BY <1>3, <1>5, <2>2, UntilNatural
      <4> QED BY <1>3, <4>1, <4>2
    <3>3. /\ count' = [count EXCEPT ![l[1]] = IF count[l[1]] > 1 THEN count[l[1]] - 1 ELSE 0]
          /\ handling' = (count'[l[1]] = 0)
      BY <2>2, <3>1 DEF SysTick
    <3>4. (IF count[l[1]] > 1 THEN count[l[1]] - 1 ELSE 0) = count[l[1]] - 1
      BY <3>2
    <3>5. count' = [count EXCEPT ![l[1]] = count[l[1]] - 1]
      BY <3>3, <3>4
    <3>6. count' \in [Timer -> Nat]
      BY <1>3, <3>2, <3>5
    <3>7. \A i \in 1..Len(l) : Until(l, count', i) = Until(l, count, i) - 1
      BY <1>3, <2>2, <3>5, UntilTicked
    <3>8. Measured(l, count', F)
      BY <1>2, <1>4, <1>5, <3>7 DEF Measured
    <3>9. count'[l[1]] \in Nat
      BY <3>2, <3>6
    <3>10. ~handling' => count'[l[1]] > 0
      <4>1. ~handling' => count'[l[1]] # 0
        BY <3>3, Zenon
      <4> QED BY <3>9, <4>1
    <3> QED BY <3>1, <3>3, <3>6, <3>8, <3>10
  <2> QED BY <2>1, <2>2
<1>7. Runs(state') = Runs(state) /\ Lists(g_timer_list', Runs(state'))
  BY <1>1, <1>3
<1>8. Left' = F
  <2>1. \A t \in Timer : t \notin Runs(state') => F[t] = 0
    BY <1>4, <1>7
  <2>2. Measured(g_timer_list', count', F)
    BY <1>1, <1>6
  <2> QED BY <1>4, <1>6, <1>7, <2>1, <2>2, LeftAfter
<1>9. ~handling' => \A t \in Runs(state') : Left'[t] > 0
  <2> SUFFICES ASSUME ~handling', NEW t \in Runs(state') PROVE Left'[t] > 0
    OBVIOUS
  <2>1. g_timer_list' # <<>> => count'[Head(g_timer_list')] > 0
    BY <1>1, <1>6
  <2>2. LeftOf(state', g_timer_list', count')[t] > 0
    BY <1>6, <1>7, <2>1, FirstIsLeast
  <2>3. Left' = LeftOf(state', g_timer_list', count')
    BY DEF Left, LeftOf, Remaining
  <2> QED BY <2>2, <2>3
<1>10. TimerInv'
  <2>1. ListInv'
    BY <1>6, <1>7, <1>9 DEF ListInv
  <2> QED BY <1>1, <1>6, <2>1 DEF TimerInv
<1>11. Service!Tick
  <2>1. Service!Due = {}
    BY <1>1, NoneDue
  <2>2. Left' = [t \in Timer |-> IF t \in Service!Running THEN Left[t] - 1 ELSE 0]
    BY <1>8 DEF F, Runs, Service!Running
  <2> QED BY <1>1, <2>1, <2>2 DEF Service!Tick, Left
<1> QED BY <1>10, <1>11

\* The handler: an expired timer is due.
LEMMA ExpiredDue ==
  ASSUME TimerInv, NEW t \in Timer, Expired(t)
  PROVE  t \in Runs(state) /\ t \in Service!Due
<1>1. /\ Lists(g_timer_list, Runs(state)) /\ count \in [Timer -> Nat]
      /\ Measured(g_timer_list, count, Left)
  BY LeftFacts DEF TimerInv, ListInv
<1>2. g_timer_list \in Seq(Timer)
  BY <1>1 DEF Lists
<1>3. g_timer_list # <<>> /\ t = g_timer_list[1] /\ count[t] = 0 /\ 1 \in 1..Len(g_timer_list)
  BY <1>2 DEF Expired
<1>4. t \in Runs(state)
  BY <1>1, <1>3 DEF Lists
<1>5. Left[t] = 0
  <2>1. Until(g_timer_list, count, 1) = count[g_timer_list[1]]
    BY <1>1, <1>2, <1>3, UntilNatural
  <2> QED BY <1>1, <1>3, <2>1 DEF Measured
<1> QED BY <1>4, <1>5 DEF Runs, Service!Due, Service!Running, Left

\* An expired timer that was deleted is freed, and one that expires once stops.
LEMMA ExpiryEnds ==
  ASSUME TimerInv, NEW t \in Timer, HandleDelete(t) \/ HandleOneShot(t)
  PROVE  TimerInv' /\ Service!Expire(t)
<1>1. /\ Expired(t) /\ handling /\ SetList(Removed(t, g_timer_list, count))
      /\ UNCHANGED <<reload, mode, delete_swtmr, handling>>
  BY DEF HandleDelete, HandleOneShot, Expired, tblVars
<1>2. t \in Runs(state) /\ t \in Service!Due
  BY <1>1, ExpiredDue
<1> DEFINE v == IF delete_swtmr[t] THEN "free" ELSE "stopped"
<1>3. /\ state' = [state EXCEPT ![t] = v] /\ called' = IF delete_swtmr[t] THEN None ELSE t
      /\ ~delete_swtmr[t] => mode[t] = "oneshot"
  BY DEF HandleDelete, HandleOneShot
<1>4. v \in {"free", "stopped"}
  OBVIOUS
<1>5. state' \in [Timer -> {"free", "stopped", "running"}]
  BY <1>3 DEF TimerInv
<1>6. Service!Expire(t) <=>
        /\ t \in Service!Due
        /\ state' = [state EXCEPT ![t] = IF delete_swtmr[t] THEN "free"
                                         ELSE IF mode[t] = "oneshot" THEN "stopped" ELSE state[t]]
        /\ Left' = [Left EXCEPT ![t] = IF delete_swtmr[t] \/ mode[t] = "oneshot" THEN 0 ELSE reload[t]]
        /\ called' = IF delete_swtmr[t] THEN None ELSE t
        /\ UNCHANGED <<reload, mode, delete_swtmr>>
  BY DEF Service!Expire, Left
<1> HIDE DEF v
<1>7. /\ Lists(g_timer_list', Runs(state')) /\ count' \in [Timer -> Nat]
      /\ Left' = [Left EXCEPT ![t] = 0]
  BY <1>1, <1>2, <1>3, <1>4, Ended
<1>8. TimerInv'
  <2>1. ListInv'
    BY <1>1, <1>7 DEF ListInv
  <2> QED BY <1>1, <1>5, <2>1 DEF TimerInv
<1>9. Service!Expire(t)
  BY <1>1, <1>2, <1>3, <1>6, <1>7 DEF v
<1> QED BY <1>8, <1>9

\* A periodic timer goes back into the list for its period.
LEMMA ExpiryRestarts ==
  ASSUME TimerInv, NEW t \in Timer, HandlePeriodic(t)
  PROVE  TimerInv' /\ Service!Expire(t)
<1> DEFINE r == Removed(t, g_timer_list, count)
<1>1. /\ Expired(t) /\ handling /\ SetList(Inserted(t, reload[t], r.list, r.count))
      /\ ~delete_swtmr[t] /\ mode[t] = "periodic" /\ called' = t
      /\ UNCHANGED <<state, reload, mode, delete_swtmr, handling>>
  BY DEF HandlePeriodic, Expired, tblVars
<1>2. t \in Runs(state) /\ t \in Service!Due
  BY <1>1, ExpiredDue
<1>3. state' = [state EXCEPT ![t] = "running"] /\ reload[t] \in Nat
  BY <1>1, <1>2 DEF TimerInv, Runs
<1>4. Service!Expire(t) <=>
        /\ t \in Service!Due
        /\ state' = [state EXCEPT ![t] = IF delete_swtmr[t] THEN "free"
                                         ELSE IF mode[t] = "oneshot" THEN "stopped" ELSE state[t]]
        /\ Left' = [Left EXCEPT ![t] = IF delete_swtmr[t] \/ mode[t] = "oneshot" THEN 0 ELSE reload[t]]
        /\ called' = IF delete_swtmr[t] THEN None ELSE t
        /\ UNCHANGED <<reload, mode, delete_swtmr>>
  BY DEF Service!Expire, Left
<1>5. /\ Lists(g_timer_list', Runs(state')) /\ count' \in [Timer -> Nat]
      /\ Left' = [Left EXCEPT ![t] = reload[t]]
  BY <1>1, <1>2, <1>3, Restarted
<1>6. TimerInv'
  <2>1. ListInv'
    BY <1>1, <1>5 DEF ListInv
  <2> QED BY <1>1, <2>1 DEF TimerInv
<1>7. state[t] = "running"
  BY <1>2 DEF Runs
<1>8. Service!Expire(t)
  BY <1>1, <1>2, <1>3, <1>4, <1>5, <1>7
<1> QED BY <1>6, <1>8

\* The handler ends when the first timer has ticks left: none is due.
LEMMA HandleEndStep ==
  ASSUME TimerInv, HandleEnd
  PROVE  TimerInv' /\ Service!Served
<1>1. /\ handling /\ handling' = FALSE /\ called' = None /\ \A t \in Timer : ~Expired(t)
      /\ UNCHANGED <<g_timer_list, count, state, reload, mode, delete_swtmr>>
  BY DEF HandleEnd, tblVars
<1>2. /\ Lists(g_timer_list, Runs(state)) /\ count \in [Timer -> Nat]
      /\ Left \in [Timer -> Nat]
  BY LeftFacts DEF TimerInv, ListInv
<1>3. g_timer_list # <<>> => count[Head(g_timer_list)] > 0
  <2> SUFFICES ASSUME g_timer_list # <<>> PROVE count[Head(g_timer_list)] > 0
    OBVIOUS
  <2>1. g_timer_list \in Seq(Timer)
    BY <1>2 DEF Lists
  <2>2. Head(g_timer_list) \in Timer
    BY <2>1
  <2>3. count[Head(g_timer_list)] # 0
    BY <1>1, <2>2 DEF Expired
  <2>4. count[Head(g_timer_list)] \in Nat
    BY <1>2, <2>2
  <2> QED BY <2>3, <2>4
<1>4. \A t \in Runs(state) : Left[t] > 0
  BY <1>2, <1>3, LeftIs, FirstIsLeast
<1>5. Left' = Left
  BY <1>1 DEF Left, Remaining
<1>6. TimerInv'
  <2>1. ListInv'
    BY <1>1, <1>2, <1>4, <1>5 DEF ListInv
  <2>2. handling' \in BOOLEAN
    BY <1>1
  <2> QED BY <1>1, <2>1, <2>2 DEF TimerInv
<1>7. Service!Due = {}
  <2>1. \A t \in Runs(state) : t \in Timer /\ Left[t] # 0
    BY <1>2, <1>4 DEF Runs
  <2> QED BY <2>1 DEF Service!Due, Service!Running, Left, Runs
<1> QED BY <1>1, <1>5, <1>6, <1>7 DEF Service!Served, Left

\* StartTimer and RestartTimer: t is put into the list for n + 1 ticks.
LEMMA StartStep ==
  ASSUME TimerInv, NEW t \in Timer, NEW n \in Nat, MayCall, state[t] # "free",
         NEW l, NEW c,
         \/ t \in Runs(state) /\ l = Removed(t, g_timer_list, count).list
                              /\ c = Removed(t, g_timer_list, count).count
         \/ t \notin Runs(state) /\ l = g_timer_list /\ c = count,
         SetList(Inserted(t, n + 1, l, c)), state' = [state EXCEPT ![t] = "running"],
         reload' = [reload EXCEPT ![t] = n], UNCHANGED <<mode, delete_swtmr, handling, called>>
  PROVE  TimerInv' /\ Service!Start(t, n)
<1>1. n + 1 \in Nat
  OBVIOUS
<1>2. /\ Lists(g_timer_list', Runs(state')) /\ count' \in [Timer -> Nat]
      /\ Left' = [Left EXCEPT ![t] = n + 1] /\ Runs(state') = Runs(state) \cup {t}
  BY <1>1, Restarted
<1>3. ~handling' => \A u \in Runs(state') : Left'[u] > 0
  <2> SUFFICES ASSUME ~handling', NEW u \in Runs(state') PROVE Left'[u] > 0
    OBVIOUS
  <2>1. Left \in [Timer -> Nat] /\ u \in Timer
    BY LeftFacts DEF Runs
  <2>2. CASE u = t
    BY <1>2, <2>1, <2>2
  <2>3. CASE u # t
    <3>1. Left[u] > 0
      BY <1>2, <2>3 DEF TimerInv, ListInv
    <3> QED BY <1>2, <2>1, <2>3, <3>1
  <2> QED BY <2>2, <2>3
<1>4. TimerInv'
  <2>1. ListInv'
    BY <1>2, <1>3 DEF ListInv
  <2> QED BY <2>1 DEF TimerInv
<1>5. Service!MayCall
  BY Callable
<1> QED BY <1>2, <1>4, <1>5 DEF Service!Start, Left

\* StopTimer
LEMMA StopStep ==
  ASSUME TimerInv, NEW t \in Timer, StopTimer(t)
  PROVE  TimerInv' /\ Service!Stop(t)
<1>1. /\ MayCall /\ state[t] = "running" /\ state' = [state EXCEPT ![t] = "stopped"]
      /\ SetList(Removed(t, g_timer_list, count))
      /\ UNCHANGED <<reload, mode, delete_swtmr, handling, called>>
  BY DEF StopTimer, tblVars
<1>2. t \in Runs(state) /\ "stopped" \in {"free", "stopped"}
  BY <1>1 DEF Runs
<1>3. /\ Lists(g_timer_list', Runs(state')) /\ count' \in [Timer -> Nat]
      /\ Left' = [Left EXCEPT ![t] = 0] /\ Runs(state') = Runs(state) \ {t}
  BY <1>1, <1>2, Ended
<1>4. ~handling' => \A u \in Runs(state') : Left'[u] > 0
  <2> SUFFICES ASSUME ~handling', NEW u \in Runs(state') PROVE Left'[u] > 0
    OBVIOUS
  <2>1. Left \in [Timer -> Nat] /\ u \in Timer /\ u # t /\ u \in Runs(state)
    BY <1>3, LeftFacts DEF Runs
  <2>2. Left[u] > 0
    BY <1>1, <2>1 DEF TimerInv, ListInv
  <2> QED BY <1>3, <2>1, <2>2
<1>5. TimerInv'
  <2>1. ListInv'
    BY <1>3, <1>4 DEF ListInv
  <2> QED BY <1>1, <2>1 DEF TimerInv
<1>6. Service!MayCall
  BY <1>1, Callable
<1> QED BY <1>1, <1>3, <1>5, <1>6 DEF Service!Stop, Left

\* A timer is created, or deleted: what the others have left stays.
LEMMA TableStep ==
  ASSUME TimerInv, UNCHANGED <<g_timer_list, handling>>, Runs(state') = Runs(state),
         \/ count' = count
         \/ \E t \in Timer \ Runs(state) : \E x \in Nat : count' = [count EXCEPT ![t] = x]
  PROVE  ListInv' /\ Left' = Left
<1>1. /\ Lists(g_timer_list', Runs(state')) /\ count' \in [Timer -> Nat] /\ Left' = Left
  BY SameLeft
<1>2. ~handling' => \A u \in Runs(state') : Left'[u] > 0
  BY <1>1 DEF TimerInv, ListInv
<1> QED BY <1>1, <1>2 DEF ListInv

\* CreateTimer
LEMMA CreateStep ==
  ASSUME TimerInv, NEW n \in Periods, NEW m \in {"oneshot", "periodic"},
         NoneDeleted, CreateTimer(n, m)
  PROVE  TimerInv' /\ \E t \in Timer : Service!Create(t, n, m)
<1>1. PICK t \in Timer :
        /\ state[t] = "free" /\ state' = [state EXCEPT ![t] = "stopped"]
        /\ count' = [count EXCEPT ![t] = n + 1]
        /\ reload' = [reload EXCEPT ![t] = n]
        /\ mode' = [mode EXCEPT ![t] = m]
  BY DEF CreateTimer
<1>2. MayCall /\ UNCHANGED <<g_timer_list, delete_swtmr, handling, called>>
  BY DEF CreateTimer, MayCall
<1>3. n \in Nat /\ n + 1 \in Nat
  BY SysTimerAssumption
<1>4. Runs(state') = Runs(state) /\ t \in Timer \ Runs(state)
  BY <1>1 DEF TimerInv, Runs
<1>5. \E x \in Nat : count' = [count EXCEPT ![t] = x]
  BY <1>1, <1>3
<1>6. ListInv' /\ Left' = Left
  BY <1>2, <1>4, <1>5, TableStep
<1>7. TimerInv'
  BY <1>1, <1>2, <1>3, <1>6 DEF TimerInv
<1>8. Service!MayCall
  BY <1>2, Callable
<1>9. delete_swtmr' = [delete_swtmr EXCEPT ![t] = FALSE]
  BY <1>2 DEF NoneDeleted, TimerInv
<1>10. Service!Create(t, n, m)
  BY <1>1, <1>2, <1>6, <1>8, <1>9 DEF Service!Create, Left
<1> QED BY <1>7, <1>10

\* DeleteTimer
LEMMA DeleteStep ==
  ASSUME TimerInv, NEW t \in Timer, DeleteTimer(t)
  PROVE  TimerInv' /\ Service!Delete(t)
<1>1. /\ MayCall /\ UNCHANGED <<g_timer_list, count, reload, mode, handling, called>>
      /\ \/ /\ state[t] = "stopped" /\ state' = [state EXCEPT ![t] = "free"]
            /\ UNCHANGED delete_swtmr
         \/ /\ state[t] = "running" /\ UNCHANGED state
            /\ delete_swtmr' = [delete_swtmr EXCEPT ![t] = TRUE]
  BY DEF DeleteTimer
<1>2. Runs(state') = Runs(state)
  BY <1>1 DEF TimerInv, Runs
<1>3. ListInv' /\ Left' = Left
  BY <1>1, <1>2, TableStep
<1>4. TimerInv'
  BY <1>1, <1>3 DEF TimerInv
<1>5. Service!MayCall
  BY <1>1, Callable
<1> QED BY <1>1, <1>3, <1>4, <1>5 DEF Service!Delete, Left

\* A timer that is not free has a period.
PeriodInv == \A t \in Timer : state[t] # "free" => reload[t] \in Periods

\* Every step keeps that.
LEMMA PeriodKept ==
  ASSUME TimerInv, PeriodInv, SysTick \/ Handler \/ Api
  PROVE  PeriodInv'
<1> USE DEF TimerInv, PeriodInv
<1>1. CASE SysTick \/ HandleEnd
  BY <1>1 DEF SysTick, HandleEnd, tblVars
<1>2. ASSUME NEW t \in Timer, HandleDelete(t) \/ HandleOneShot(t) \/ HandlePeriodic(t) PROVE PeriodInv'
  <2>1. t \in Runs(state)
    BY <1>2, ExpiredDue DEF HandleDelete, HandleOneShot, HandlePeriodic
  <2>2. reload[t] \in Periods
    BY <2>1 DEF Runs
  <2> QED BY <1>2, <2>2 DEF HandleDelete, HandleOneShot, HandlePeriodic, tblVars
<1>3. ASSUME NEW n \in Periods, NEW m, CreateTimer(n, m) PROVE PeriodInv'
  <2>1. PICK t \in Timer : /\ state' = [state EXCEPT ![t] = "stopped"]
                           /\ reload' = [reload EXCEPT ![t] = n]
    BY <1>3 DEF CreateTimer
  <2> QED BY <2>1
<1>4. ASSUME NEW t \in Timer, StartTimer(t) \/ StopTimer(t) \/ DeleteTimer(t) PROVE PeriodInv'
  BY <1>4 DEF StartTimer, StopTimer, DeleteTimer, tblVars
<1>5. ASSUME NEW t \in Timer, NEW n \in Periods, RestartTimer(t, n) PROVE PeriodInv'
  BY <1>5 DEF RestartTimer
<1> QED BY <1>1, <1>2, <1>3, <1>4, <1>5 DEF Handler, Api

\* Every step of SYSTIMER keeps the invariant and is one of TimerService.
LEMMA TimerStep ==
  ASSUME TimerInv, PeriodInv, SysTick \/ Handler \/ Api
  PROVE  TimerInv' /\ Service!Next
<1>1. CASE SysTick
  BY <1>1, SysTickStep DEF Service!Next
<1>2. CASE HandleEnd
  BY <1>2, HandleEndStep DEF Service!Next
<1>3. ASSUME NEW t \in Timer, HandleDelete(t) \/ HandleOneShot(t) \/ HandlePeriodic(t)
      PROVE  TimerInv' /\ Service!Next
  BY <1>3, ExpiryEnds, ExpiryRestarts DEF Service!Next
<1>4. ASSUME NEW n \in Periods, NEW m \in {"oneshot", "periodic"}, NoneDeleted, CreateTimer(n, m)
      PROVE  TimerInv' /\ Service!Next
  BY <1>4, CreateStep DEF Service!Next, Service!Modes
<1>5. ASSUME NEW t \in Timer, StopTimer(t) \/ DeleteTimer(t)
      PROVE  TimerInv' /\ Service!Next
  BY <1>5, StopStep, DeleteStep DEF Service!Next
<1>6. \A n \in Periods : n \in Nat
  BY SysTimerAssumption
<1>7. ASSUME NEW t \in Timer, StartTimer(t)
      PROVE  TimerInv' /\ Service!Next
  <2>1. /\ MayCall /\ state[t] = "stopped" /\ state' = [state EXCEPT ![t] = "running"]
        /\ SetList(Inserted(t, reload[t] + 1, g_timer_list, count))
        /\ UNCHANGED <<reload, mode, delete_swtmr, handling, called>>
    BY <1>7 DEF StartTimer, tblVars
  <2>2. t \notin Runs(state) /\ reload[t] \in Periods
    BY <2>1 DEF Runs, PeriodInv
  <2>3. reload' = [reload EXCEPT ![t] = reload[t]]
    BY <2>1 DEF TimerInv
  <2>4. PICK n \in Periods : n = reload[t]
    BY <2>2
  <2>5. TimerInv' /\ Service!Start(t, n)
    BY <1>6, <2>1, <2>2, <2>3, <2>4, StartStep
  <2> QED BY <2>5 DEF Service!Next
<1>8. ASSUME NEW t \in Timer, NEW n \in Periods, RestartTimer(t, n)
      PROVE  TimerInv' /\ Service!Next
  <2> DEFINE r == IF state[t] = "running" THEN Removed(t, g_timer_list, count)
                  ELSE [list |-> g_timer_list, count |-> count]
  <2>1. /\ MayCall /\ state[t] # "free" /\ state' = [state EXCEPT ![t] = "running"]
        /\ SetList(Inserted(t, n + 1, r.list, r.count))
        /\ reload' = [reload EXCEPT ![t] = n]
        /\ UNCHANGED <<mode, delete_swtmr, handling, called>>
    BY <1>8 DEF RestartTimer
  <2>2. \/ t \in Runs(state) /\ r.list = Removed(t, g_timer_list, count).list
                             /\ r.count = Removed(t, g_timer_list, count).count
        \/ t \notin Runs(state) /\ r.list = g_timer_list /\ r.count = count
    BY DEF Runs
  <2> HIDE DEF r
  <2>3. TimerInv' /\ Service!Start(t, n)
    BY <1>6, <2>1, <2>2, StartStep
  <2> QED BY <2>3 DEF Service!Next
<1> QED BY <1>1, <1>2, <1>3, <1>4, <1>5, <1>7, <1>8 DEF Handler, Api

\* The initial state.
LEMMA TimerInitial == TimerInit => TimerInv /\ PeriodInv /\ Service!Init
<1> SUFFICES ASSUME TimerInit PROVE TimerInv /\ PeriodInv /\ Service!Init
  OBVIOUS
<1>1. Runs(state) = {} /\ g_timer_list = <<>> /\ count \in [Timer -> Nat]
  BY DEF TimerInit, Runs
<1>2. Lists(g_timer_list, Runs(state))
  BY <1>1 DEF Lists
<1>3. ListInv
  BY <1>1, <1>2 DEF ListInv
<1>4. handling \in BOOLEAN /\ delete_swtmr \in [Timer -> BOOLEAN]
  BY DEF TimerInit
<1>5. TimerInv
  BY <1>3, <1>4 DEF TimerInit, TimerInv
<1>6. PeriodInv
  BY DEF TimerInit, PeriodInv
<1>7. [t \in Timer |-> Remaining(t)] = [t \in Timer |-> 0]
  BY DEF TimerInit, Remaining
<1>8. Service!Init
  BY <1>7 DEF TimerInit, Service!Init
<1> QED BY <1>5, <1>6, <1>8

\* A step that changes nothing of SYSTIMER changes nothing of TimerService.
LEMMA TimerStutter ==
  ASSUME UNCHANGED timerVars
  PROVE  /\ TimerInv => TimerInv'
         /\ PeriodInv => PeriodInv'
         /\ UNCHANGED Service!vars
<1>1. UNCHANGED <<g_timer_list, count, state, reload, mode, delete_swtmr, handling, called>>
  BY DEF timerVars, tblVars
<1>2. Left' = Left
  BY <1>1 DEF Left, Remaining
<1> QED BY <1>1, <1>2 DEF TimerInv, ListInv, PeriodInv, Service!vars, Left

\* The list of running timers is always right: it has exactly the timers that
\* run, each once, and none is due unless the handler is at work.
THEOREM TimerListRight == TimerSpec => []TimerInv
<1>1. TimerInv /\ PeriodInv /\ [SysTick \/ Handler \/ Api]_timerVars => TimerInv' /\ PeriodInv'
  BY TimerStep, PeriodKept, TimerStutter
<1> QED BY <1>1, TimerInitial, PTL DEF TimerSpec

\* The delta list implements TimerService: for every number of timers and every
\* period, whatever callbacks start, stop, restart and delete, and whatever is
\* started while no timer runs, every timer expires at the very tick it is due,
\* exactly once.
THEOREM Refinement == TimerSpec => ImplementsService
<1>1. TimerInv /\ PeriodInv /\ [SysTick \/ Handler \/ Api]_timerVars
        => TimerInv' /\ PeriodInv' /\ [Service!Next]_(Service!vars)
  BY TimerStep, PeriodKept, TimerStutter
<1> QED BY <1>1, TimerInitial, PTL DEF TimerSpec, ImplementsService, Service!Spec
=============================================================================
