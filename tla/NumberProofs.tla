---------------------------- MODULE NumberProofs ----------------------------
(***************************************************************************)
(* Induction without an operator as parameter: over the set of numbers for *)
(* which something holds, by its smallest element (Least, Upward).  With   *)
(* it, what is defined step by step exists: the values of an iteration,    *)
(* and those of a fold of the community modules, which goes through the    *)
(* subsets of a domain from the greatest element downwards.  A step is a   *)
(* function here, so that the lemmas hold for any.                         *)
(***************************************************************************)
EXTENDS Naturals, FiniteSetsExt, WellFoundedInduction, TLAPS

(* A set of natural numbers that is not empty has a smallest element.      *)
LEMMA Least ==
  ASSUME NEW T \in SUBSET Nat, T # {} PROVE \E x \in T : \A y \in T : x <= y
<1> DEFINE R == {p \in Nat \X Nat : p[1] < p[2]}
<1>1. IsWellFoundedOn(R, Nat) BY NatLessThanWellFounded DEF OpToRel
<1> HIDE DEF R
<1>2. PICK x \in T : \A y \in T : <<y, x>> \notin R BY <1>1, WFMin
<1>3. ASSUME NEW y \in T PROVE x <= y
  <2>1. x \in Nat /\ y \in Nat OBVIOUS
  <2>2. ~(y < x) BY <1>2, <2>1 DEF R
  <2> QED BY <2>1, <2>2
<1> QED BY <1>3

(* A set with 0, and with the successors of what it has, has all numbers.  *)
LEMMA Upward ==
  ASSUME NEW n \in Nat, NEW T \in SUBSET (0 .. n), 0 \in T,
         \A m \in T : m < n => m + 1 \in T
  PROVE  n \in T
<1> DEFINE U == (0 .. n) \ T
<1> SUFFICES ASSUME n \notin T PROVE FALSE
  OBVIOUS
<1>1. U \in SUBSET Nat /\ U # {} OBVIOUS
<1>2. PICK u \in U : \A v \in U : u <= v
  <2> HIDE DEF U
  <2> QED BY <1>1, Least
<1>3. u # 0 /\ u - 1 \in 0 .. n /\ u - 1 < n /\ ~(u <= u - 1) OBVIOUS
<1>4. u - 1 \in T BY <1>2, <1>3
<1>5. (u - 1) + 1 \in T BY <1>3, <1>4
<1>6. (u - 1) + 1 = u OBVIOUS
<1> QED BY <1>5, <1>6

(* A set of natural numbers with a bound has a greatest element.           *)
LEMMA MaxOfBounded ==
  ASSUME NEW S \in SUBSET Nat, S # {}, NEW b \in Nat, \A y \in S : y <= b
  PROVE  Max(S) \in S /\ \A y \in S : y <= Max(S)
<1> DEFINE U == {u \in Nat : \A y \in S : y <= u}
<1>1. b \in U OBVIOUS
<1>2. PICK u \in U : \A v \in U : u <= v
  <2>1. U \in SUBSET Nat /\ U # {} BY <1>1
  <2> HIDE DEF U
  <2> QED BY <2>1, Least
<1>3. u \in S
  <2> SUFFICES ASSUME u \notin S PROVE FALSE
    OBVIOUS
  <2>1. ASSUME NEW y \in S PROVE y <= u - 1
    <3>1. y \in Nat /\ u \in Nat /\ y <= u /\ y # u OBVIOUS
    <3> QED BY <3>1
  <2>2. u - 1 \in Nat
    <3>1. PICK y \in S : TRUE OBVIOUS
    <3> QED BY <2>1, <3>1
  <2>3. u - 1 \in U BY <2>1, <2>2
  <2> QED BY <1>2, <2>2, <2>3
<1>4. \E x \in S : \A y \in S : x >= y BY <1>3
<1>5. Max(S) \in S /\ \A y \in S : Max(S) >= y BY <1>4 DEF Max
<1> QED BY <1>5

(* The smallest element is the one that Min chooses.                       *)
LEMMA MinOfNats ==
  ASSUME NEW S \in SUBSET Nat, S # {}
  PROVE  Min(S) \in S /\ \A y \in S : Min(S) <= y
BY Least DEF Min

(* The greatest number of a set that has its bound as an element.          *)
LEMMA MaxIsBound ==
  ASSUME NEW m \in Nat, NEW s \in SUBSET (1 .. m), m \in s
  PROVE  Max(s) = m
<1>1. m \in s /\ \A y \in s : m >= y OBVIOUS
<1>2. \A x \in s : (\A y \in s : x >= y) => x = m OBVIOUS
<1> QED BY <1>1, <1>2 DEF Max

(* A fold over the subsets of 1 .. n, from the greatest element downwards. *)
IsStep(F, n, A) == \A i \in 1 .. n, x \in A : F[<<i, x>>] \in A
IsFoldOf(g, F, n, a) ==
  g = [s \in SUBSET (1 .. n) |-> IF s = {} THEN a ELSE F[<<Max(s), g[s \ {Max(s)}]>>]]
StaysIn(g, n, A) == \A s \in SUBSET (1 .. n) : g[s] \in A

(* The fold of a step that stays in A exists, and has its values in A.     *)
LEMMA FoldExists ==
  ASSUME NEW n \in Nat, NEW A, NEW a \in A, NEW F, IsStep(F, n, A)
  PROVE  \E g : IsFoldOf(g, F, n, a) /\ StaysIn(g, n, A)
<1> USE DEF IsStep
<1> DEFINE IsFold(g, m) ==
      \A s \in SUBSET (1 .. m) : g[s] = IF s = {} THEN a ELSE F[<<Max(s), g[s \ {Max(s)}]>>]
<1> DEFINE T == {m \in 0 .. n : \E g \in [SUBSET (1 .. m) -> A] : IsFold(g, m)}
<1>1. T \in SUBSET (0 .. n) OBVIOUS
<1>2. 0 \in T
  <2>1. PICK g : g = [s \in SUBSET (1 .. 0) |-> a] OBVIOUS
  <2>2. g \in [SUBSET (1 .. 0) -> A] BY <2>1
  <2>3. \A s \in SUBSET (1 .. 0) : s = {} OBVIOUS
  <2>4. IsFold(g, 0) BY <2>1, <2>3
  <2>5. 0 \in 0 .. n OBVIOUS
  <2> HIDE DEF IsFold
  <2> QED BY <2>2, <2>4, <2>5, Zenon
<1>3. ASSUME NEW m \in T, m < n PROVE m + 1 \in T
  <2>1. PICK g \in [SUBSET (1 .. m) -> A] : IsFold(g, m) OBVIOUS
  <2>2. m \in 0 .. n /\ m + 1 \in 1 .. n /\ m + 1 \in 0 .. n /\ m + 1 \in Nat BY <1>3
  <2>3. ASSUME NEW s \in SUBSET (1 .. m + 1)
        PROVE s \ {m + 1} \in SUBSET (1 .. m)
    BY <2>2
  <2>4. PICK h : h = [s \in SUBSET (1 .. m + 1) |->
                        IF m + 1 \in s THEN F[<<m + 1, g[s \ {m + 1}]>>] ELSE g[s]]
    OBVIOUS
  <2>5. ASSUME NEW s \in SUBSET (1 .. m) PROVE s \in SUBSET (1 .. m + 1) /\ h[s] = g[s]
    <3>1. s \in SUBSET (1 .. m + 1) /\ m + 1 \notin s BY <2>2
    <3> QED BY <2>4, <3>1
  <2>6. ASSUME NEW s \in SUBSET (1 .. m + 1), m + 1 \notin s PROVE s \in SUBSET (1 .. m)
    BY <2>2, <2>6
  <2>7. h \in [SUBSET (1 .. m + 1) -> A]
    <3>1. ASSUME NEW s \in SUBSET (1 .. m + 1), m + 1 \in s
          PROVE  F[<<m + 1, g[s \ {m + 1}]>>] \in A
      <4>1. g[s \ {m + 1}] \in A BY <2>3
      <4> QED BY <2>2, <4>1
    <3>2. ASSUME NEW s \in SUBSET (1 .. m + 1), m + 1 \notin s PROVE g[s] \in A
      BY <2>6, <3>2
    <3> QED BY <2>4, <3>1, <3>2
  <2>8. ASSUME NEW s \in SUBSET (1 .. m + 1)
        PROVE  h[s] = IF s = {} THEN a ELSE F[<<Max(s), h[s \ {Max(s)}]>>]
    <3>1. CASE m + 1 \in s
      <4>1. Max(s) = m + 1 BY <2>2, <3>1, MaxIsBound
      <4>2. h[s] = F[<<m + 1, g[s \ {m + 1}]>>] BY <2>4, <3>1
      <4>3. h[s \ {m + 1}] = g[s \ {m + 1}] BY <2>3, <2>5
      <4> QED BY <3>1, <4>1, <4>2, <4>3
    <3>2. CASE m + 1 \notin s
      <4>1. s \in SUBSET (1 .. m) BY <2>6, <3>2
      <4>2. h[s] = g[s] /\ h[s \ {Max(s)}] = g[s \ {Max(s)}]
        <5>1. s \ {Max(s)} \in SUBSET (1 .. m) BY <4>1
        <5> QED BY <2>5, <4>1, <5>1
      <4>3. g[s] = IF s = {} THEN a ELSE F[<<Max(s), g[s \ {Max(s)}]>>] BY <2>1, <4>1
      <4> QED BY <4>2, <4>3
    <3> QED BY <3>1, <3>2
  <2>9. IsFold(h, m + 1) BY <2>8
  <2> HIDE DEF IsFold
  <2>10. \E f \in [SUBSET (1 .. m + 1) -> A] : IsFold(f, m + 1) BY <2>7, <2>9
  <2> QED BY <2>2, <2>10
<1> HIDE DEF T
<1>4. n \in T BY <1>1, <1>2, <1>3, Upward
<1>5. PICK g \in [SUBSET (1 .. n) -> A] : IsFold(g, n) BY <1>4 DEF T
<1>6. IsFoldOf(g, F, n, a) BY <1>5 DEF IsFoldOf
<1>7. StaysIn(g, n, A) BY <1>5 DEF StaysIn
<1> QED BY <1>6, <1>7

(* What holds of the starting value and is kept by each step holds of the  *)
(* fold.                                                                   *)
LEMMA FoldStays ==
  ASSUME NEW n \in Nat, NEW A, NEW h, h[{}] \in A,
         \A s \in SUBSET (1 .. n) :
           Max(s) \in 1 .. n /\ h[s \ {Max(s)}] \in A => h[s] \in A
  PROVE  h[1 .. n] \in A
<1> DEFINE T == {m \in 0 .. n : h[1 .. m] \in A}
<1>1. T \in SUBSET (0 .. n) OBVIOUS
<1>2. 0 \in T
  <2>1. 1 .. 0 = {} /\ 0 \in 0 .. n OBVIOUS
  <2> QED BY <2>1
<1>3. ASSUME NEW m \in T, m < n PROVE m + 1 \in T
  <2>1. m \in 0 .. n /\ m + 1 \in 0 .. n /\ m + 1 \in 1 .. n /\ m + 1 \in Nat BY <1>3
  <2>2. PICK s : s = 1 .. m + 1 OBVIOUS
  <2>3. s \in SUBSET (1 .. m + 1) /\ s \in SUBSET (1 .. n) /\ m + 1 \in s BY <2>1, <2>2
  <2>4. Max(s) = m + 1 BY <2>1, <2>3, MaxIsBound
  <2>5. s \ {m + 1} = 1 .. m BY <2>1, <2>2
  <2>6. h[s] \in A BY <2>1, <2>3, <2>4, <2>5
  <2> QED BY <2>1, <2>2, <2>6
<1> HIDE DEF T
<1>4. n \in T BY <1>1, <1>2, <1>3, Upward
<1> QED BY <1>4 DEF T

(* What holds of the starting value, and step by step of the values after  *)
(* it, with a set for each number of steps.                                *)
LEMMA FoldGoes ==
  ASSUME NEW n \in Nat, NEW A, NEW h, h[{}] \in A[0],
         \A m \in 0 .. n - 1 :
           /\ Max(1 .. m + 1) = m + 1 /\ (1 .. m + 1) \ {m + 1} = 1 .. m
           /\ h[1 .. m] \in A[m]
           => h[1 .. m + 1] \in A[m + 1]
  PROVE  h[1 .. n] \in A[n]
<1> DEFINE T == {m \in 0 .. n : h[1 .. m] \in A[m]}
<1>1. T \in SUBSET (0 .. n) OBVIOUS
<1>2. 0 \in T
  <2>1. 1 .. 0 = {} /\ 0 \in 0 .. n OBVIOUS
  <2> QED BY <2>1
<1>3. ASSUME NEW m \in T, m < n PROVE m + 1 \in T
  <2>1. m \in 0 .. n - 1 /\ m + 1 \in 0 .. n /\ m + 1 \in Nat /\ h[1 .. m] \in A[m] BY <1>3
  <2>2. PICK s : s = 1 .. m + 1 OBVIOUS
  <2>3. s \in SUBSET (1 .. m + 1) /\ m + 1 \in s /\ s \ {m + 1} = 1 .. m BY <2>1, <2>2
  <2>4. Max(s) = m + 1 BY <2>1, <2>3, MaxIsBound
  <2>5. h[1 .. m + 1] \in A[m + 1] BY <2>1, <2>2, <2>3, <2>4
  <2> QED BY <2>1, <2>5
<1> HIDE DEF T
<1>4. n \in T BY <1>1, <1>2, <1>3, Upward
<1> QED BY <1>4 DEF T

(* The greatest element of a set of indices is one of them.                *)
LEMMA MaxOfIndices ==
  ASSUME NEW n \in Nat, NEW s \in SUBSET (1 .. n), s # {}
  PROVE  Max(s) \in s
<1>1. s \in SUBSET Nat /\ \A y \in s : y <= n OBVIOUS
<1> QED BY <1>1, MaxOfBounded
=============================================================================
