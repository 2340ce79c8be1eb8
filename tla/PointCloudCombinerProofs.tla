---------------------- MODULE PointCloudCombinerProofs ----------------------
(***************************************************************************)
(* Proofs of the properties of PointCloudCombiner, for every number of     *)
(* cameras and of IMUs, all stamps and all finite sets of rings.           *)
(*                                                                         *)
(* Maximum and ring offsets are defined by CHOOSE: that what they choose   *)
(* exists is shown by induction on the set of numbers for which it does    *)
(* (Upward of NumberProofs).                                               *)
(***************************************************************************)
EXTENDS PointCloudCombiner, NumberProofs, FiniteSetTheorems

-----------------------------------------------------------------------------
(* Lemmas about numbers and sets.                                          *)

(* Finitely many natural numbers have a bound.                             *)
LEMMA Bounded ==
  ASSUME NEW n \in Nat, NEW f \in [1 .. n -> Nat]
  PROVE  \E b \in Nat : \A i \in 1 .. n : f[i] <= b
<1> DEFINE T == {m \in 0 .. n : \E b \in Nat : \A i \in 1 .. m : f[i] <= b}
<1>1. T \in SUBSET (0 .. n) OBVIOUS
<1>2. 0 \in T
  <2>1. \A i \in 1 .. 0 : f[i] <= 0 OBVIOUS
  <2>2. \E b \in Nat : \A i \in 1 .. 0 : f[i] <= b BY <2>1
  <2> QED BY <2>2
<1>3. ASSUME NEW m \in T, m < n PROVE m + 1 \in T
  <2>1. PICK b \in Nat : \A i \in 1 .. m : f[i] <= b OBVIOUS
  <2>2. m \in 0 .. n /\ m + 1 \in 1 .. n /\ m + 1 \in 0 .. n BY <1>3
  <2>3. f[m + 1] \in Nat BY <2>2
  <2>4. ASSUME NEW i \in 1 .. m + 1 PROVE f[i] <= b + f[m + 1]
    <3>1. i \in 1 .. n /\ f[i] \in Nat BY <2>2
    <3>2. CASE i = m + 1 BY <2>3, <3>2
    <3>3. CASE i # m + 1
      <4>1. i \in 1 .. m BY <2>2, <3>3
      <4>2. f[i] <= b BY <2>1, <4>1
      <4> QED BY <2>3, <3>1, <4>2
    <3> QED BY <3>2, <3>3
  <2>5. b + f[m + 1] \in Nat BY <2>3
  <2>6. \E d \in Nat : \A i \in 1 .. m + 1 : f[i] <= d BY <2>4, <2>5
  <2> QED BY <2>2, <2>6
<1> HIDE DEF T
<1>4. n \in T BY <1>1, <1>2, <1>3, Upward
<1> QED BY <1>4 DEF T

(* A finite set of natural numbers has a greatest element.                 *)
LEMMA MaxOfNats ==
  ASSUME NEW S \in SUBSET Nat, IsFiniteSet(S), S # {}
  PROVE  Max(S) \in S /\ \A y \in S : y <= Max(S)
<1>1. PICK n \in Nat : ExistsSurjection(1 .. n, S) BY FS_NatSurjection
<1>2. PICK f \in Surjection(1 .. n, S) : TRUE BY <1>1 DEF ExistsSurjection
<1>3. f \in [1 .. n -> Nat] /\ \A y \in S : \E i \in 1 .. n : f[i] = y
  BY <1>2 DEF Surjection
<1>4. PICK b \in Nat : \A i \in 1 .. n : f[i] <= b BY <1>3, Bounded
<1>5. \A y \in S : y <= b BY <1>3, <1>4
<1> QED BY <1>5, MaxOfBounded

(* What finitely many cameras have is a finite set.                        *)
LEMMA FiniteImage ==
  ASSUME NEW n \in Nat, NEW P \in SUBSET (1 .. n), NEW f
  PROVE  IsFiniteSet({f[i] : i \in P})
<1>1. PICK g : g = [i \in 1 .. n |-> f[i]] OBVIOUS
<1> DEFINE S == {f[i] : i \in 1 .. n}
<1>2. g \in Surjection(1 .. n, S) BY <1>1 DEF Surjection
<1>3. IsFiniteSet(S) BY <1>2, FS_NatSurjection DEF ExistsSurjection
<1>4. {f[i] : i \in P} \in SUBSET S OBVIOUS
<1> QED BY <1>3, <1>4, FS_Subset

(* The sums of the first numbers of a sequence, as a function.             *)
IsSum(f, m, c) == \A i \in 1 .. m : f[i] = IF i = 1 THEN 0 ELSE f[i - 1] + c[i - 1]

(* They exist.                                                             *)
LEMMA SumExists ==
  ASSUME NEW n \in Nat, NEW c \in [1 .. n -> Nat]
  PROVE  \E f \in [1 .. n -> Nat] : IsSum(f, n, c)
<1> DEFINE T == {m \in 0 .. n : \E f \in [1 .. m -> Nat] : IsSum(f, m, c)}
<1>1. T \in SUBSET (0 .. n) OBVIOUS
<1>2. 0 \in T
  <2>1. [i \in 1 .. 0 |-> 0] \in [1 .. 0 -> Nat] OBVIOUS
  <2>2. \A f : IsSum(f, 0, c)
    <3>1. \A i \in 1 .. 0 : FALSE OBVIOUS
    <3> QED BY <3>1 DEF IsSum
  <2>3. \E f \in [1 .. 0 -> Nat] : IsSum(f, 0, c) BY <2>1, <2>2
  <2>4. 0 \in 0 .. n OBVIOUS
  <2> QED BY <2>3, <2>4, Zenon
<1>3. ASSUME NEW m \in T, m < n PROVE m + 1 \in T
  <2>1. PICK f \in [1 .. m -> Nat] : IsSum(f, m, c) OBVIOUS
  <2>2. m \in 0 .. n /\ m + 1 \in 1 .. n /\ m + 1 \in 0 .. n BY <1>3
  <2>3. PICK s \in Nat : s = IF m = 0 THEN 0 ELSE f[m] + c[m]
    <3>1. CASE m = 0 BY <3>1
    <3>2. CASE m # 0
      <4>1. m \in 1 .. m /\ m \in 1 .. n BY <2>2, <3>2
      <4>2. f[m] \in Nat /\ c[m] \in Nat BY <4>1
      <4> QED BY <3>2, <4>2
    <3> QED BY <3>1, <3>2
  <2>4. PICK g : g = [i \in 1 .. m + 1 |-> IF i = m + 1 THEN s ELSE f[i]] OBVIOUS
  <2>5. g \in [1 .. m + 1 -> Nat]
    <3>1. ASSUME NEW i \in 1 .. m + 1, i # m + 1 PROVE f[i] \in Nat
      <4>1. i \in 1 .. m BY <2>2, <3>1
      <4> QED BY <4>1
    <3> QED BY <2>4, <3>1
  <2>6. ASSUME NEW i \in 1 .. m + 1
        PROVE g[i] = IF i = 1 THEN 0 ELSE g[i - 1] + c[i - 1]
    <3>1. CASE i = m + 1
      <4>1. g[i] = s BY <2>4, <3>1
      <4>2. i # 1 => m # 0 /\ i - 1 = m /\ i - 1 \in 1 .. m + 1 /\ i - 1 # m + 1
        BY <2>2, <3>1
      <4>3. i # 1 => g[i - 1] = f[m] BY <2>4, <4>2
      <4>4. i = 1 => m = 0 BY <2>2, <3>1
      <4> QED BY <2>3, <4>1, <4>2, <4>3, <4>4
    <3>2. CASE i # m + 1
      <4>1. i \in 1 .. m BY <2>2, <3>2
      <4>2. g[i] = f[i] BY <2>4, <3>2
      <4>3. f[i] = IF i = 1 THEN 0 ELSE f[i - 1] + c[i - 1] BY <2>1, <4>1 DEF IsSum
      <4>4. i # 1 => i - 1 \in 1 .. m + 1 /\ i - 1 # m + 1 BY <2>2, <4>1
      <4>5. i # 1 => g[i - 1] = f[i - 1] BY <2>4, <4>4
      <4> QED BY <4>2, <4>3, <4>5
    <3> QED BY <3>1, <3>2
  <2>7. IsSum(g, m + 1, c) BY <2>6 DEF IsSum
  <2>8. \E h \in [1 .. m + 1 -> Nat] : IsSum(h, m + 1, c) BY <2>5, <2>7
  <2> QED BY <2>2, <2>8
<1> HIDE DEF T
<1>4. n \in T BY <1>1, <1>2, <1>3, Upward
<1> QED BY <1>4 DEF T

(* The sum in front of a later camera counts the earlier one in.           *)
LEMMA SumGrows ==
  ASSUME NEW n \in Nat, NEW c \in [1 .. n -> Nat], NEW f \in [1 .. n -> Nat], IsSum(f, n, c),
         NEW i \in 1 .. n, NEW j \in i + 1 .. n
  PROVE  f[i] + c[i] <= f[j]
<1> DEFINE T == {m \in 0 .. j : m > i => f[i] + c[i] <= f[m]}
<1>1. T \in SUBSET (0 .. j) /\ 0 \in T /\ j \in Nat OBVIOUS
<1>2. ASSUME NEW m \in T, m < j PROVE m + 1 \in T
  <2>1. m \in 0 .. j /\ m + 1 \in 0 .. j /\ m + 1 \in 1 .. n /\ (m + 1) - 1 = m BY <1>2
  <2>2. ASSUME m + 1 > i PROVE f[i] + c[i] <= f[m + 1]
    <3>1. m \in 1 .. n /\ m >= i /\ m + 1 # 1 BY <2>1, <2>2
    <3>2. f[m + 1] = f[m] + c[m] BY <2>1, <3>1 DEF IsSum
    <3>3. f[m] \in Nat /\ c[m] \in Nat /\ f[i] \in Nat /\ c[i] \in Nat BY <3>1
    <3>4. CASE m = i
      <4>1. f[m + 1] = f[i] + c[i] BY <3>2, <3>4
      <4> QED BY <3>3, <4>1
    <3>5. CASE m # i
      <4>1. m > i BY <3>1, <3>5
      <4>2. f[i] + c[i] <= f[m] BY <4>1
      <4> QED BY <3>2, <3>3, <4>2
    <3> QED BY <3>4, <3>5
  <2> QED BY <2>1, <2>2
<1> HIDE DEF T
<1>3. j \in T BY <1>1, <1>2, Upward
<1> QED BY <1>3 DEF T

-----------------------------------------------------------------------------
(* Lemmas about the operators of PointCloudCombiner.                       *)

(* The highest ring of a cloud, or 0.                                      *)
LEMMA TopRing ==
  ASSUME NEW c \in Cloud
  PROVE  Max(c.rings \cup {0}) \in Nat /\ \A r \in c.rings : r \in Nat /\ r <= Max(c.rings \cup {0})
<1>1. c.rings \in Rings BY DEF Cloud
<1>2. c.rings \subseteq Nat /\ IsFiniteSet(c.rings) BY <1>1, RingsAssumption, WidthAssumption
<1>3. IsFiniteSet(c.rings \cup {0}) BY <1>2, FS_AddElement
<1>4. c.rings \cup {0} \in SUBSET Nat /\ c.rings \cup {0} # {} BY <1>2
<1> HIDE DEF Max
<1> QED BY <1>2, <1>3, <1>4, MaxOfNats

(* ring_offset in front of each camera, and how many rings it has.         *)
LEMMA Offsets ==
  ASSUME layout \in [Cam -> Layouts], NEW cs \in [Cam -> Cloud]
  PROVE  /\ RingOffset(cs) \in [Cam -> Nat]
         /\ \A i \in Cam : RingCount(i, cs) \in Nat
         /\ \A i, j \in Cam : i < j => RingOffset(cs)[i] + RingCount(i, cs) <= RingOffset(cs)[j]
<1>0. NCam \in Nat /\ Cam = 1 .. NCam BY CountAssumption DEF Cam
<1>1. ASSUME NEW i \in Cam PROVE RingCount(i, cs) \in Nat
  <2>1. Max(cs[i].rings \cup {0}) \in Nat BY TopRing
  <2> QED BY <2>1 DEF RingCount
<1>2. PICK c : c = [i \in Cam |-> RingCount(i, cs)] OBVIOUS
<1>3. c \in [1 .. NCam -> Nat] BY <1>0, <1>1, <1>2
<1>4. PICK f \in [1 .. NCam -> Nat] : IsSum(f, NCam, c) BY <1>0, <1>3, SumExists
<1> DEFINE Def(g) == [i \in Cam |-> IF i = 1 THEN 0 ELSE g[i - 1] + RingCount(i - 1, cs)]
<1>5. ASSUME NEW i \in Cam, i # 1 PROVE i - 1 \in Cam BY <1>0, <1>5
<1>6. f = Def(f)
  <2>1. ASSUME NEW i \in Cam
        PROVE f[i] = IF i = 1 THEN 0 ELSE f[i - 1] + RingCount(i - 1, cs)
    <3>1. f[i] = IF i = 1 THEN 0 ELSE f[i - 1] + c[i - 1] BY <1>0, <1>4 DEF IsSum
    <3>2. i # 1 => c[i - 1] = RingCount(i - 1, cs) BY <1>2, <1>5
    <3> QED BY <3>1, <3>2
  <2> QED BY <1>0, <2>1
<1>7. RingOffset(cs) = Def(RingOffset(cs))
  <2>1. RingOffset(cs) = CHOOSE g : g = Def(g) BY DEF RingOffset
  <2>2. \E g : g = Def(g) BY <1>6
  <2> HIDE DEF Def
  <2> QED BY <2>1, <2>2
<1>8. PICK o : o = RingOffset(cs) OBVIOUS
<1>9. o = Def(o) BY <1>7, <1>8
<1>10. ASSUME NEW i \in Cam
       PROVE  o[i] = IF i = 1 THEN 0 ELSE o[i - 1] + RingCount(i - 1, cs)
  BY <1>9
<1>11. ASSUME NEW i \in Cam PROVE o[i] \in Nat
  <2> DEFINE T == {m \in 0 .. i : m > 0 => o[m] \in Nat}
  <2>1. T \in SUBSET (0 .. i) /\ 0 \in T /\ i \in Nat BY <1>0
  <2>2. ASSUME NEW m \in T, m < i PROVE m + 1 \in T
    <3>1. m \in 0 .. i /\ m + 1 \in 0 .. i /\ m + 1 \in Cam /\ (m + 1) - 1 = m
      BY <1>0, <2>2
    <3>2. o[m + 1] = IF m + 1 = 1 THEN 0 ELSE o[(m + 1) - 1] + RingCount((m + 1) - 1, cs)
      BY <1>10, <3>1
    <3>3. o[m + 1] \in Nat
      <4>1. CASE m = 0 BY <3>2, <4>1
      <4>2. CASE m # 0
        <5>1. o[m + 1] = o[m] + RingCount(m, cs)
          <6> HIDE DEF T
          <6> QED BY <3>1, <3>2, <4>2
        <5>2. m \in Cam /\ m > 0 BY <1>0, <3>1, <4>2
        <5>3. o[m] \in Nat BY <5>2
        <5>4. RingCount(m, cs) \in Nat BY <1>1, <5>2
        <5> QED BY <5>1, <5>3, <5>4
      <4> QED BY <4>1, <4>2
    <3> QED BY <3>1, <3>3
  <2> HIDE DEF T
  <2>3. i \in T BY <2>1, <2>2, Upward
  <2> QED BY <1>0, <2>3 DEF T
<1>12. o \in [1 .. NCam -> Nat]
  <2>1. o = [i \in Cam |-> o[i]] BY <1>9
  <2> QED BY <1>0, <1>11, <2>1
<1>13. IsSum(o, NCam, c)
  <2>1. ASSUME NEW i \in 1 .. NCam
        PROVE  o[i] = IF i = 1 THEN 0 ELSE o[i - 1] + c[i - 1]
    <3>1. i \in Cam BY <1>0
    <3>2. i # 1 => c[i - 1] = RingCount(i - 1, cs) BY <1>2, <1>5, <3>1
    <3> QED BY <1>10, <3>1, <3>2
  <2> QED BY <2>1 DEF IsSum
<1>14. ASSUME NEW i \in Cam, NEW j \in Cam, i < j PROVE o[i] + RingCount(i, cs) <= o[j]
  <2>1. i \in 1 .. NCam /\ j \in i + 1 .. NCam BY <1>0, <1>14
  <2>2. o[i] + c[i] <= o[j] BY <1>0, <1>3, <1>12, <1>13, <2>1, SumGrows
  <2>3. c[i] = RingCount(i, cs) BY <1>2
  <2> QED BY <2>2, <2>3
<1> QED BY <1>0, <1>1, <1>8, <1>12, <1>14

-----------------------------------------------------------------------------
(* The type invariant.                                                     *)

(* The combined stamp is one of those combined, and none of them is newer. *)
LEMMA StampOfParts ==
  ASSUME layout \in [Cam -> Layouts], NEW cs \in [Cam -> Cloud]
  PROVE  /\ \E i \in Parts : CombinedStamp(cs) = cs[i].stamp
         /\ \A i \in Parts : cs[i].stamp <= CombinedStamp(cs)
<1>1. NCam \in Nat /\ Cam = 1 .. NCam /\ 1 \in Cam BY CountAssumption DEF Cam
<1>2. 1 \in Parts /\ Parts \in SUBSET (1 .. NCam) BY <1>1 DEF Parts
<1>3. ASSUME NEW i \in Cam PROVE cs[i].stamp \in Nat BY StampAssumption DEF Cloud
<1>4. PICK f : f = [i \in 1 .. NCam |-> cs[i].stamp] OBVIOUS
<1>5. IsFiniteSet({f[i] : i \in Parts}) BY <1>1, <1>2, FiniteImage
<1>6. PICK S : S = {cs[i].stamp : i \in Parts} OBVIOUS
<1>7. S = {f[i] : i \in Parts} BY <1>2, <1>4, <1>6
<1>8. S \in SUBSET Nat /\ IsFiniteSet(S) /\ S # {} BY <1>1, <1>2, <1>3, <1>5, <1>6, <1>7
<1>9. CombinedStamp(cs) = Max(S) BY <1>6 DEF CombinedStamp
<1>10. Max(S) \in S /\ \A y \in S : y <= Max(S) BY <1>8, MaxOfNats
<1> QED BY <1>6, <1>9, <1>10

(* Clouds in tolerance are clouds of every camera.                         *)
LEMMA AllFilled ==
  ASSUME NEW cs \in [Cam -> Cloud \cup {None}], CloudsInTolerance(cs)
  PROVE  cs \in [Cam -> Cloud]
<1>1. ASSUME NEW i \in Cam PROVE cs[i] # None
  BY DEF CloudsInTolerance, InTolerance
<1> QED BY <1>1

(* What is combined is a combination, and thus not None.                   *)
LEMMA CombinedType ==
  ASSUME layout \in [Cam -> Layouts], NEW cs \in [Cam -> Cloud], NEW tfs \in [Cam -> Calibration]
  PROVE  Combined(cs, tfs) \in Combination /\ Combined(cs, tfs) # None
<1>1. CombinedStamp(cs) \in Stamp
  <2>1. PICK i \in Parts : CombinedStamp(cs) = cs[i].stamp BY StampOfParts
  <2>2. i \in Cam BY DEF Parts
  <2> QED BY <2>1, <2>2 DEF Cloud
<1>2. Parts \in SUBSET Cam BY DEF Parts
<1>3. CombinedRings(cs) \in [Parts -> SUBSET Nat]
  <2>1. PICK o : o = RingOffset(cs) OBVIOUS
  <2>2. o \in [Cam -> Nat] BY <2>1, Offsets
  <2>3. ASSUME NEW i \in Parts PROVE {(r + o[i]) % 2^RingWidth : r \in cs[i].rings} \in SUBSET Nat
    <3>1. i \in Cam BY <1>2
    <3>2. o[i] \in Nat /\ cs[i] \in Cloud BY <2>2, <3>1
    <3>3. \A r \in cs[i].rings : r \in Nat BY <3>2, TopRing
    <3>4. \A r \in Nat : (r + o[i]) % 2^RingWidth \in Nat BY <3>2, WidthAssumption
    <3> QED BY <3>3, <3>4
  <2>4. CombinedRings(cs) = [i \in Parts |-> {(r + o[i]) % 2^RingWidth : r \in cs[i].rings}]
    BY <2>1 DEF CombinedRings
  <2> QED BY <2>3, <2>4
<1>4. CombinedRings(cs) \in UNION {[p -> SUBSET Nat] : p \in SUBSET Cam} BY <1>2, <1>3
<1>5. Combined(cs, tfs) \in Combination
  BY <1>1, <1>2, <1>4 DEF Combined, Combination
<1> QED BY <1>5, NoneAssumption

(* Looking up transforms keeps those that are there.                       *)
LEMMA Lookup ==
  ASSUME transforms \in [Cam -> Calibration \cup {None}], tree \in [Cam -> Calibration \cup {None}]
  PROVE  /\ TransformsAfterLookup \in [Cam -> Calibration \cup {None}]
         /\ \A i \in Cam : transforms[i] # None => TransformsAfterLookup[i] = transforms[i]
         /\ (\A i \in Cam : Known(i)) => TransformsAfterLookup \in [Cam -> Calibration]
<1>1. TransformsAfterLookup \in [Cam -> Calibration \cup {None}] BY DEF TransformsAfterLookup
<1>2. \A i \in Cam : transforms[i] # None => TransformsAfterLookup[i] = transforms[i]
  BY DEF TransformsAfterLookup
<1>3. ASSUME \A i \in Cam : Known(i), NEW i \in Cam
      PROVE  TransformsAfterLookup[i] \in Calibration
  <2>1. \A j \in 1 .. i : j \in Cam BY CountAssumption DEF Cam
  <2>2. \A j \in 1 .. i : Known(j) BY <1>3, <2>1
  <2> QED BY <1>3, <2>2 DEF TransformsAfterLookup, Known
<1> QED BY <1>1, <1>2, <1>3

-----------------------------------------------------------------------------
(* Tolerance.                                                              *)

(* Comparing with the newest compares every two.                           *)
LEMMA Pairs ==
  ASSUME NEW n \in Nat, NEW f, \A i \in 1 .. n : f[i] \in Nat \cup {None}, NEW tol \in Nat
  PROVE  InTolerance({f[i] : i \in 1 .. n}, tol)
           => \A i, j \in 1 .. n : f[i] \in Nat /\ f[j] \in Nat /\ f[i] <= f[j] + tol
<1> SUFFICES ASSUME InTolerance({f[i] : i \in 1 .. n}, tol), NEW i \in 1 .. n, NEW j \in 1 .. n
             PROVE  f[i] \in Nat /\ f[j] \in Nat /\ f[i] <= f[j] + tol
  OBVIOUS
<1>1. PICK S : S = {f[k] : k \in 1 .. n} OBVIOUS
<1>2. None \notin S /\ \A s \in S : Max(S) <= s + tol BY <1>1 DEF InTolerance
<1>3. f[i] \in S /\ f[j] \in S BY <1>1
<1>4. S \in SUBSET Nat BY <1>1, <1>2
<1>5. IsFiniteSet(S)
  <2>1. PICK P \in SUBSET (1 .. n) : P = 1 .. n OBVIOUS
  <2>2. IsFiniteSet({f[k] : k \in P}) BY FiniteImage
  <2> QED BY <1>1, <2>1, <2>2
<1>6. Max(S) \in S /\ f[i] <= Max(S) BY <1>3, <1>4, <1>5, MaxOfNats
<1>7. Max(S) <= f[j] + tol BY <1>2, <1>3
<1>8. Max(S) \in Nat /\ f[i] \in Nat /\ f[j] \in Nat BY <1>3, <1>4, <1>6
<1> QED BY <1>6, <1>7, <1>8

(* And the other way round: every two in tolerance, all in tolerance.      *)
LEMMA AllPairs ==
  ASSUME NEW n \in Nat \ {0}, NEW f, NEW tol \in Nat,
         \A i, j \in 1 .. n : f[i] \in Nat /\ f[i] <= f[j] + tol
  PROVE  InTolerance({f[i] : i \in 1 .. n}, tol)
<1>1. PICK S : S = {f[k] : k \in 1 .. n} OBVIOUS
<1>2. S \in SUBSET Nat /\ S # {}
  <2>1. 1 \in 1 .. n OBVIOUS
  <2> QED BY <1>1, <2>1
<1>3. IsFiniteSet(S)
  <2>1. PICK P \in SUBSET (1 .. n) : P = 1 .. n OBVIOUS
  <2>2. IsFiniteSet({f[k] : k \in P}) BY FiniteImage
  <2> QED BY <1>1, <2>1, <2>2
<1>4. Max(S) \in S BY <1>2, <1>3, MaxOfNats
<1>5. None \notin S BY <1>2, NoneAssumption
<1>6. \A s \in S : Max(S) <= s + tol BY <1>1, <1>4
<1> QED BY <1>1, <1>5, <1>6 DEF InTolerance

(* The clouds of a combination are in step with each other.                *)
LEMMA CloudPairs ==
  ASSUME NEW cs \in [Cam -> Cloud \cup {None}], CloudsInTolerance(cs)
  PROVE  \A i, j \in Cam : cs[i].stamp <= cs[j].stamp + SYNC_TOLERANCE_MS
<1>1. NCam \in Nat /\ Cam = 1 .. NCam BY CountAssumption DEF Cam
<1>2. cs \in [Cam -> Cloud] BY AllFilled
<1>3. PICK f : f = [i \in Cam |-> IF cs[i] = None THEN None ELSE cs[i].stamp] OBVIOUS
<1>4. \A i \in Cam : f[i] \in Nat \cup {None} BY <1>2, <1>3, StampAssumption DEF Cloud
<1>5. InTolerance({f[i] : i \in 1 .. NCam}, SYNC_TOLERANCE_MS)
  <2>1. {IF cs[i] = None THEN None ELSE cs[i].stamp : i \in Cam} = {f[i] : i \in 1 .. NCam}
    BY <1>1, <1>3
  <2> QED BY <2>1 DEF CloudsInTolerance
<1>6. SYNC_TOLERANCE_MS \in Nat BY DEF SYNC_TOLERANCE_MS
<1>7. \A i, j \in Cam : f[i] \in Nat /\ f[i] <= f[j] + SYNC_TOLERANCE_MS
  BY <1>1, <1>4, <1>5, <1>6, Pairs
<1>8. \A i \in Cam : f[i] = cs[i].stamp
  <2>1. \A i \in Cam : f[i] # None BY <1>7, NoneAssumption
  <2> QED BY <1>3, <2>1
<1> QED BY <1>7, <1>8

(* Clouds of all cameras that are in step with each other are in tolerance. *)
LEMMA PairedClouds ==
  ASSUME NEW cs \in [Cam -> Cloud \cup {None}], \A i \in Cam : cs[i] # None,
         \A i, j \in Cam : cs[i].stamp <= cs[j].stamp + SYNC_TOLERANCE_MS
  PROVE  CloudsInTolerance(cs)
<1>1. NCam \in Nat \ {0} /\ Cam = 1 .. NCam BY CountAssumption DEF Cam
<1>2. PICK f : f = [i \in Cam |-> IF cs[i] = None THEN None ELSE cs[i].stamp] OBVIOUS
<1>3. \A i \in Cam : f[i] = cs[i].stamp /\ f[i] \in Nat BY <1>2, StampAssumption DEF Cloud
<1>4. SYNC_TOLERANCE_MS \in Nat BY DEF SYNC_TOLERANCE_MS
<1>5. \A i, j \in 1 .. NCam : f[i] \in Nat /\ f[i] <= f[j] + SYNC_TOLERANCE_MS
  BY <1>1, <1>3
<1>6. InTolerance({f[i] : i \in 1 .. NCam}, SYNC_TOLERANCE_MS)
  BY <1>1, <1>4, <1>5, AllPairs
<1>7. {IF cs[i] = None THEN None ELSE cs[i].stamp : i \in Cam} = {f[i] : i \in 1 .. NCam}
  BY <1>1, <1>2
<1> QED BY <1>6, <1>7 DEF CloudsInTolerance

-----------------------------------------------------------------------------
(* The inductive invariant.                                                *)

(* The latest stamp is that of a cloud still there, or of one before it.   *)
OrderInv == sent # None => \E i \in Parts : clouds[i] # None /\ sent <= clouds[i].stamp

IInv == TypeOK /\ OrderInv /\ InStep /\ RingsApart

(* What a step that publishes publishes, and what it leaves behind.        *)
LEMMA Published ==
  ASSUME IInv, NEW i \in Cam, NEW c \in Cloud, OnPointCloud(i, c), Ready(clouds')
  PROVE  \E cs \in [Cam -> Cloud], tfs \in [Cam -> Calibration] :
           /\ clouds' = cs /\ transforms' = tfs /\ CloudsInTolerance(cs)
           /\ out' = Combined(cs, tfs) /\ out' # None /\ out' \in Combination
           /\ sent' = CombinedStamp(cs)
<1>1. PICK cs : cs = clouds' OBVIOUS
<1>2. cs \in [Cam -> Cloud \cup {None}] BY <1>1 DEF IInv, TypeOK, OnPointCloud
<1>3. CloudsInTolerance(cs) /\ \A j \in Cam : Known(j) BY <1>1 DEF Ready
<1>4. cs \in [Cam -> Cloud] BY <1>2, <1>3, AllFilled
<1>5. PICK tfs : tfs = TransformsAfterLookup OBVIOUS
<1>6. tfs \in [Cam -> Calibration] BY <1>3, <1>5, Lookup DEF IInv, TypeOK
<1>7. transforms' = tfs BY <1>1, <1>3, <1>5 DEF OnPointCloud
<1>8. out' = Combined(cs, tfs) BY <1>1, <1>7 DEF OnPointCloud
<1>9. Combined(cs, tfs) \in Combination /\ Combined(cs, tfs) # None
  BY <1>4, <1>6, CombinedType DEF IInv, TypeOK
<1>10. sent' = CombinedStamp(cs)
  <2>1. sent' = out'.stamp BY <1>8, <1>9 DEF OnPointCloud
  <2> QED BY <1>8, <2>1 DEF Combined
<1> QED BY <1>1, <1>3, <1>4, <1>6, <1>7, <1>8, <1>9, <1>10

(* A combined cloud keeps the rings of its cameras apart if they fit.      *)
LEMMA RingsOfCombined ==
  ASSUME layout \in [Cam -> Layouts], NEW cs \in [Cam -> Cloud], layout[1] = "XYZITR",
         RingsFit(cs),
         NEW i \in Parts, NEW j \in Parts, i # j
  PROVE  CombinedRings(cs)[i] \cap CombinedRings(cs)[j] = {}
<1>1. PICK o : o = RingOffset(cs) OBVIOUS
<1>2. o \in [Cam -> Nat] BY <1>1, Offsets
<1>3. \A k \in Parts : k \in Cam /\ layout[k] = "XYZITR" BY DEF Parts
<1>4. \A k \in Parts : CombinedRings(cs)[k] = {(r + o[k]) % 2^RingWidth : r \in cs[k].rings}
  BY <1>1 DEF CombinedRings
<1>5. Cam \in SUBSET Nat BY DEF Cam
<1>6. ASSUME NEW k \in Parts, NEW r \in cs[k].rings
      PROVE  /\ (r + o[k]) % 2^RingWidth = r + o[k] /\ r \in Nat /\ o[k] \in Nat
             /\ r + 1 <= RingCount(k, cs) /\ RingCount(k, cs) \in Nat
  <2>1. k \in Cam /\ o[k] \in Nat BY <1>2, <1>3
  <2>2. PICK m : m = Max(cs[k].rings \cup {0}) OBVIOUS
  <2>3. m \in Nat /\ r \in Nat /\ r <= m BY <2>1, <2>2, TopRing
  <2>4. RingCount(k, cs) = m + 1 BY <1>3, <2>2 DEF RingCount
  <2>5. o[k] + (m + 1) <= 2^RingWidth BY <1>1, <2>1, <2>4 DEF RingsFit
  <2>6. r + o[k] \in 0 .. 2^RingWidth - 1 BY <2>1, <2>3, <2>5, WidthAssumption
  <2>7. (r + o[k]) % 2^RingWidth = r + o[k] BY <2>6, WidthAssumption
  <2> QED BY <2>1, <2>3, <2>4, <2>7
<1>10. ASSUME NEW k \in Parts, NEW l \in Parts, k < l,
              NEW r \in cs[k].rings, NEW s \in cs[l].rings
       PROVE  (r + o[k]) % 2^RingWidth # (s + o[l]) % 2^RingWidth
  <2>1. k \in Cam /\ l \in Cam BY <1>3
  <2>2. o[k] + RingCount(k, cs) <= o[l] BY <1>1, <1>10, <2>1, Offsets
  <2>3. /\ (r + o[k]) % 2^RingWidth = r + o[k] /\ r \in Nat /\ o[k] \in Nat
        /\ r + 1 <= RingCount(k, cs) /\ RingCount(k, cs) \in Nat BY <1>6
  <2>4. (s + o[l]) % 2^RingWidth = s + o[l] /\ s \in Nat /\ o[l] \in Nat BY <1>6
  <2>5. r + o[k] # s + o[l] BY <2>2, <2>3, <2>4
  <2> QED BY <2>3, <2>4, <2>5
<1>7. i < j \/ j < i
  <2>1. i \in Nat /\ j \in Nat BY <1>3, <1>5
  <2> QED BY <2>1
<1>8. CASE i < j BY <1>4, <1>8, <1>10
<1>9. CASE j < i BY <1>4, <1>9, <1>10
<1> QED BY <1>7, <1>8, <1>9

(* Init establishes the invariant.                                         *)
LEMMA InitIInv == Init => IInv
<1> SUFFICES ASSUME Init PROVE IInv
  OBVIOUS
<1>1. TypeOK BY DEF Init, TypeOK
<1>2. OrderInv /\ InStep /\ RingsApart BY DEF Init, OrderInv, InStep, RingsApart
<1> QED BY <1>1, <1>2 DEF IInv

(* A step that publishes nothing and moves no cloud back keeps it.         *)
LEMMA SilentStep ==
  ASSUME IInv, TypeOK', out' = None, imuOut' = None, sent' = sent, layout' = layout,
         \A i \in Cam : clouds[i] # None =>
           clouds'[i] # None /\ clouds'[i].stamp >= clouds[i].stamp
  PROVE  IInv'
<1>1. InStep' /\ RingsApart' BY DEF InStep, RingsApart
<1>2. Parts' = Parts /\ Parts \in SUBSET Cam BY DEF Parts
<1>3. OrderInv'
  <2> SUFFICES ASSUME sent' # None
               PROVE  \E i \in Parts : clouds'[i] # None /\ sent' <= clouds'[i].stamp
    BY <1>2 DEF OrderInv
  <2>1. PICK i \in Parts : clouds[i] # None /\ sent <= clouds[i].stamp BY DEF IInv, OrderInv
  <2>2. i \in Cam /\ clouds'[i] # None /\ clouds'[i].stamp >= clouds[i].stamp BY <1>2, <2>1
  <2>3. clouds[i].stamp \in Nat /\ clouds'[i].stamp \in Nat /\ sent \in Nat
    BY <2>1, <2>2, StampAssumption DEF IInv, TypeOK, Cloud
  <2> QED BY <2>1, <2>2, <2>3
<1> QED BY <1>1, <1>3 DEF IInv

(* A cloud that arrives is not older than the one it replaces.             *)
LEMMA NoCloudBack ==
  ASSUME TypeOK, NEW i \in Cam, NEW c \in Cloud, clouds[i] # None => c.stamp > clouds[i].stamp,
         clouds' = [clouds EXCEPT ![i] = c]
  PROVE  \A j \in Cam : clouds[j] # None =>
           clouds'[j] # None /\ clouds'[j].stamp >= clouds[j].stamp
<1> SUFFICES ASSUME NEW j \in Cam, clouds[j] # None
             PROVE  clouds'[j] # None /\ clouds'[j].stamp >= clouds[j].stamp
  OBVIOUS
<1>1. clouds[j].stamp \in Nat /\ c.stamp \in Nat BY StampAssumption DEF TypeOK, Cloud
<1>2. CASE i = j
  <2>1. clouds'[j] = c /\ c.stamp > clouds[j].stamp BY <1>2 DEF TypeOK
  <2>2. c # None BY NoneAssumption
  <2> QED BY <1>1, <2>1, <2>2
<1>3. CASE i # j
  <2>1. clouds'[j] = clouds[j] BY <1>3 DEF TypeOK
  <2> QED BY <1>1, <2>1
<1> QED BY <1>2, <1>3

(* A cloud that arrives keeps the invariant.                               *)
LEMMA CloudStep ==
  ASSUME IInv, NEW i \in Cam, CloudArrives(i)
  PROVE  IInv'
<1>1. PICK c \in Cloud : /\ clouds[i] # None => c.stamp > clouds[i].stamp
                         /\ OnPointCloud(i, c)
  BY DEF CloudArrives
<1>2. clouds' \in [Cam -> Cloud \cup {None}] BY <1>1 DEF IInv, TypeOK, OnPointCloud
<1>3. transforms' \in [Cam -> Calibration \cup {None}]
  <2>1. transforms' = TransformsAfterLookup \/ transforms' = transforms
    BY <1>1 DEF OnPointCloud
  <2> QED BY <2>1, Lookup DEF IInv, TypeOK
<1>4. /\ imus' = imus /\ tree' = tree /\ layout' = layout /\ imuOut' = None
  BY <1>1 DEF OnPointCloud, inputs
<1>5. \A j \in Cam : clouds[j] # None =>
        clouds'[j] # None /\ clouds'[j].stamp >= clouds[j].stamp
  BY <1>1, NoCloudBack DEF IInv, OnPointCloud
<1>6. CASE ~Ready(clouds')
  <2>1. out' = None /\ sent' = sent BY <1>1, <1>6 DEF OnPointCloud
  <2>2. TypeOK' BY <1>2, <1>3, <1>4, <2>1 DEF IInv, TypeOK
  <2> QED BY <1>4, <1>5, <2>1, <2>2, SilentStep
<1>7. CASE Ready(clouds')
  <2>1. PICK cs \in [Cam -> Cloud], tfs \in [Cam -> Calibration] :
           /\ clouds' = cs /\ transforms' = tfs /\ CloudsInTolerance(cs)
           /\ out' = Combined(cs, tfs) /\ out' # None /\ out' \in Combination
           /\ sent' = CombinedStamp(cs)
    BY <1>1, <1>7, Published
  <2>2. layout \in [Cam -> Layouts] BY DEF IInv, TypeOK
  <2>3. /\ out'.stamp = CombinedStamp(cs) /\ out'.parts = Parts /\ out'.of = cs
        /\ out'.rings = CombinedRings(cs)
    BY <2>1 DEF Combined
  <2>4. out'.stamp \in Stamp BY <2>1 DEF Combination
  <2>5. Parts' = Parts /\ Parts \in SUBSET Cam BY <1>4 DEF Parts
  <2>6. TypeOK'
    <3>1. sent' \in Stamp BY <2>1, <2>3, <2>4
    <3>2. out'.parts \subseteq Cam BY <2>3, <2>5
    <3> QED BY <1>2, <1>3, <1>4, <2>4, <3>1, <3>2 DEF IInv, TypeOK
  <2>7. OrderInv'
    <3>1. PICK j \in Parts : CombinedStamp(cs) = cs[j].stamp BY <2>2, StampOfParts
    <3>2. j \in Cam /\ cs[j] \in Cloud BY <2>5, <3>1
    <3>3. cs[j].stamp \in Nat BY <3>2, StampAssumption DEF Cloud
    <3>4. clouds'[j] # None BY <2>1, <3>2, NoneAssumption
    <3>5. sent' <= clouds'[j].stamp BY <2>1, <3>1, <3>3
    <3> QED BY <2>5, <3>1, <3>4, <3>5 DEF OrderInv
  <2>8. InStep'
    <3>1. \A j, k \in Cam : cs[j].stamp <= cs[k].stamp + SYNC_TOLERANCE_MS
      BY <2>1, CloudPairs
    <3> QED BY <1>4, <2>3, <3>1 DEF InStep
  <2>9. RingsApart'
    <3>1. layout[1] = "XYZITR" /\ RingsFit(cs) =>
            \A j, k \in Parts : j # k => CombinedRings(cs)[j] \cap CombinedRings(cs)[k] = {}
      BY <2>2, RingsOfCombined
    <3>2. RingsFit(out.of)' => RingsFit(cs)
      BY <1>4, <2>3 DEF RingsFit, RingOffset, RingCount
    <3> QED BY <1>4, <2>3, <3>1, <3>2 DEF RingsApart
  <2> QED BY <2>6, <2>7, <2>8, <2>9 DEF IInv
<1> QED BY <1>6, <1>7

(* An IMU sample that arrives keeps the invariant.                         *)
LEMMA ImuStep ==
  ASSUME IInv, NEW i \in Imu, ImuArrives(i)
  PROVE  IInv'
<1>1. PICK s \in ImuStamp : OnImu(i, s) BY DEF ImuArrives
<1>2. /\ out' = None /\ clouds' = clouds /\ transforms' = transforms /\ sent' = sent
      /\ tree' = tree /\ layout' = layout
  BY <1>1 DEF OnImu, inputs
<1>3. PICK ss : ss = imus' OBVIOUS
<1>4. ss \in [Imu -> ImuStamp \cup {None}] BY <1>1, <1>3 DEF OnImu, IInv, TypeOK
<1>5. ASSUME imuOut' # None
      PROVE  /\ imuOut'.stamp \in ImuStamp
             /\ \A j, k \in Imu : imuOut'.of[j] <= imuOut'.of[k] + IMU_SYNC_TOLERANCE_MS
  <2>1. /\ InTolerance({ss[j] : j \in Imu}, IMU_SYNC_TOLERANCE_MS)
        /\ imuOut' = [stamp |-> ss[1], of |-> ss, transforms |-> transforms]
    BY <1>1, <1>3, <1>5 DEF OnImu
  <2>2. imuOut'.stamp = ss[1] /\ imuOut'.of = ss BY <2>1
  <2>3. NImu \in Nat /\ Imu = 1 .. NImu BY CountAssumption DEF Imu
  <2>4. IMU_SYNC_TOLERANCE_MS \in Nat BY DEF IMU_SYNC_TOLERANCE_MS
  <2>5. \A j \in 1 .. NImu : ss[j] \in Nat \cup {None} BY <1>4, <2>3, StampAssumption
  <2>6. InTolerance({ss[j] : j \in 1 .. NImu}, IMU_SYNC_TOLERANCE_MS) BY <2>1, <2>3
  <2>7. \A j, k \in 1 .. NImu : ss[j] \in Nat /\ ss[j] <= ss[k] + IMU_SYNC_TOLERANCE_MS
    BY <2>3, <2>4, <2>5, <2>6, Pairs
  <2>8. i \in 1 .. NImu BY <2>3
  <2>9. 1 \in Imu BY <2>3, <2>8
  <2>10. ss[1] \in ImuStamp
    <3>1. ss[1] # None BY <2>3, <2>7, <2>9, NoneAssumption
    <3> QED BY <1>4, <2>9, <3>1
  <2> QED BY <2>2, <2>3, <2>7, <2>10
<1>6. TypeOK' BY <1>2, <1>3, <1>4, <1>5 DEF IInv, TypeOK
<1>7. InStep' BY <1>2, <1>5 DEF InStep
<1>8. RingsApart' BY <1>2 DEF RingsApart
<1>9. OrderInv' BY <1>2 DEF IInv, OrderInv, Parts
<1> QED BY <1>6, <1>7, <1>8, <1>9 DEF IInv

(* An announcement keeps the invariant.                                    *)
LEMMA AnnounceStep ==
  ASSUME IInv, NEW i \in Cam, Announce(i)
  PROVE  IInv'
<1>1. /\ out' = None /\ imuOut' = None /\ clouds' = clouds /\ imus' = imus /\ sent' = sent
      /\ transforms' = transforms /\ layout' = layout
  BY DEF Announce
<1>2. tree' \in [Cam -> Calibration \cup {None}] BY DEF Announce, IInv, TypeOK
<1>3. TypeOK' BY <1>1, <1>2 DEF IInv, TypeOK
<1>4. ASSUME NEW j \in Cam, clouds[j] # None
      PROVE  clouds'[j] # None /\ clouds'[j].stamp >= clouds[j].stamp
  <2>1. clouds[j].stamp \in Nat BY <1>4, StampAssumption DEF IInv, TypeOK, Cloud
  <2> QED BY <1>1, <1>4, <2>1
<1> QED BY <1>1, <1>3, <1>4, SilentStep

(* Every step keeps it.                                                    *)
LEMMA NextIInv == IInv /\ [Next]_vars => IInv'
<1> SUFFICES ASSUME IInv, [Next]_vars PROVE IInv'
  OBVIOUS
<1>1. ASSUME NEW i \in Cam, CloudArrives(i) PROVE IInv' BY <1>1, CloudStep
<1>2. ASSUME NEW i \in Cam, Announce(i) PROVE IInv' BY <1>2, AnnounceStep
<1>3. ASSUME NEW i \in Imu, ImuArrives(i) PROVE IInv' BY <1>3, ImuStep
<1>4. CASE UNCHANGED vars
  <2>1. TypeOK' BY <1>4 DEF IInv, TypeOK, vars, inputs
  <2>2. InStep' BY <1>4 DEF IInv, InStep, vars, inputs
  <2>4. RingsApart'
    <3>1. layout' = layout /\ out' = out BY <1>4 DEF vars
    <3>2. PICK cs : cs = out.of OBVIOUS
    <3>3. out'.of = cs BY <3>1, <3>2
    <3>4. RingsFit(out.of)' => RingsFit(cs) BY <3>1, <3>3 DEF RingsFit, RingOffset, RingCount
    <3> QED BY <3>1, <3>2, <3>4 DEF IInv, RingsApart
  <2>3. OrderInv' BY <1>4 DEF IInv, OrderInv, Parts, vars, inputs
  <2> QED BY <2>1, <2>2, <2>3, <2>4 DEF IInv
<1> QED BY <1>1, <1>2, <1>3, <1>4 DEF Next

-----------------------------------------------------------------------------
(* Theorems.                                                               *)

(* The inductive invariant holds in every state the node reaches.          *)
THEOREM Invariance == Spec => []IInv
<1> QED BY InitIInv, NextIInv, PTL DEF Spec

(* The node's state has its types: _latest_clouds, _latest_imus and        *)
(* _target_transforms hold a message or nothing for every camera.          *)
THEOREM TypeCorrect == Spec => []TypeOK
<1>1. IInv => TypeOK BY DEF IInv
<1> QED BY <1>1, Invariance, PTL

(* Whatever was dropped or delayed, try_publish_combined combines clouds   *)
(* taken within the tolerance of each other, for any number of cameras;    *)
(* try_publish_combined_imu does so with samples.                          *)
THEOREM PublishedInStep == Spec => []InStep
<1>1. IInv => InStep BY DEF IInv
<1> QED BY <1>1, Invariance, PTL

(* However many cameras there are, and whatever rings their clouds have,   *)
(* transform_to_target_frame gives no ring number to two of them, as long  *)
(* as the rings of all of them fit the uint16_t that it stores.            *)
THEOREM RingsStayApart == Spec => []RingsApart
<1>1. IInv => RingsApart BY DEF IInv
<1> QED BY <1>1, Invariance, PTL

(* The transform that get_transform_to_target_frame has found once is the  *)
(* one that clouds and IMU samples of the camera use ever after.           *)
THEOREM TransformsStay == Spec => SameTransforms
<1> DEFINE Same ==
      /\ out' # None =>
           \A i \in Cam : transforms[i] # None => out'.transforms[i] = transforms[i]
      /\ imuOut' # None => \A i \in Imu : imuOut'.transforms[i] \in Calibration /\
                                          imuOut'.transforms[i] = transforms'[i]
<1>1. ASSUME IInv, NEW i \in Cam, CloudArrives(i) PROVE Same
  <2>1. PICK c \in Cloud : OnPointCloud(i, c) BY <1>1 DEF CloudArrives
  <2>2. imuOut' = None BY <2>1 DEF OnPointCloud
  <2>3. ASSUME out' # None, NEW j \in Cam, transforms[j] # None
        PROVE  out'.transforms[j] = transforms[j]
    <3>1. Ready(clouds') BY <2>1, <2>3 DEF OnPointCloud
    <3>2. CloudsInTolerance(clouds') BY <3>1 DEF Ready
    <3>3. transforms' = TransformsAfterLookup BY <2>1, <3>2 DEF OnPointCloud
    <3>4. transforms'[j] = transforms[j] BY <1>1, <2>3, <3>3, Lookup DEF IInv, TypeOK
    <3>5. out'.transforms = transforms'
      <4>1. out' = Combined(clouds', transforms') BY <2>1, <3>1 DEF OnPointCloud
      <4> QED BY <4>1 DEF Combined
    <3> QED BY <3>4, <3>5
  <2> QED BY <2>2, <2>3
<1>2. ASSUME IInv, NEW i \in Imu, ImuArrives(i) PROVE Same
  <2>1. PICK s \in ImuStamp : OnImu(i, s) BY <1>2 DEF ImuArrives
  <2>2. out' = None /\ transforms' = transforms BY <2>1 DEF OnImu
  <2>3. ASSUME imuOut' # None, NEW j \in Imu
        PROVE  imuOut'.transforms[j] \in Calibration /\ imuOut'.transforms[j] = transforms'[j]
    <3>1. ImuTransformed /\ imuOut'.transforms = transforms BY <2>1, <2>3 DEF OnImu
    <3>2. j \in Cam /\ transforms[j] # None BY <3>1 DEF ImuTransformed
    <3>3. transforms[j] \in Calibration BY <1>2, <3>2 DEF IInv, TypeOK
    <3> QED BY <2>2, <3>1, <3>3
  <2> QED BY <2>2, <2>3
<1>3. ASSUME NEW i \in Cam, Announce(i) PROVE Same BY <1>3 DEF Announce
<1> HIDE DEF Same
<1>4. IInv /\ [Next]_vars => [Same]_vars BY <1>1, <1>2, <1>3 DEF Next
<1>5. Spec => [][Same]_vars BY <1>4, Invariance, PTL DEF Spec
<1> QED BY <1>5 DEF Same, SameTransforms

(* Although every arrival may combine new clouds with old ones, the stamps *)
(* that build_combined_cloud gives never decrease.                         *)
THEOREM StampsNeverDecrease == Spec => StampsInOrder
<1> DEFINE Later == out' # None /\ sent # None => out'.stamp >= sent
<1>1. ASSUME IInv, NEW i \in Cam, CloudArrives(i) PROVE Later
  <2>1. PICK c \in Cloud : /\ clouds[i] # None => c.stamp > clouds[i].stamp
                           /\ OnPointCloud(i, c)
    BY <1>1 DEF CloudArrives
  <2> SUFFICES ASSUME out' # None, sent # None PROVE out'.stamp >= sent
    OBVIOUS
  <2>2. Ready(clouds') BY <2>1 DEF OnPointCloud
  <2>3. PICK cs \in [Cam -> Cloud], tfs \in [Cam -> Calibration] :
           clouds' = cs /\ out' = Combined(cs, tfs)
    BY <1>1, <2>1, <2>2, Published
  <2>4. PICK j \in Parts : clouds[j] # None /\ sent <= clouds[j].stamp
    BY <1>1 DEF IInv, OrderInv
  <2>5. j \in Cam BY DEF Parts
  <2>6. cs[j].stamp >= clouds[j].stamp
    BY <1>1, <2>1, <2>3, <2>4, <2>5, NoCloudBack DEF IInv, OnPointCloud
  <2>7. layout \in [Cam -> Layouts] BY <1>1 DEF IInv, TypeOK
  <2>8. PICK k \in Parts : CombinedStamp(cs) = cs[k].stamp BY <2>7, StampOfParts
  <2>9. cs[j].stamp <= CombinedStamp(cs) BY <2>7, StampOfParts
  <2>10. out'.stamp = CombinedStamp(cs) BY <2>3 DEF Combined
  <2>11. k \in Cam BY DEF Parts
  <2>12. cs[j].stamp \in Nat /\ cs[k].stamp \in Nat BY <2>5, <2>11, StampAssumption DEF Cloud
  <2>13. clouds[j].stamp \in Nat /\ sent \in Nat
    BY <1>1, <2>4, <2>5, StampAssumption DEF IInv, TypeOK, Cloud
  <2> QED BY <2>4, <2>6, <2>8, <2>9, <2>10, <2>12, <2>13
<1>2. ASSUME NEW i \in Imu, ImuArrives(i) PROVE Later BY <1>2 DEF ImuArrives, OnImu
<1>3. ASSUME NEW i \in Cam, Announce(i) PROVE Later BY <1>3 DEF Announce
<1> HIDE DEF Later
<1>4. IInv /\ [Next]_vars => [Later]_vars BY <1>1, <1>2, <1>3 DEF Next
<1>5. Spec => [][Later]_vars BY <1>4, Invariance, PTL DEF Spec
<1> QED BY <1>5 DEF Later, StampsInOrder

(* A cloud that leaves all cameras announced, in step and with a point is  *)
(* followed by a combination: on_point_cloud misses none.                  *)
THEOREM NoneMissed == Spec => CombinesWhenReady
<1> DEFINE Combines ==
      /\ clouds' # clouds
      /\ \A i, j \in Cam : clouds'[i] # None /\ clouds'[j] # None
           /\ tree[i] # None /\ clouds'[i].stamp <= clouds'[j].stamp + SYNC_TOLERANCE_MS
      /\ \E i \in Parts : clouds'[i].rings # {}
      => out' # None
<1>1. ASSUME IInv, NEW i \in Cam, CloudArrives(i) PROVE Combines
  <2> SUFFICES ASSUME \A k, l \in Cam : clouds'[k] # None /\ clouds'[l] # None
                        /\ tree[k] # None
                        /\ clouds'[k].stamp <= clouds'[l].stamp + SYNC_TOLERANCE_MS,
                      \E k \in Parts : clouds'[k].rings # {}
               PROVE  out' # None
    OBVIOUS
  <2>1. PICK c \in Cloud : OnPointCloud(i, c) BY <1>1 DEF CloudArrives
  <2>2. PICK cs : cs = clouds' OBVIOUS
  <2>3. cs \in [Cam -> Cloud \cup {None}] BY <1>1, <2>1, <2>2 DEF IInv, TypeOK, OnPointCloud
  <2>4. CloudsInTolerance(cs) BY <2>2, <2>3, PairedClouds
  <2>5. \A k \in Cam : Known(k) BY DEF Known
  <2>6. Ready(cs) BY <2>2, <2>4, <2>5 DEF Ready, HasPoints
  <2>7. Ready(clouds') BY <2>2, <2>6
  <2> QED BY <1>1, <2>1, <2>7, Published
<1>2. ASSUME NEW i \in Imu, ImuArrives(i) PROVE Combines BY <1>2 DEF ImuArrives, OnImu
<1>3. ASSUME NEW i \in Cam, Announce(i) PROVE Combines BY <1>3 DEF Announce
<1> HIDE DEF Combines
<1>4. IInv /\ [Next]_vars => [Combines]_vars BY <1>1, <1>2, <1>3 DEF Next
<1>5. Spec => [][Combines]_vars BY <1>4, Invariance, PTL DEF Spec
<1> QED BY <1>5 DEF Combines, CombinesWhenReady
=============================================================================
