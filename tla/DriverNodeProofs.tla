-------------------------- MODULE DriverNodeProofs --------------------------
(***************************************************************************)
(* Proofs of the safety properties of DriverNode, for any nodes, cameras,  *)
(* ttys, calibration files and lists of parameters, any size of the rows   *)
(* and whatever the sensor measures.  First what one step of each loop     *)
(* keeps, carried through the loop; what the loops over dots, banks and    *)
(* IMU samples give; then the invariant, part by part, with a lemma for    *)
(* each kind of step that disturbs the part.                               *)
(***************************************************************************)
EXTENDS DriverNode, NumberProofs, SequenceTheorems

-----------------------------------------------------------------------------
(* The folds of the model: a set that the step does not leave, or, where   *)
(* the step leads from the set of one index to that of the next, A.  (The  *)
(* step must be given by name: hence a lemma for each loop.)               *)

(* The loop of calibration_parser::load over the entries of a file.        *)
LEMMA AddStays ==
  ASSUME NEW A, NEW a \in A, NEW s, IsSequence(s),
         \A x \in A, i \in DOMAIN s : AddEntry(x, s[i]) \in A
  PROVE  FoldLeft(AddEntry, a, s) \in A
<1>1. PICK n \in Nat : DOMAIN s = 1 .. n BY DEF IsSequence
<1>2. PICK F : F = [p \in (1 .. n) \X A |-> AddEntry(p[2], s[p[1]])] OBVIOUS
<1>3. IsStep(F, n, A) BY <1>1, <1>2 DEF IsStep
<1>4. PICK g : IsFoldOf(g, F, n, a) /\ StaysIn(g, n, A) BY <1>3, FoldExists
<1> DEFINE Def(h) == [t \in SUBSET DOMAIN s |->
                        IF t = {} THEN a ELSE AddEntry(h[t \ {Max(t)}], s[Max(t)])]
<1>5. g = Def(g)
  <2>1. ASSUME NEW t \in SUBSET (1 .. n), t # {}
        PROVE  g[t] = AddEntry(g[t \ {Max(t)}], s[Max(t)])
    <3>1. Max(t) \in 1 .. n BY <2>1, MaxOfIndices
    <3>2. t \ {Max(t)} \in SUBSET (1 .. n) OBVIOUS
    <3>3. g[t \ {Max(t)}] \in A BY <1>4, <3>2 DEF StaysIn
    <3>4. g[t] = F[<<Max(t), g[t \ {Max(t)}]>>] BY <1>4, <2>1 DEF IsFoldOf
    <3> QED BY <1>2, <3>1, <3>3, <3>4
  <2>2. g[{}] = a BY <1>4 DEF IsFoldOf
  <2>3. g = [t \in SUBSET (1 .. n) |-> g[t]] BY <1>4 DEF IsFoldOf
  <2> QED BY <1>1, <2>1, <2>2, <2>3
<1>6. PICK h : h = CHOOSE f : f = Def(f) OBVIOUS
<1>7. h = Def(h)
  <2> HIDE DEF Def
  <2> QED BY <1>5, <1>6
<1>8. h[{}] \in A BY <1>7
<1>9. ASSUME NEW t \in SUBSET (1 .. n), Max(t) \in 1 .. n, h[t \ {Max(t)}] \in A
      PROVE  h[t] \in A
  <2>1. h[t] = IF t = {} THEN a ELSE AddEntry(h[t \ {Max(t)}], s[Max(t)])
    BY <1>1, <1>7
  <2> QED BY <1>1, <1>9, <2>1
<1>10. h[1 .. n] \in A BY <1>8, <1>9, FoldStays
<1>11. FoldLeft(AddEntry, a, s) = h[DOMAIN s] BY <1>1, <1>6 DEF FoldLeft, MapThenFoldSet
<1> QED BY <1>1, <1>10, <1>11

(* The loop of on_parameters_set over a list.                              *)
LEMMA ApplyStays ==
  ASSUME NEW A, NEW a \in A, NEW s, IsSequence(s),
         \A x \in A, i \in DOMAIN s : ApplyParameter(x, s[i]) \in A
  PROVE  FoldLeft(ApplyParameter, a, s) \in A
<1>1. PICK n \in Nat : DOMAIN s = 1 .. n BY DEF IsSequence
<1>2. PICK F : F = [p \in (1 .. n) \X A |-> ApplyParameter(p[2], s[p[1]])] OBVIOUS
<1>3. IsStep(F, n, A) BY <1>1, <1>2 DEF IsStep
<1>4. PICK g : IsFoldOf(g, F, n, a) /\ StaysIn(g, n, A) BY <1>3, FoldExists
<1> DEFINE Def(h) == [t \in SUBSET DOMAIN s |->
                        IF t = {} THEN a ELSE ApplyParameter(h[t \ {Max(t)}], s[Max(t)])]
<1>5. g = Def(g)
  <2>1. ASSUME NEW t \in SUBSET (1 .. n), t # {}
        PROVE  g[t] = ApplyParameter(g[t \ {Max(t)}], s[Max(t)])
    <3>1. Max(t) \in 1 .. n BY <2>1, MaxOfIndices
    <3>2. t \ {Max(t)} \in SUBSET (1 .. n) OBVIOUS
    <3>3. g[t \ {Max(t)}] \in A BY <1>4, <3>2 DEF StaysIn
    <3>4. g[t] = F[<<Max(t), g[t \ {Max(t)}]>>] BY <1>4, <2>1 DEF IsFoldOf
    <3> QED BY <1>2, <3>1, <3>3, <3>4
  <2>2. g[{}] = a BY <1>4 DEF IsFoldOf
  <2>3. g = [t \in SUBSET (1 .. n) |-> g[t]] BY <1>4 DEF IsFoldOf
  <2> QED BY <1>1, <2>1, <2>2, <2>3
<1>6. PICK h : h = CHOOSE f : f = Def(f) OBVIOUS
<1>7. h = Def(h)
  <2> HIDE DEF Def
  <2> QED BY <1>5, <1>6
<1>8. h[{}] \in A BY <1>7
<1>9. ASSUME NEW t \in SUBSET (1 .. n), Max(t) \in 1 .. n, h[t \ {Max(t)}] \in A
      PROVE  h[t] \in A
  <2>1. h[t] = IF t = {} THEN a ELSE ApplyParameter(h[t \ {Max(t)}], s[Max(t)])
    BY <1>1, <1>7
  <2> QED BY <1>1, <1>9, <2>1
<1>10. h[1 .. n] \in A BY <1>8, <1>9, FoldStays
<1>11. FoldLeft(ApplyParameter, a, s) = h[DOMAIN s] BY <1>1, <1>6 DEF FoldLeft, MapThenFoldSet
<1> QED BY <1>1, <1>10, <1>11

(* The loop over the dots of a bank.                                       *)
LEMMA DotsGo ==
  ASSUME NEW m, NEW bank, NEW dots, NEW acc, NEW k \in Nat, k = 2 * RowSize,
         NEW a, a = [acc EXCEPT !.ts = bank], NEW C, a \in C,
         \A x \in C, i \in 0 .. k - 1 : UnpackDot(m, bank, i, dots[i], x) \in C,
         NEW A, a \in A[0],
         \A i \in 0 .. k - 1 : \A x \in A[i] : UnpackDot(m, bank, i, dots[i], x) \in A[i + 1]
  PROVE  UnpackBank(m, bank, dots, acc) \in A[k]
<1>1. PICK s : s = UpTo(k) OBVIOUS
<1>2. DOMAIN s = 1 .. k /\ \A j \in 1 .. k : s[j] = j - 1 BY <1>1 DEF UpTo
<1>3. PICK F : F = [p \in (1 .. k) \X C |-> UnpackDot(m, bank, p[1] - 1, dots[p[1] - 1], p[2])]
  OBVIOUS
<1>4. IsStep(F, k, C)
  <2>1. ASSUME NEW j \in 1 .. k, NEW x \in C PROVE F[<<j, x>>] \in C
    <3>1. j - 1 \in 0 .. k - 1 OBVIOUS
    <3> QED BY <1>3, <3>1
  <2> QED BY <2>1 DEF IsStep
<1>5. PICK g : IsFoldOf(g, F, k, a) /\ StaysIn(g, k, C) BY <1>4, FoldExists
<1> DEFINE Def(h) == [t \in SUBSET DOMAIN s |->
                        IF t = {} THEN a
                        ELSE UnpackDot(m, bank, s[Max(t)], dots[s[Max(t)]], h[t \ {Max(t)}])]
<1>6. g = Def(g)
  <2>1. ASSUME NEW t \in SUBSET (1 .. k), t # {}
        PROVE  g[t] = UnpackDot(m, bank, s[Max(t)], dots[s[Max(t)]], g[t \ {Max(t)}])
    <3>1. Max(t) \in 1 .. k BY <2>1, MaxOfIndices
    <3>2. t \ {Max(t)} \in SUBSET (1 .. k) OBVIOUS
    <3>3. g[t \ {Max(t)}] \in C BY <1>5, <3>2 DEF StaysIn
    <3>4. g[t] = F[<<Max(t), g[t \ {Max(t)}]>>] BY <1>5, <2>1 DEF IsFoldOf
    <3>5. s[Max(t)] = Max(t) - 1 BY <1>2, <3>1
    <3> QED BY <1>3, <3>1, <3>3, <3>4, <3>5
  <2>2. g[{}] = a BY <1>5 DEF IsFoldOf
  <2>3. g = [t \in SUBSET (1 .. k) |-> g[t]] BY <1>5 DEF IsFoldOf
  <2> QED BY <1>2, <2>1, <2>2, <2>3
<1>7. PICK h : h = CHOOSE f : f = Def(f) OBVIOUS
<1>8. h = Def(h)
  <2> HIDE DEF Def
  <2> QED BY <1>6, <1>7
<1>9. h[{}] \in A[0] BY <1>8
<1>10. ASSUME NEW j \in 0 .. k - 1, Max(1 .. j + 1) = j + 1,
              (1 .. j + 1) \ {j + 1} = 1 .. j, h[1 .. j] \in A[j]
       PROVE  h[1 .. j + 1] \in A[j + 1]
  <2>1. PICK t : t = 1 .. j + 1 OBVIOUS
  <2>2. j + 1 \in 1 .. k /\ j + 1 \in t /\ (j + 1) - 1 = j BY <2>1
  <2>3. t \in SUBSET (1 .. k) BY <2>1
  <2>4. h[t] = UnpackDot(m, bank, s[Max(t)], dots[s[Max(t)]], h[t \ {Max(t)}])
    BY <1>2, <1>8, <2>2, <2>3
  <2>5. s[Max(t)] = j /\ t \ {Max(t)} = 1 .. j BY <1>2, <1>10, <2>1, <2>2
  <2>6. h[t] = UnpackDot(m, bank, j, dots[j], h[1 .. j]) BY <2>4, <2>5
  <2> QED BY <1>10, <2>1, <2>6
<1>11. h[1 .. k] \in A[k] BY <1>9, <1>10, FoldGoes
<1>12. UnpackBank(m, bank, dots, acc) = h[DOMAIN s]
  BY <1>1, <1>7 DEF UnpackBank, FoldLeft, MapThenFoldSet
<1> QED BY <1>2, <1>11, <1>12

(* The loop over the banks of a frame.                                     *)
LEMMA BanksGo ==
  ASSUME NEW m, NEW f, NEW k \in Nat, k = IF Banks(m) < 12 THEN Banks(m) ELSE 12,
         NEW a, a = [ts |-> 0, points |-> <<>>], NEW C, a \in C,
         \A x \in C, b \in 0 .. k - 1 : UnpackBank(m, b, f[b], x) \in C,
         NEW A, a \in A[0],
         \A b \in 0 .. k - 1 : \A x \in A[b] : UnpackBank(m, b, f[b], x) \in A[b + 1]
  PROVE  \E x \in A[k] : UnpackHistFrame(m, f) = x.points
<1>1. PICK s : s = UpTo(k) OBVIOUS
<1>2. DOMAIN s = 1 .. k /\ \A j \in 1 .. k : s[j] = j - 1 BY <1>1 DEF UpTo
<1>3. PICK F : F = [p \in (1 .. k) \X C |-> UnpackBank(m, p[1] - 1, f[p[1] - 1], p[2])] OBVIOUS
<1>4. IsStep(F, k, C)
  <2>1. ASSUME NEW j \in 1 .. k, NEW x \in C PROVE F[<<j, x>>] \in C
    <3>1. j - 1 \in 0 .. k - 1 OBVIOUS
    <3> QED BY <1>3, <3>1
  <2> QED BY <2>1 DEF IsStep
<1>5. PICK g : IsFoldOf(g, F, k, a) /\ StaysIn(g, k, C) BY <1>4, FoldExists
<1> DEFINE Def(h) == [t \in SUBSET DOMAIN s |->
                        IF t = {} THEN a
                        ELSE UnpackBank(m, s[Max(t)], f[s[Max(t)]], h[t \ {Max(t)}])]
<1>6. g = Def(g)
  <2>1. ASSUME NEW t \in SUBSET (1 .. k), t # {}
        PROVE  g[t] = UnpackBank(m, s[Max(t)], f[s[Max(t)]], g[t \ {Max(t)}])
    <3>1. Max(t) \in 1 .. k BY <2>1, MaxOfIndices
    <3>2. t \ {Max(t)} \in SUBSET (1 .. k) OBVIOUS
    <3>3. g[t \ {Max(t)}] \in C BY <1>5, <3>2 DEF StaysIn
    <3>4. g[t] = F[<<Max(t), g[t \ {Max(t)}]>>] BY <1>5, <2>1 DEF IsFoldOf
    <3>5. s[Max(t)] = Max(t) - 1 BY <1>2, <3>1
    <3> QED BY <1>3, <3>1, <3>3, <3>4, <3>5
  <2>2. g[{}] = a BY <1>5 DEF IsFoldOf
  <2>3. g = [t \in SUBSET (1 .. k) |-> g[t]] BY <1>5 DEF IsFoldOf
  <2> QED BY <1>2, <2>1, <2>2, <2>3
<1>7. PICK h : h = CHOOSE w : w = Def(w) OBVIOUS
<1>8. h = Def(h)
  <2> HIDE DEF Def
  <2> QED BY <1>6, <1>7
<1>9. h[{}] \in A[0] BY <1>8
<1>10. ASSUME NEW j \in 0 .. k - 1, Max(1 .. j + 1) = j + 1,
              (1 .. j + 1) \ {j + 1} = 1 .. j, h[1 .. j] \in A[j]
       PROVE  h[1 .. j + 1] \in A[j + 1]
  <2>1. PICK t : t = 1 .. j + 1 OBVIOUS
  <2>2. j + 1 \in 1 .. k /\ j + 1 \in t /\ (j + 1) - 1 = j BY <2>1
  <2>3. t \in SUBSET (1 .. k) BY <2>1
  <2>4. h[t] = UnpackBank(m, s[Max(t)], f[s[Max(t)]], h[t \ {Max(t)}])
    BY <1>2, <1>8, <2>2, <2>3
  <2>5. s[Max(t)] = j /\ t \ {Max(t)} = 1 .. j BY <1>2, <1>10, <2>1, <2>2
  <2>6. h[t] = UnpackBank(m, j, f[j], h[1 .. j]) BY <2>4, <2>5
  <2> QED BY <1>10, <2>1, <2>6
<1>11. h[1 .. k] \in A[k] BY <1>9, <1>10, FoldGoes
<1>12. UnpackHistFrame(m, f) = h[DOMAIN s].points
  BY <1>1, <1>7 DEF UnpackHistFrame, FoldLeft, MapThenFoldSet
<1> QED BY <1>2, <1>11, <1>12

(* The loop of unpack_imu_data over the samples of a frame.                *)
LEMMA SamplesGo ==
  ASSUME NEW s, NEW n \in Nat, DOMAIN s = 1 .. n, NEW ts, NEW off, NEW latest,
         NEW a, a = [latest |-> latest, reset |-> FALSE, done |-> FALSE, stamps |-> <<>>],
         NEW C, a \in C, \A x \in C, i \in 1 .. n : UnpackSample(ts, off, x, s[i]) \in C,
         NEW A, a \in A[0],
         \A i \in 0 .. n - 1 : \A x \in A[i] : UnpackSample(ts, off, x, s[i + 1]) \in A[i + 1]
  PROVE  UnpackImuData(latest, ts, off, s) \in A[n]
<1>1. PICK F : F = [p \in (1 .. n) \X C |-> UnpackSample(ts, off, p[2], s[p[1]])] OBVIOUS
<1>2. IsStep(F, n, C) BY <1>1 DEF IsStep
<1>3. PICK g : IsFoldOf(g, F, n, a) /\ StaysIn(g, n, C) BY <1>2, FoldExists
<1> DEFINE Def(h) == [t \in SUBSET DOMAIN s |->
                        IF t = {} THEN a ELSE UnpackSample(ts, off, h[t \ {Max(t)}], s[Max(t)])]
<1>4. g = Def(g)
  <2>1. ASSUME NEW t \in SUBSET (1 .. n), t # {}
        PROVE  g[t] = UnpackSample(ts, off, g[t \ {Max(t)}], s[Max(t)])
    <3>1. Max(t) \in 1 .. n BY <2>1, MaxOfIndices
    <3>2. t \ {Max(t)} \in SUBSET (1 .. n) OBVIOUS
    <3>3. g[t \ {Max(t)}] \in C BY <1>3, <3>2 DEF StaysIn
    <3>4. g[t] = F[<<Max(t), g[t \ {Max(t)}]>>] BY <1>3, <2>1 DEF IsFoldOf
    <3> QED BY <1>1, <3>1, <3>3, <3>4
  <2>2. g[{}] = a BY <1>3 DEF IsFoldOf
  <2>3. g = [t \in SUBSET (1 .. n) |-> g[t]] BY <1>3 DEF IsFoldOf
  <2> QED BY <2>1, <2>2, <2>3
<1>5. PICK h : h = CHOOSE f : f = Def(f) OBVIOUS
<1>6. h = Def(h)
  <2> HIDE DEF Def
  <2> QED BY <1>4, <1>5
<1>7. h[{}] \in A[0] BY <1>6
<1>8. ASSUME NEW j \in 0 .. n - 1, Max(1 .. j + 1) = j + 1,
             (1 .. j + 1) \ {j + 1} = 1 .. j, h[1 .. j] \in A[j]
      PROVE  h[1 .. j + 1] \in A[j + 1]
  <2>1. PICK t : t = 1 .. j + 1 OBVIOUS
  <2>2. j + 1 \in t /\ t \in SUBSET (1 .. n) BY <2>1
  <2>3. h[t] = UnpackSample(ts, off, h[t \ {Max(t)}], s[Max(t)]) BY <1>6, <2>2
  <2>4. Max(t) = j + 1 /\ t \ {Max(t)} = 1 .. j BY <1>8, <2>1
  <2>5. h[t] = UnpackSample(ts, off, h[1 .. j], s[j + 1]) BY <2>3, <2>4
  <2> QED BY <1>8, <2>1, <2>5
<1>9. h[1 .. n] \in A[n] BY <1>7, <1>8, FoldGoes
<1>10. UnpackImuData(latest, ts, off, s) = h[DOMAIN s]
  BY <1>5 DEF UnpackImuData, FoldLeft, MapThenFoldSet
<1> QED BY <1>9, <1>10

-----------------------------------------------------------------------------
(* The order of the points.                                                *)

(* A place is a line of RowSize dots, and a dot in it.                     *)
LEMMA LineAndDot ==
  ASSUME NEW n \in Nat, NEW p \in 0 .. n * RowSize - 1
  PROVE  /\ p \div RowSize \in 0 .. n - 1 /\ p % RowSize \in 0 .. RowSize - 1
         /\ p = RowSize * (p \div RowSize) + (p % RowSize)
<1>1. RowSize \in Nat \ {0} BY FramesAssumption
<1>2. PICK d \in Nat : d = p \div RowSize BY <1>1
<1>3. p \in Nat /\ RowSize * d <= p /\ p < RowSize * d + RowSize BY <1>1, <1>2
<1>4. p % RowSize = p - RowSize * d BY <1>1, <1>2
<1>5. p % RowSize \in 0 .. RowSize - 1 BY <1>1
<1>6. d <= n - 1
  <2> SUFFICES ASSUME n <= d PROVE FALSE BY <1>2
  <2>1. n * RowSize <= RowSize * d BY <1>1, <1>2
  <2> QED BY <1>1, <1>3, <2>1
<1> QED BY <1>1, <1>2, <1>3, <1>4, <1>5, <1>6

LEMMA Placed ==
  ASSUME NEW d \in Nat, NEW r \in 0 .. RowSize - 1
  PROVE  (RowSize * d + r) \div RowSize = d /\ (RowSize * d + r) % RowSize = r
BY FramesAssumption

(* The greatest place of a line is below those of the next.                *)
LEMMA LineInRange ==
  ASSUME NEW n \in Nat, NEW d \in 0 .. n - 1, NEW r \in 0 .. RowSize - 1
  PROVE  RowSize * d + r \in 0 .. n * RowSize - 1
<1>1. RowSize \in Nat \ {0} BY FramesAssumption
<1>2. RowSize * (d + 1) <= RowSize * n /\ RowSize * d \in Nat BY <1>1
<1>3. RowSize * (d + 1) = RowSize * d + RowSize BY <1>1
<1>4. RowSize * d + r < n * RowSize BY <1>1, <1>2, <1>3
<1> QED BY <1>1, <1>2, <1>4

\* The row of the sensor that is published at line d, and its inverse.
RowAt(m, d) == IF m = "30m30f" THEN LineOrder[d + 1] \div 2 ELSE LineOrder[d + 1]
LineOf == <<0, 12, 1, 13, 4, 16, 5, 17, 8, 20, 9, 21, 2, 14, 3, 15, 6, 18, 7, 19, 10, 22, 11, 23>>
LineOfHalf == <<0, 1, 4, 5, 8, 9, 2, 3, 6, 7, 10, 11>>
LineAt(m, d) == IF m = "30m30f" THEN LineOfHalf[d + 1] ELSE LineOf[d + 1]

(* The table is a permutation of the rows, in both resolutions; in the one *)
(* with half of the rows it has even entries.                              *)
LEMMA RowsPermuted ==
  ASSUME NEW m \in Modes, NEW d \in 0 .. Rows(m) - 1
  PROVE  /\ RowAt(m, d) \in 0 .. Rows(m) - 1
         /\ LineAt(m, d) \in 0 .. Rows(m) - 1 /\ RowAt(m, LineAt(m, d)) = d
         /\ m = "30m30f" => LineOrder[d + 1] = 2 * RowAt(m, d)
<1>1. CASE m = "30m30f"
  <2>1. d \in 0 .. 11 BY <1>1 DEF Rows
  <2> QED BY <1>1, <2>1 DEF RowAt, LineAt, Rows, LineOrder, LineOfHalf
<1>2. CASE m # "30m30f"
  <2>1. d \in 0 .. 23 BY <1>2 DEF Rows
  <2> QED BY <1>2, <2>1 DEF RowAt, LineAt, Rows, LineOrder, LineOf
<1> QED BY <1>1, <1>2

(* Offset is the row's place.                                              *)
LEMMA OffsetOf ==
  ASSUME NEW m \in Modes, NEW p \in Places(m)
  PROVE  Offset(m, p) = RowSize * RowAt(m, p \div RowSize) + (p % RowSize)
<1>1. RowSize \in Nat \ {0} BY FramesAssumption
<1>2. PICK d \in 0 .. Rows(m) - 1 : d = p \div RowSize BY LineAndDot DEF Places, Rows
<1>3. PICK r \in Nat : r = RowAt(m, d) BY RowsPermuted DEF Rows
<1>4. CASE m = "30m30f"
  <2>1. LineOrder[d + 1] = 2 * r BY <1>3, <1>4, RowsPermuted
  <2>2. (RowSize * (2 * r)) \div 2 = RowSize * r
    <3>1. PICK x \in Nat : x = RowSize * r BY <1>1
    <3>2. RowSize * (2 * r) = 2 * x BY <1>1, <3>1
    <3> QED BY <3>1, <3>2
  <2> QED BY <1>2, <1>3, <1>4, <2>1, <2>2 DEF Offset, Rows
<1>5. CASE m # "30m30f"
  BY <1>2, <1>3, <1>5 DEF Offset, Rows, RowAt
<1> QED BY <1>4, <1>5

(* So every place of the received frame is published once.                 *)
LEMMA OffsetsPermuted ==
  ASSUME NEW m \in Modes
  PROVE  {Offset(m, p) : p \in Places(m)} = Places(m)
<1>1. PICK n \in Nat : n = Rows(m) BY DEF Rows
<1>2. ASSUME NEW p \in Places(m) PROVE Offset(m, p) \in Places(m)
  <2>1. p \div RowSize \in 0 .. n - 1 /\ p % RowSize \in 0 .. RowSize - 1
    BY <1>1, LineAndDot DEF Places
  <2>2. RowAt(m, p \div RowSize) \in 0 .. n - 1 BY <1>1, <2>1, RowsPermuted
  <2> QED BY <1>1, <2>1, <2>2, LineInRange, OffsetOf DEF Places
<1>3. ASSUME NEW q \in Places(m) PROVE \E p \in Places(m) : Offset(m, p) = q
  <2>1. PICK d \in 0 .. n - 1, r \in 0 .. RowSize - 1 : q = RowSize * d + r
    BY <1>1, LineAndDot DEF Places
  <2>2. PICK e \in 0 .. n - 1 : e = LineAt(m, d) /\ RowAt(m, e) = d BY <1>1, RowsPermuted
  <2>3. RowSize * e + r \in Places(m) BY <1>1, LineInRange DEF Places
  <2>4. (RowSize * e + r) \div RowSize = e /\ (RowSize * e + r) % RowSize = r BY Placed
  <2>5. Offset(m, RowSize * e + r) = RowSize * RowAt(m, e) + r BY <2>3, <2>4, OffsetOf
  <2> QED BY <2>1, <2>2, <2>3, <2>5
<1> QED BY <1>2, <1>3

(* The row of the XYZ format that is published at a place.                 *)
RingAt(m, p) == Offset(m, p) \div RowSize

LEMMA RingIsRow ==
  ASSUME NEW m \in Modes, NEW p \in Places(m)
  PROVE  RingAt(m, p) = RowAt(m, p \div RowSize)
<1>1. PICK n \in Nat : n = Rows(m) BY DEF Rows
<1>2. p \div RowSize \in 0 .. n - 1 /\ p % RowSize \in 0 .. RowSize - 1
  BY <1>1, LineAndDot DEF Places
<1>3. RowAt(m, p \div RowSize) \in 0 .. n - 1 BY <1>1, <1>2, RowsPermuted
<1> QED BY <1>2, <1>3, OffsetOf, Placed DEF RingAt

\* The banks that are read, each of two rows.
BanksRead(m) == IF Banks(m) < 12 THEN Banks(m) ELSE 12
PlaceOf(bank, i) == bank * 2 * RowSize + i

(* The dot i of a bank is published at a place of the mode, after those of *)
(* the banks before, and with the ring that the other format has there.    *)
LEMMA BankPlaces ==
  ASSUME NEW m \in Modes, NEW bank \in 0 .. BanksRead(m) - 1, NEW i \in 0 .. 2 * RowSize - 1
  PROVE  /\ PlaceOf(bank, i) \in Places(m)
         /\ PlaceOf(bank, i) \div (2 * RowSize) = bank
         /\ BankToRing(bank, i, m) = RingAt(m, PlaceOf(bank, i))
<1>1. RowSize \in Nat \ {0} /\ 2 * RowSize \in Nat \ {0} BY FramesAssumption
<1>2. bank \in 0 .. 11 /\ Rows(m) = 2 * BanksRead(m) /\ BanksRead(m) \in Nat
      /\ (m = "30m30f" => bank \in 0 .. 5)
  BY DEF BanksRead, Banks, Rows, Modes
<1>3. PICK j \in 0 .. 1, r \in 0 .. RowSize - 1 :
        i = RowSize * j + r /\ j = i \div RowSize
  BY LineAndDot
<1>4. PICK d \in 0 .. Rows(m) - 1 : d = 2 * bank + j BY <1>2
<1>5. PlaceOf(bank, i) = RowSize * d + r
  <2>1. RowSize * (2 * bank + j) = bank * 2 * RowSize + RowSize * j BY <1>1, <1>2
  <2>2. PICK x \in Nat, y \in Nat : x = bank * 2 * RowSize /\ y = RowSize * j BY <1>1, <1>2
  <2>3. PlaceOf(bank, i) = x + (y + r) BY <1>3, <2>2 DEF PlaceOf
  <2>4. RowSize * d = x + y BY <1>4, <2>1, <2>2
  <2>5. r \in Nat BY <1>1
  <2> QED BY <2>2, <2>3, <2>4, <2>5
<1>6. PlaceOf(bank, i) \in Places(m) BY <1>2, <1>4, <1>5, LineInRange DEF Places
<1>7. PlaceOf(bank, i) \div (2 * RowSize) = bank
  <2>1. PICK R \in Nat \ {0} : R = 2 * RowSize BY <1>1
  <2>2. bank * 2 * RowSize = R * bank BY <1>1, <1>2, <2>1
  <2>3. (R * bank + i) \div R = bank
    <3>1. i \in 0 .. R - 1 /\ bank \in Nat BY <1>2, <2>1
    <3> HIDE <2>1
    <3> QED BY <3>1
  <2> QED BY <2>1, <2>2, <2>3 DEF PlaceOf
<1>8. RingAt(m, PlaceOf(bank, i)) = RowAt(m, d)
  <2>1. PlaceOf(bank, i) \div RowSize = d BY <1>2, <1>4, <1>5, Placed
  <2> QED BY <1>6, <2>1, RingIsRow
<1>9. BankToRing(bank, i, m) = RowAt(m, 2 * bank + j)
  <2>1. CASE m = "30m30f"
    <3>1. bank \in {0, 1, 2, 3, 4, 5} /\ j \in {0, 1} BY <1>2, <2>1
    <3>2. RingHalf[bank + 1] + j = LineOrder[2 * bank + j + 1] \div 2
      BY <3>1 DEF RingHalf, LineOrder
    <3> QED BY <1>3, <2>1, <3>2 DEF BankToRing, RowAt
  <2>2. CASE m # "30m30f"
    <3>1. RingFull[bank + 1] + 2 * j = LineOrder[2 * bank + j + 1]
      BY <1>2 DEF RingFull, LineOrder
    <3> QED BY <1>3, <2>2, <3>1 DEF BankToRing, RowAt
  <2> QED BY <2>1, <2>2
<1> QED BY <1>4, <1>6, <1>7, <1>8, <1>9

-----------------------------------------------------------------------------
(* The points of an XYZITR cloud.                                          *)

\* See TimeWithinBank.
TimeRight(m, q) ==
  m # "20m" \/ q.high => q.time = BankOf(q)
Point(m) ==
  {q \in [place : Places(m), ring : Nat, high : BOOLEAN, time : Nat] :
     q.ring = RingAt(m, q.place) /\ TimeRight(m, q)}
\* The points in ascending order, all of them before place p.
Cloud(m, p) ==
  {s \in Seq(Point(m)) :
     /\ \A i \in DOMAIN s : i > 1 => s[i - 1].place < s[i].place
     /\ \A i \in DOMAIN s : s[i].place < p}
\* What ts may be within a bank, and the variables of the loop there.
BankTimes(m, bank) == {t \in {bank, bank + 12} : t = bank \/ m = "20m"}
BankVars(m, bank) == [ts : BankTimes(m, bank), points : Seq(Point(m))]

LEMMA CloudGrows ==
  ASSUME NEW m \in Modes, NEW p \in Int, NEW s \in Cloud(m, p)
  PROVE  /\ \A p1 \in Int : p <= p1 => s \in Cloud(m, p1)
         /\ \A q \in Point(m) : q.place = p => Append(s, q) \in Cloud(m, p + 1)
<1>1. s \in Seq(Point(m)) BY DEF Cloud
<1>2. \A i \in DOMAIN s : s[i] \in Point(m) /\ s[i].place \in Int
  <2>1. \A q \in Point(m) : q.place \in Int BY FramesAssumption DEF Point, Places, Rows
  <2> QED BY <1>1, <2>1
<1>3. ASSUME NEW p1 \in Int, p <= p1 PROVE s \in Cloud(m, p1)
  <2>1. \A i \in DOMAIN s : s[i].place < p1 BY <1>2, <1>3 DEF Cloud
  <2> QED BY <2>1 DEF Cloud
<1>4. ASSUME NEW q \in Point(m), q.place = p PROVE Append(s, q) \in Cloud(m, p + 1)
  <2>1. PICK n \in Nat : n = Len(s) /\ DOMAIN s = 1 .. n BY <1>1
  <2>2. PICK r : r = Append(s, q) OBVIOUS
  <2>3. r \in Seq(Point(m)) /\ DOMAIN r = 1 .. n + 1 BY <1>1, <2>1, <2>2
  <2>4. r[n + 1] = q /\ \A i \in 1 .. n : r[i] = s[i] BY <1>1, <2>1, <2>2
  <2>5. \A i \in DOMAIN r : r[i].place < p + 1
    <3>1. ASSUME NEW i \in 1 .. n PROVE r[i].place < p + 1
      BY <1>2, <2>1, <2>4 DEF Cloud
    <3>2. r[n + 1].place < p + 1 BY <1>4, <2>4
    <3> QED BY <2>3, <3>1, <3>2
  <2>6. ASSUME NEW i \in DOMAIN r, i > 1 PROVE r[i - 1].place < r[i].place
    <3>1. CASE i = n + 1
      <4>1. i - 1 \in 1 .. n BY <2>3, <2>6, <3>1
      <4>2. s[i - 1].place < p BY <2>1, <4>1 DEF Cloud
      <4> QED BY <1>4, <2>4, <3>1, <4>1, <4>2
    <3>2. CASE i # n + 1
      <4>1. i \in 1 .. n /\ i - 1 \in 1 .. n BY <2>3, <2>6, <3>2
      <4> QED BY <2>1, <2>4, <2>6, <4>1 DEF Cloud
    <3> QED BY <3>1, <3>2
  <2> QED BY <2>2, <2>3, <2>5, <2>6 DEF Cloud
<1> QED BY <1>3, <1>4

(* One dot: at most its own point is added, with a time of its bank.       *)
LEMMA DotUnpacked ==
  ASSUME NEW m \in Modes, NEW bank \in 0 .. BanksRead(m) - 1, NEW i \in 0 .. 2 * RowSize - 1,
         NEW dot, NEW acc \in BankVars(m, bank), NEW r, r = UnpackDot(m, bank, i, dot, acc)
  PROVE  /\ r \in BankVars(m, bank)
         /\ \/ r.points = acc.points
            \/ \E q \in Point(m) : q.place = PlaceOf(bank, i) /\ r.points = Append(acc.points, q)
<1>1. bank \in 0 .. 11 BY DEF BanksRead, Banks, Modes
<1>2. PICK high \in BOOLEAN : high = TakesHigh(m, dot) BY DEF TakesHigh
<1>3. high => m = "20m" BY <1>2 DEF TakesHigh
<1>4. PICK ts : ts = IF high THEN bank + 12 ELSE acc.ts OBVIOUS
<1>5. ts \in BankTimes(m, bank) /\ ts \in Nat
  BY <1>1, <1>3, <1>4 DEF BankVars, BankTimes
<1>6. PICK q : q = [place |-> PlaceOf(bank, i), ring |-> BankToRing(bank, i, m),
                    high |-> high, time |-> ts]
  OBVIOUS
<1>7. q \in Point(m)
  <2>1. PlaceOf(bank, i) \in Places(m) /\ BankToRing(bank, i, m) = RingAt(m, PlaceOf(bank, i))
    BY BankPlaces
  <2>2. RingAt(m, PlaceOf(bank, i)) \in Nat
    <3>1. PlaceOf(bank, i) \div RowSize \in 0 .. Rows(m) - 1 BY <2>1, LineAndDot DEF Places, Rows
    <3> QED BY <2>1, <3>1, RingIsRow, RowsPermuted DEF Rows
  <2>3. q.place \div (2 * RowSize) = bank BY <1>6, BankPlaces
  <2>4. TimeRight(m, q)
    BY <1>1, <1>3, <1>4, <1>5, <1>6, <2>3 DEF TimeRight, BankOf, BankTimes
  <2> QED BY <1>5, <1>6, <2>1, <2>2, <2>4 DEF Point
<1>8. \/ r = acc
      \/ r = [ts |-> ts, points |-> acc.points]
      \/ r = [ts |-> ts, points |-> Append(acc.points, q)]
  BY <1>2, <1>4, <1>6 DEF UnpackDot, PlaceOf
<1> QED BY <1>5, <1>6, <1>7, <1>8 DEF BankVars

(* One bank adds its points after those of the banks before.               *)
LEMMA BankUnpacked ==
  ASSUME NEW m \in Modes, NEW bank \in 0 .. BanksRead(m) - 1, NEW dots,
         NEW acc \in [ts : Nat, points : Seq(Point(m))]
  PROVE  /\ UnpackBank(m, bank, dots, acc) \in [ts : Nat, points : Seq(Point(m))]
         /\ acc.points \in Cloud(m, PlaceOf(bank, 0)) =>
              UnpackBank(m, bank, dots, acc).points \in Cloud(m, PlaceOf(bank + 1, 0))
<1>1. RowSize \in Nat \ {0} /\ bank \in 0 .. 11
  <2>1. bank \in 0 .. 11 BY DEF BanksRead, Banks, Modes
  <2> QED BY <2>1, FramesAssumption
<1>2. PICK k \in Nat : k = 2 * RowSize BY <1>1
<1>3. PICK a : a = [acc EXCEPT !.ts = bank] OBVIOUS
<1>4. a \in BankVars(m, bank) /\ a.points = acc.points BY <1>3 DEF BankVars, BankTimes
<1>5. PICK C : C = BankVars(m, bank) OBVIOUS
<1>6. \A x \in C, i \in 0 .. k - 1 : UnpackDot(m, bank, i, dots[i], x) \in C
  BY <1>2, <1>5, DotUnpacked
<1>7. UnpackBank(m, bank, dots, acc) \in C
  <2>1. PICK A : A = [i \in 0 .. k |-> C] OBVIOUS
  <2>2. A[k] = C /\ A[0] = C /\ \A i \in 0 .. k - 1 : A[i] = C /\ A[i + 1] = C BY <2>1
  <2> QED BY <1>2, <1>3, <1>4, <1>5, <1>6, <2>2, DotsGo
<1>8. ASSUME acc.points \in Cloud(m, PlaceOf(bank, 0))
      PROVE  UnpackBank(m, bank, dots, acc).points \in Cloud(m, PlaceOf(bank + 1, 0))
  <2>1. PICK A : A = [i \in 0 .. k |-> {x \in C : x.points \in Cloud(m, PlaceOf(bank, i))}] OBVIOUS
  <2>2. a \in A[0] BY <1>2, <1>4, <1>5, <1>8, <2>1
  <2>3. ASSUME NEW i \in 0 .. k - 1, NEW x \in A[i]
        PROVE  UnpackDot(m, bank, i, dots[i], x) \in A[i + 1]
    <3>1. PICK r : r = UnpackDot(m, bank, i, dots[i], x) OBVIOUS
    <3>2. x \in C /\ x.points \in Cloud(m, PlaceOf(bank, i)) BY <2>1
    <3>3. r \in C BY <1>6, <3>1, <3>2
    <3>4. PICK p \in Int : p = PlaceOf(bank, i) /\ p + 1 = PlaceOf(bank, i + 1)
      <4>1. PICK b \in Int : b = bank * 2 * RowSize BY <1>1
      <4>2. i \in Int OBVIOUS
      <4> QED BY <4>1, <4>2 DEF PlaceOf
    <3>5. \/ r.points = x.points
          \/ \E q \in Point(m) : q.place = p /\ r.points = Append(x.points, q)
      <4>1. i \in 0 .. 2 * RowSize - 1 BY <1>2
      <4>2. x \in BankVars(m, bank) BY <1>5, <3>2
      <4>3. \/ r.points = x.points
            \/ \E q \in Point(m) : q.place = PlaceOf(bank, i) /\ r.points = Append(x.points, q)
        BY <3>1, <4>1, <4>2, DotUnpacked
      <4> QED BY <3>4, <4>3
    <3>6. r.points \in Cloud(m, p + 1)
      <4>1. p <= p + 1 /\ p + 1 \in Int BY <3>4
      <4>2. x.points \in Cloud(m, p) BY <3>2, <3>4
      <4> QED BY <3>5, <4>1, <4>2, CloudGrows
    <3>7. i + 1 \in 0 .. k BY <1>2
    <3> QED BY <2>1, <3>1, <3>3, <3>4, <3>6, <3>7
  <2>4. UnpackBank(m, bank, dots, acc) \in A[k]
    BY <1>2, <1>3, <1>4, <1>5, <1>6, <2>2, <2>3, DotsGo
  <2>5. PlaceOf(bank, k) = PlaceOf(bank + 1, 0)
    <3>1. (bank + 1) * 2 * RowSize = bank * 2 * RowSize + 2 * RowSize BY <1>1
    <3> QED BY <1>1, <1>2, <3>1 DEF PlaceOf
  <2> QED BY <1>2, <2>1, <2>4, <2>5
<1> QED BY <1>1, <1>5, <1>7, <1>8 DEF BankVars, BankTimes

(* A frame.                                                                *)
LEMMA FrameUnpacked ==
  ASSUME NEW m \in Modes, NEW f
  PROVE  \E p \in Int : UnpackHistFrame(m, f) \in Cloud(m, p)
<1>1. PICK k \in Nat : k = BanksRead(m) BY DEF BanksRead, Banks
<1>2. PICK C : C = [ts : Nat, points : Seq(Point(m))] OBVIOUS
<1>3. PICK a : a = [ts |-> 0, points |-> <<>>] OBVIOUS
<1>4. a \in C BY <1>2, <1>3
<1>5. \A x \in C, b \in 0 .. k - 1 : UnpackBank(m, b, f[b], x) \in C
  BY <1>1, <1>2, BankUnpacked
<1>6. PICK A : A = [b \in 0 .. k |-> {x \in C : x.points \in Cloud(m, PlaceOf(b, 0))}] OBVIOUS
<1>7. a \in A[0]
  <2>1. <<>> \in Seq(Point(m)) /\ DOMAIN <<>> = {} OBVIOUS
  <2>2. a.points \in Cloud(m, PlaceOf(0, 0)) BY <1>3, <2>1 DEF Cloud
  <2> QED BY <1>4, <1>6, <2>2
<1>8. ASSUME NEW b \in 0 .. k - 1, NEW x \in A[b] PROVE UnpackBank(m, b, f[b], x) \in A[b + 1]
  <2>1. b + 1 \in 0 .. k /\ b \in 0 .. k BY <1>1
  <2>2. x \in C /\ x.points \in Cloud(m, PlaceOf(b, 0)) BY <1>6, <2>1
  <2> QED BY <1>1, <1>2, <1>5, <1>6, <2>1, <2>2, BankUnpacked
<1>9. PICK x \in A[k] : UnpackHistFrame(m, f) = x.points
  BY <1>1, <1>3, <1>4, <1>5, <1>7, <1>8, BanksGo DEF BanksRead
<1>10. PlaceOf(k, 0) \in Int BY <1>1, FramesAssumption DEF PlaceOf
<1> QED BY <1>1, <1>6, <1>9, <1>10

\* What a cloud promises; see RowsAgree and TimeWithinBank.
CloudRows(m, s) ==
  /\ {Offset(m, p) : p \in Places(m)} = Places(m)
  /\ \A i \in DOMAIN s : /\ s[i].place \in Places(m) /\ (i > 1 => s[i - 1].place < s[i].place)
                         /\ s[i].ring = Offset(m, s[i].place) \div RowSize
CloudTimes(m, s) == \A i \in DOMAIN s : TimeRight(m, s[i])

(* Every cloud of either format.                                           *)
LEMMA CloudsRight ==
  ASSUME NEW m \in Modes
  PROVE  /\ CloudRows(m, CdcPoints[m])
         /\ \A dots \in [0 .. 2 * RowSize - 1 -> Dots] :
              CloudRows(m, HistPoints[m][dots]) /\ CloudTimes(m, HistPoints[m][dots])
<1>1. {Offset(m, p) : p \in Places(m)} = Places(m) BY OffsetsPermuted
<1>2. CloudRows(m, CdcPoints[m])
  <2>1. PICK n \in Nat : n = Rows(m) * RowSize BY FramesAssumption DEF Rows
  <2>2. PICK s : s = [i \in 1 .. n |-> [place |-> i - 1, ring |-> RingAt(m, i - 1),
                                        high |-> FALSE, time |-> 0]]
    OBVIOUS
  <2>3. CdcPoints[m] = s BY <2>1, <2>2 DEF CdcPoints, UnpackCdcFrame, RingAt
  <2>4. Places(m) = 0 .. n - 1 BY <2>1 DEF Places
  <2>5. ASSUME NEW i \in DOMAIN s
        PROVE  /\ s[i].place \in Places(m) /\ (i > 1 => s[i - 1].place < s[i].place)
               /\ s[i].ring = RingAt(m, s[i].place)
    <3>1. i \in 1 .. n /\ s[i].place = i - 1 /\ s[i].ring = RingAt(m, i - 1) BY <2>2
    <3>2. i > 1 => s[i - 1].place = i - 2
      <4>1. ASSUME i > 1 PROVE s[i - 1].place = i - 2
        <5>1. i - 1 \in 1 .. n BY <3>1, <4>1
        <5> QED BY <2>2, <3>1, <5>1
      <4> QED BY <4>1
    <3> QED BY <2>4, <3>1, <3>2
  <2> QED BY <1>1, <2>3, <2>5 DEF CloudRows, RingAt
<1>3. ASSUME NEW dots \in [0 .. 2 * RowSize - 1 -> Dots]
      PROVE  CloudRows(m, HistPoints[m][dots]) /\ CloudTimes(m, HistPoints[m][dots])
  <2>1. PICK f : f = [b \in 0 .. 11 |-> dots] OBVIOUS
  <2>2. HistPoints[m][dots] = UnpackHistFrame(m, f) BY <2>1 DEF HistPoints
  <2>3. PICK p \in Int : UnpackHistFrame(m, f) \in Cloud(m, p) BY FrameUnpacked
  <2>4. PICK s : s = HistPoints[m][dots] /\ s \in Cloud(m, p) BY <2>2, <2>3
  <2>5. s \in Seq(Point(m)) /\ \A i \in DOMAIN s : i > 1 => s[i - 1].place < s[i].place
    BY <2>4 DEF Cloud
  <2>6. \A i \in DOMAIN s : s[i] \in Point(m) BY <2>5
  <2>7. \A i \in DOMAIN s : /\ s[i].place \in Places(m) /\ TimeRight(m, s[i])
                            /\ s[i].ring = RingAt(m, s[i].place)
    BY <2>6 DEF Point
  <2> QED BY <1>1, <2>4, <2>5, <2>7 DEF CloudRows, CloudTimes, RingAt
<1> QED BY <1>2, <1>3

-----------------------------------------------------------------------------
(* The times of the IMU samples.                                           *)

Half == 2^(Width - 1)
\* The stamps of times by the device's clock.
Shift(s) == [i \in DOMAIN s |-> s[i] + HostAhead]

(* Times that are far enough from the width are what they are, also after  *)
(* a frame time that has wrapped around.                                   *)
LEMMA Widths ==
  /\ Half \in Nat \ {0}
  /\ \A x \in Int : Unsigned(x) \in 0 .. 2 * Half - 1 /\ Signed(x) \in Int
  /\ \A x \in 0 .. 2 * Half - 1 : Unsigned(x) = x
  /\ \A e \in Int, s \in Nat :
       -Half <= e /\ e + s < Half => Signed(Unsigned(e) + s) = e + s
<1>1. PICK h \in Nat \ {0} : h = Half /\ 2^Width = 2 * h BY FramesAssumption DEF Half
<1>2. PICK w \in Nat \ {0} : w = 2 * h BY <1>1
<1>3. \A x \in Int : Unsigned(x) = x % w BY <1>1, <1>2 DEF Unsigned
<1>4. \A x \in Int : Signed(x) = IF Unsigned(x) >= h THEN Unsigned(x) - w ELSE Unsigned(x)
  BY <1>1, <1>2 DEF Signed, Half
<1>5. \A x \in Int : x % w \in 0 .. w - 1 OBVIOUS
<1>6. \A x \in 0 .. w - 1 : x % w = x OBVIOUS
<1>7. \A x \in 0 .. w - 1 : (x + w) % w = x
  <2>1. ASSUME NEW x \in 0 .. w - 1 PROVE (x + w) % w = x
    <3>1. (w * 1 + x) % w = x OBVIOUS
    <3> QED BY <3>1
  <2> QED BY <2>1
<1>8. \A x \in -w .. -1 : x % w = x + w
  <2>1. ASSUME NEW x \in -w .. -1 PROVE x % w = x + w
    <3>1. PICK y \in 0 .. w - 1 : y = x + w OBVIOUS
    <3>2. (w * (-1) + y) % w = y OBVIOUS
    <3> QED BY <3>1, <3>2
  <2> QED BY <2>1
<1>9. ASSUME NEW e \in Int, NEW s \in Nat, -h <= e, e + s < h
      PROVE  Signed(Unsigned(e) + s) = e + s
  <2>1. CASE e >= 0
    <3>1. e \in 0 .. w - 1 /\ e + s \in 0 .. w - 1 BY <1>2, <1>9, <2>1
    <3>2. Unsigned(e) = e /\ Unsigned(e + s) = e + s BY <1>3, <1>6, <3>1
    <3> QED BY <1>4, <1>9, <3>2
  <2>2. CASE e < 0 /\ e + s >= 0
    <3>1. Unsigned(e) = e + w BY <1>2, <1>3, <1>8, <1>9, <2>2
    <3>2. PICK x \in 0 .. w - 1 : x = e + s /\ x < h /\ Unsigned(e) + s = x + w
      BY <1>2, <1>9, <2>2, <3>1
    <3>3. Unsigned(x + w) = x
      <4>1. x + w \in Int OBVIOUS
      <4>2. Unsigned(x + w) = (x + w) % w BY <1>3, <4>1
      <4> QED BY <1>7, <4>2
    <3>4. x + w \in Int /\ ~(x >= h) BY <3>2
    <3>5. Signed(x + w) = x BY <1>4, <3>3, <3>4
    <3> QED BY <3>2, <3>5
  <2>3. CASE e + s < 0
    <3>1. e < 0 BY <2>3
    <3>2. Unsigned(e) = e + w BY <1>2, <1>3, <1>8, <1>9, <3>1
    <3>3. PICK x \in 0 .. w - 1 : x = Unsigned(e) + s /\ x = e + s + w /\ x >= h
      BY <1>2, <1>9, <2>3, <3>2
    <3>4. Unsigned(x) = x BY <1>3, <1>6
    <3> QED BY <1>4, <3>3, <3>4
  <2> QED BY <2>1, <2>2, <2>3
<1>10. ASSUME NEW x \in Int PROVE Unsigned(x) \in 0 .. w - 1 /\ Signed(x) \in Int
  <2>1. Unsigned(x) \in 0 .. w - 1 BY <1>3, <1>5
  <2> QED BY <1>4, <2>1
<1>11. \A x \in 0 .. w - 1 : Unsigned(x) = x BY <1>3, <1>6
<1> QED BY <1>1, <1>2, <1>9, <1>10, <1>11

LEMMA ShiftAppend ==
  ASSUME NEW s \in Seq(Int), NEW x \in Int
  PROVE  /\ Shift(s) \in Seq(Int)
         /\ Shift(Append(s, x)) = Append(Shift(s), x + HostAhead)
<1>1. HostAhead \in Int BY ImuAssumption
<1>2. PICK n \in Nat : n = Len(s) /\ DOMAIN s = 1 .. n OBVIOUS
<1>3. \A r \in Seq(Int) : Shift(r) \in Seq(Int) /\ DOMAIN Shift(r) = DOMAIN r
  <2>1. ASSUME NEW r \in Seq(Int) PROVE Shift(r) \in Seq(Int) /\ DOMAIN Shift(r) = DOMAIN r
    <3>1. Shift(r) = [i \in 1 .. Len(r) |-> r[i] + HostAhead] BY DEF Shift
    <3>2. \A i \in 1 .. Len(r) : r[i] + HostAhead \in Int BY <1>1
    <3> QED BY <3>1, <3>2
  <2> QED BY <2>1
<1>4. PICK r : r = Append(s, x) /\ r \in Seq(Int)
  <2>1. Append(s, x) \in Seq(Int) OBVIOUS
  <2> QED BY <2>1
<1>5. PICK u : u = Append(Shift(s), x + HostAhead) /\ u \in Seq(Int)
  <2>1. Append(Shift(s), x + HostAhead) \in Seq(Int) BY <1>1, <1>3
  <2> QED BY <2>1
<1>6. PICK v : v = Shift(r) /\ v \in Seq(Int) /\ DOMAIN v = DOMAIN r
  <2>1. Shift(r) \in Seq(Int) /\ DOMAIN Shift(r) = DOMAIN r BY <1>3, <1>4
  <2> QED BY <2>1
<1>7. DOMAIN r = 1 .. n + 1 /\ r[n + 1] = x /\ \A i \in 1 .. n : r[i] = s[i] BY <1>2, <1>4
<1>8. Len(Shift(s)) = n /\ DOMAIN Shift(s) = 1 .. n BY <1>2, <1>3
<1>9. DOMAIN u = 1 .. n + 1 /\ u[n + 1] = x + HostAhead
      /\ \A i \in 1 .. n : u[i] = Shift(s)[i]
  BY <1>1, <1>3, <1>5, <1>8
<1>10. DOMAIN v = 1 .. n + 1 BY <1>6, <1>7
<1>11. ASSUME NEW i \in 1 .. n + 1 PROVE v[i] = u[i]
  <2>1. v[i] = r[i] + HostAhead BY <1>6, <1>7 DEF Shift
  <2>2. CASE i = n + 1 BY <1>7, <1>9, <2>1, <2>2
  <2>3. CASE i # n + 1
    <3>1. i \in 1 .. n BY <2>3
    <3>2. Shift(s)[i] = s[i] + HostAhead BY <1>2, <3>1 DEF Shift
    <3> QED BY <1>7, <1>9, <2>1, <3>1, <3>2
  <2> QED BY <2>2, <2>3
<1>12. Len(u) = n + 1 /\ Len(v) = n + 1 BY <1>9, <1>10
<1>13. v = u
  <2>1. u \in Seq(Int) /\ v \in Seq(Int) BY <1>5, <1>6
  <2> QED BY <1>11, <1>12, <2>1, SeqEqual
<1> QED BY <1>3, <1>4, <1>5, <1>6, <1>13

\* A clock that runs only after time 0, c samples after t; the due times with
\* one that is after time 0.
TimeAt(t, c) == IF t > 0 THEN t + SamplePeriod * c ELSE t
Extend(due, t) == IF t > 0 THEN Append(due, t) ELSE due

(* Of the due times of a run of samples, the next is that of the clock.    *)
LEMMA TicksGrow ==
  ASSUME NEW s \in Seq(Int), NEW t \in Int, NEW c \in Nat
  PROVE  /\ s \o Ticks(t, c) \in Seq(Int) /\ s \o Ticks(t, 0) = s
         /\ s \o Ticks(t, c + 1) = Extend(s \o Ticks(t, c), TimeAt(t, c))
<1>1. PICK n \in Nat : n = Len(s) OBVIOUS
<1>2. \A k \in Nat : /\ Ticks(t, k) \in Seq(Int)
                     /\ Len(Ticks(t, k)) = IF t > 0 THEN k ELSE 0
                     /\ t > 0 => \A i \in 1 .. k : Ticks(t, k)[i] = t + SamplePeriod * (i - 1)
  BY DEF Ticks, SamplePeriod
<1>3. s \o Ticks(t, 0) = s
  <2>1. PICK r \in Seq(Int) : r = Ticks(t, 0) /\ Len(r) = 0 BY <1>2
  <2>2. r = <<>> BY <2>1
  <2> QED BY <2>1, <2>2
<1>4. CASE t > 0
  <2>1. PICK p \in Seq(Int) : /\ p = Ticks(t, c) /\ Len(p) = c
                              /\ \A i \in 1 .. c : p[i] = t + SamplePeriod * (i - 1)
    BY <1>2, <1>4
  <2>2. PICK q \in Seq(Int) : /\ q = Ticks(t, c + 1) /\ Len(q) = c + 1
                              /\ \A i \in 1 .. c + 1 : q[i] = t + SamplePeriod * (i - 1)
    BY <1>2, <1>4
  <2>3. PICK x \in Int : x = TimeAt(t, c) /\ x = t + SamplePeriod * c /\ x > 0
    BY <1>4 DEF TimeAt, SamplePeriod
  <2>4. q[c + 1] = x BY <2>2, <2>3
  <2>5. PICK u : u = s \o p /\ u \in Seq(Int)
    <3>1. s \o p \in Seq(Int) OBVIOUS
    <3> QED BY <3>1
  <2>6. Len(u) = n + c /\ (\A i \in 1 .. n : u[i] = s[i]) /\ \A i \in 1 .. c : u[n + i] = p[i]
    BY <1>1, <2>1, <2>5
  <2>7. PICK v : v = Append(u, x) /\ v \in Seq(Int)
    <3>1. Append(u, x) \in Seq(Int) BY <2>5
    <3> QED BY <3>1
  <2>8. PICK w : w = s \o q /\ w \in Seq(Int)
    <3>1. s \o q \in Seq(Int) OBVIOUS
    <3> QED BY <3>1
  <2>9. Len(w) = n + c + 1 /\ (\A i \in 1 .. n : w[i] = s[i])
        /\ \A i \in 1 .. c + 1 : w[n + i] = q[i]
    <3>1. \A i \in 1 .. n + (c + 1) : w[i] = IF i <= n THEN s[i] ELSE q[i - n]
      BY <1>1, <2>2, <2>8, ConcatProperties
    <3>2. Len(s \o q) = Len(s) + Len(q) BY <2>2, ConcatProperties
    <3>3. Len(w) = n + (c + 1) BY <1>1, <2>2, <2>8, <3>2
    <3> QED BY <3>1, <3>3
  <2>10. Len(v) = n + c + 1 /\ v[n + c + 1] = x /\ \A i \in 1 .. n + c : v[i] = u[i]
    BY <2>5, <2>6, <2>7, AppendProperties
  <2>11. ASSUME NEW i \in 1 .. n + c + 1 PROVE v[i] = w[i]
    <3>1. CASE i \in 1 .. n BY <2>6, <2>9, <2>10, <3>1
    <3>2. CASE i = n + c + 1 BY <2>4, <2>9, <2>10, <3>2
    <3>3. CASE i \in n + 1 .. n + c
      <4>1. PICK j \in 1 .. c : i = n + j BY <3>3
      <4>2. j \in 1 .. c + 1 OBVIOUS
      <4>3. p[j] = q[j] BY <2>1, <2>2, <4>2
      <4> QED BY <2>6, <2>9, <2>10, <4>1, <4>2, <4>3
    <3> QED BY <3>1, <3>2, <3>3
  <2>12. v = w BY <2>7, <2>8, <2>9, <2>10, <2>11, SeqEqual
  <2>13. Extend(u, x) = v BY <2>3, <2>7 DEF Extend
  <2> QED BY <1>2, <1>3, <2>1, <2>2, <2>3, <2>5, <2>8, <2>12, <2>13, ConcatProperties
<1>5. CASE ~(t > 0)
  <2>1. ~(TimeAt(t, c) > 0) BY <1>5 DEF TimeAt
  <2>2. Ticks(t, c + 1) = Ticks(t, c) BY <1>5 DEF Ticks
  <2>3. Extend(s \o Ticks(t, c), TimeAt(t, c)) = s \o Ticks(t, c) BY <2>1 DEF Extend
  <2> QED BY <1>2, <1>3, <2>2, <2>3, ConcatProperties
<1> QED BY <1>4, <1>5

\* There is no reset before the first, none between it and the last sample that
\* counts, and a reset after that unless it is the last of all.
Found(samples, n, first, last) ==
  /\ first \in 1 .. n + 1 /\ last \in 0 .. n
  /\ first = n + 1 => last = n
  /\ first <= n => first <= last /\ samples[first] \in Nat
  /\ \A i \in 1 .. n : i < first \/ (first < i /\ i <= last) => samples[i] = -1
  /\ last < n => samples[last + 1] \in Nat

LEMMA ResetsFound ==
  ASSUME NEW samples \in Seq(Nat \cup {-1}), NEW n \in Nat, n = Len(samples),
         NEW first, first = FirstReset(samples), NEW last, last = LastSample(samples)
  PROVE  Found(samples, n, first, last)
<1>1. PICK R : R = Resets(samples) OBVIOUS
<1>2. DOMAIN samples = 1 .. n OBVIOUS
<1>3. R \in SUBSET Nat /\ \A i : i \in R <=> i \in 1 .. n /\ samples[i] >= 0
  BY <1>1, <1>2 DEF Resets
<1>4. \A i \in 1 .. n : samples[i] \in Nat \/ samples[i] = -1 BY <1>2
<1>5. \A i \in 1 .. n : IF i \in R THEN samples[i] \in Nat ELSE samples[i] = -1
  BY <1>3, <1>4
<1>6. first = IF R = {} THEN n + 1 ELSE Min(R) BY <1>1 DEF FirstReset
<1>7. last = IF R \ {first} = {} THEN n ELSE Min(R \ {first} ) - 1 BY <1>1 DEF LastSample
<1>8. /\ first \in 1 .. n + 1 /\ \A i \in R : first <= i
      /\ first <= n => first \in R
  <2>1. CASE R = {} BY <1>6, <2>1
  <2>2. CASE R # {}
    <3>1. first \in R /\ \A i \in R : first <= i BY <1>3, <1>6, <2>2, MinOfNats
    <3> QED BY <1>3, <3>1
  <2> QED BY <2>1, <2>2
<1>9. /\ last \in 0 .. n /\ \A i \in R : i = first \/ last < i
      /\ first <= n => first <= last
      /\ last < n => last + 1 \in R /\ first # n + 1
  <2>1. CASE R \ {first} = {} BY <1>7, <1>8, <2>1
  <2>2. CASE R \ {first} # {}
    <3>1. PICK m : m = Min(R \ {first}) OBVIOUS
    <3>2. m \in R /\ m # first /\ \A i \in R \ {first} : m <= i
      <4>1. R \ {first} \in SUBSET Nat BY <1>3
      <4> QED BY <2>2, <3>1, <4>1, MinOfNats
    <3>3. last = m - 1 /\ m \in 1 .. n /\ first < m BY <1>3, <1>7, <1>8, <2>2, <3>1, <3>2
    <3>4. \A i \in R : i = first \/ last < i BY <1>3, <3>2, <3>3
    <3>5. last + 1 = m BY <3>3
    <3> QED BY <1>8, <3>2, <3>3, <3>4, <3>5
  <2> QED BY <2>1, <2>2
<1>10. first = n + 1 => last = n BY <1>8, <1>9
<1>11. \A i \in 1 .. n : i < first \/ (first < i /\ i <= last) => i \notin R
  BY <1>8, <1>9
<1>12. \A i \in R : samples[i] \in Nat BY <1>3, <1>5
<1> QED BY <1>5, <1>8, <1>9, <1>10, <1>11, <1>12 DEF Found

\* The variables of the loop.
SampleVars == [latest : Int, reset : BOOLEAN, done : BOOLEAN, stamps : Seq(Int)]

\* The time of the next sample, and what it does: it is dropped, or gets a stamp.
NextLatest(ts, acc, s) ==
  IF s >= 0 THEN Signed(ts + s)
  ELSE IF acc.latest > 0 THEN acc.latest + SamplePeriod ELSE acc.latest
Dropped(acc, s) == acc.done \/ (s >= 0 /\ acc.reset)
StampsWith(acc, t) ==
  IF t > 0 THEN Append(acc.stamps, Unsigned(t + HostAhead)) ELSE acc.stamps
Went(r, acc, s, t) ==
  /\ r \in SampleVars
  /\ Dropped(acc, s) =>
       r.latest = acc.latest /\ r.reset = acc.reset /\ r.done /\ r.stamps = acc.stamps
  /\ ~Dropped(acc, s) =>
       /\ r.latest = t /\ ~r.done /\ r.stamps = StampsWith(acc, t)
       /\ r.reset <=> acc.reset \/ s >= 0

(* One sample.                                                             *)
LEMMA SampleUnpacked ==
  ASSUME NEW ts \in Int, NEW acc \in SampleVars, NEW s \in Nat \cup {-1}
  PROVE  Went(UnpackSample(ts, HostAhead, acc, s), acc, s, NextLatest(ts, acc, s))
<1> DEFINE r == UnpackSample(ts, HostAhead, acc, s)
<1>0. PICK latest, stamps :
        /\ latest = NextLatest(ts, acc, s) /\ stamps = StampsWith(acc, latest)
        /\ latest = IF s >= 0 THEN Signed(ts + s)
                    ELSE IF acc.latest > 0 THEN acc.latest + SamplePeriod ELSE acc.latest
        /\ stamps = IF latest > 0 THEN Append(acc.stamps, Unsigned(latest + HostAhead))
                    ELSE acc.stamps
  BY DEF NextLatest, StampsWith
<1>1. PICK reset \in BOOLEAN : reset = (s >= 0)
  <2>1. (s >= 0) = TRUE \/ (s >= 0) = FALSE OBVIOUS
  <2> QED BY <2>1, Zenon
<1>2. latest = CASE reset -> Signed(ts + s)
                 [] ~reset /\ acc.latest > 0 -> acc.latest + SamplePeriod
                 [] OTHER -> acc.latest
  BY <1>0, <1>1
<1>3. r = IF acc.done \/ (reset /\ acc.reset) THEN [acc EXCEPT !.done = TRUE]
          ELSE [latest |-> latest, reset |-> acc.reset \/ reset, done |-> FALSE, stamps |-> stamps]
  BY <1>0, <1>1, <1>2, Zenon DEF UnpackSample
<1>4. latest \in Int
  <2>1. ts + s \in Int OBVIOUS
  <2>2. Signed(ts + s) \in Int BY <2>1, Widths
  <2>3. acc.latest \in Int BY DEF SampleVars
  <2> QED BY <1>0, <2>2, <2>3 DEF SamplePeriod
<1>5. stamps \in Seq(Int)
  <2>1. latest + HostAhead \in Int BY <1>4, ImuAssumption
  <2>2. Unsigned(latest + HostAhead) \in Int
    <3>1. Unsigned(latest + HostAhead) \in 0 .. 2 * Half - 1 BY <2>1, Widths
    <3> QED BY <3>1, Widths
  <2>3. acc.stamps \in Seq(Int) BY DEF SampleVars
  <2>4. Append(acc.stamps, Unsigned(latest + HostAhead)) \in Seq(Int)
    BY <2>2, <2>3, AppendProperties
  <2> QED BY <1>0, <2>3, <2>4
<1>6. CASE Dropped(acc, s)
  <2>1. r = [acc EXCEPT !.done = TRUE] BY <1>1, <1>3, <1>6, Zenon DEF Dropped
  <2>2. r \in SampleVars /\ r.latest = acc.latest /\ r.reset = acc.reset /\ r.done
        /\ r.stamps = acc.stamps
    BY <2>1 DEF SampleVars
  <2> HIDE DEF r
  <2>3. Went(r, acc, s, latest) BY <1>6, <2>2 DEF Went
  <2> QED BY <1>0, <2>3 DEF r
<1>7. CASE ~Dropped(acc, s)
  <2>1. r = [latest |-> latest, reset |-> acc.reset \/ reset, done |-> FALSE, stamps |-> stamps]
    BY <1>1, <1>3, <1>7, Zenon DEF Dropped
  <2>2. (acc.reset \/ reset) \in BOOLEAN OBVIOUS
  <2>3. r \in SampleVars BY <1>4, <1>5, <2>1, <2>2 DEF SampleVars
  <2>4. r.latest = latest /\ ~r.done /\ r.stamps = stamps BY <2>1
  <2>5. r.reset = (acc.reset \/ reset) BY <2>1
  <2>6. r.reset <=> acc.reset \/ s >= 0 BY <1>1, <2>5, Zenon
  <2> HIDE DEF r
  <2>7. Went(r, acc, s, latest) BY <1>0, <1>7, <2>3, <2>4, <2>6, Zenon DEF Went
  <2> QED BY <1>0, <2>7 DEF r
<1> QED BY <1>6, <1>7

(* A stamp is that of its time.                                            *)
LEMMA Stamped ==
  ASSUME NEW s \in Seq(Int), NEW x \in Int, x > 0 => x < Half, NEW acc, acc.stamps = Shift(s)
  PROVE  StampsWith(acc, x) = Shift(Extend(s, x))
<1>1. CASE x > 0
  <2>1. HostAhead \in Nat /\ HostAhead <= Half BY ImuAssumption, TimesAssumption DEF Half
  <2>2. x + HostAhead \in 0 .. 2 * Half - 1 BY <1>1, <2>1, Widths
  <2>3. Unsigned(x + HostAhead) = x + HostAhead BY <2>2, Widths
  <2>4. Append(Shift(s), x + HostAhead) = Shift(Append(s, x)) BY ShiftAppend
  <2> QED BY <1>1, <2>3, <2>4 DEF StampsWith, Extend
<1>2. CASE ~(x > 0) BY <1>2 DEF StampsWith, Extend
<1> QED BY <1>1, <1>2

\* What the loop has after k samples: before the first reset, until the
\* second, and from there on.
Ran(x, time, due) == x.latest = time /\ x.stamps = Shift(due)
AfterSamples(k, L, first, last, zero, due) ==
  {x \in SampleVars :
     /\ k < first => /\ ~x.reset /\ ~x.done
                     /\ Ran(x, TimeAt(L, k), <<>> \o Ticks(TimeAt(L, 1), k))
     /\ first <= k /\ k <= last => /\ x.reset /\ ~x.done
                                   /\ Ran(x, TimeAt(zero, k - first), due \o Ticks(zero, k - first + 1))
     /\ first <= k /\ last < k =>
          x.done /\ Ran(x, TimeAt(zero, last - first), due \o Ticks(zero, last - first + 1))}

\* The times of the samples of a frame that begins at e are not too long.
InWidth(samples, n, e, L) ==
  /\ -Half <= e /\ L + SamplePeriod * n < Half
  /\ \A i \in 1 .. n : e + samples[i] + SamplePeriod * n < Half

(* A sample that is not dropped: its time and its stamp.                   *)
LEMMA NotDropped ==
  ASSUME NEW r, NEW x, NEW s, NEW t \in Int, NEW d \in Seq(Int), t > 0 => t < Half,
         ~Dropped(x, s), Went(r, x, s, t), x.stamps = Shift(d)
  PROVE  ~r.done /\ (r.reset <=> x.reset \/ s >= 0) /\ Ran(r, t, Extend(d, t))
<1>1. r.latest = t /\ ~r.done /\ (r.reset <=> x.reset \/ s >= 0) /\ r.stamps = StampsWith(x, t)
  BY Zenon DEF Went
<1>2. StampsWith(x, t) = Shift(Extend(d, t)) BY Stamped
<1> QED BY <1>1, <1>2 DEF Ran

(* One sample more.                                                        *)
LEMMA OneSampleMore ==
  ASSUME NEW e \in Int, NEW L \in Int, NEW samples \in Seq(Nat \cup {-1}),
         NEW n \in Nat, n = Len(samples), InWidth(samples, n, e, L),
         NEW first, NEW last, Found(samples, n, first, last),
         NEW zero \in Int, first <= n => zero = e + samples[first],
         NEW due \in Seq(Int), due = <<>> \o Ticks(TimeAt(L, 1), first - 1),
         NEW k \in 0 .. n - 1, NEW x \in AfterSamples(k, L, first, last, zero, due)
  PROVE  UnpackSample(Unsigned(e), HostAhead, x, samples[k + 1])
           \in AfterSamples(k + 1, L, first, last, zero, due)
<1>1. PICK h \in Nat : h = Half BY Widths
<1>2. /\ first \in 1 .. n + 1 /\ last \in 0 .. n
      /\ first = n + 1 => last = n
      /\ first <= n => first <= last /\ samples[first] \in Nat
      /\ \A i \in 1 .. n : i < first \/ (first < i /\ i <= last) => samples[i] = -1
      /\ last < n => samples[last + 1] \in Nat
  BY DEF Found
<1>3. PICK s \in Nat \cup {-1} : s = samples[k + 1]
  <2>1. k + 1 \in 1 .. n OBVIOUS
  <2>2. samples[k + 1] \in Nat \cup {-1} BY <2>1
  <2> QED BY <2>2
<1>4. PICK r : r = UnpackSample(Unsigned(e), HostAhead, x, s) OBVIOUS
<1>5. x \in SampleVars /\ x.latest \in Int BY DEF AfterSamples, SampleVars
<1>6. Unsigned(e) \in Int
  <2>1. Unsigned(e) \in 0 .. 2 * h - 1 BY <1>1, Widths
  <2> QED BY <2>1
<1>7. TimeAt(L, 1) \in Int BY DEF TimeAt, SamplePeriod
<1>8. \A c \in Nat : TimeAt(L, c + 1) = TimeAt(TimeAt(L, 1), c) BY DEF TimeAt, SamplePeriod
<1>9. Went(r, x, s, NextLatest(Unsigned(e), x, s)) BY <1>4, <1>5, <1>6, SampleUnpacked
<1>10. r \in SampleVars BY <1>9 DEF Went
<1>11. CASE k + 1 < first
  <2>1. s = -1 /\ k < first BY <1>2, <1>3, <1>11
  <2>2. ~x.reset /\ ~x.done /\ x.latest = TimeAt(L, k)
        /\ x.stamps = Shift(<<>> \o Ticks(TimeAt(L, 1), k))
    BY <2>1 DEF AfterSamples, Ran
  <2>3. PICK t \in Int : /\ t = TimeAt(L, k + 1) /\ (t > 0 => t < Half)
                         /\ t = NextLatest(Unsigned(e), x, s)
    BY <1>1, <1>11, <2>1, <2>2 DEF TimeAt, SamplePeriod, InWidth, NextLatest
  <2>4. PICK d : d = <<>> \o Ticks(TimeAt(L, 1), k) OBVIOUS
  <2>5. <<>> \in Seq(Int) OBVIOUS
  <2>6. d \in Seq(Int) BY <1>7, <2>4, <2>5, TicksGrow
  <2>7. <<>> \o Ticks(TimeAt(L, 1), k + 1) = Extend(d, t)
    <3>1. PICK one \in Int : one = TimeAt(L, 1) BY <1>7
    <3>2. PICK e0 \in Seq(Int) : e0 = <<>> BY <2>5
    <3>3. k \in Nat OBVIOUS
    <3>4. e0 \o Ticks(one, k + 1) = Extend(e0 \o Ticks(one, k), TimeAt(one, k))
      BY <3>3, TicksGrow, Zenon
    <3>5. TimeAt(one, k) = t BY <1>8, <2>3, <3>1, <3>3
    <3> QED BY <2>4, <3>1, <3>2, <3>4, <3>5, Zenon
  <2>8. ~r.done /\ ~r.reset /\ Ran(r, t, Extend(d, t))
    <3>1. ~Dropped(x, s) BY <2>1, <2>2 DEF Dropped
    <3>2. Went(r, x, s, t) BY <1>9, <2>3
    <3>3. x.stamps = Shift(d) BY <2>2, <2>4
    <3>4. ~r.done /\ (r.reset <=> x.reset \/ s >= 0) /\ Ran(r, t, Extend(d, t))
      BY <2>3, <2>6, <3>1, <3>2, <3>3, NotDropped
    <3> QED BY <2>1, <2>2, <3>4
  <2>9. Ran(r, TimeAt(L, k + 1), <<>> \o Ticks(TimeAt(L, 1), k + 1))
    BY <2>3, <2>7, <2>8, Zenon
  <2>10. ~(first <= k + 1) BY <1>2, <1>11
  <2>11. r \in AfterSamples(k + 1, L, first, last, zero, due)
    BY <1>10, <2>8, <2>9, <2>10, Zenon DEF AfterSamples
  <2> QED BY <1>3, <1>4, <2>11
<1>12. CASE k + 1 = first
  <2>1. s \in Nat /\ zero = e + s /\ k < first /\ first <= last /\ first <= n
    BY <1>2, <1>3, <1>12
  <2>2. ~x.reset /\ ~x.done /\ x.stamps = Shift(due)
    BY <1>12, <2>1 DEF AfterSamples, Ran
  <2>3. zero < h
    <3>1. zero + SamplePeriod * n < h BY <1>1, <1>2, <2>1 DEF InWidth
    <3> QED BY <1>1, <3>1 DEF SamplePeriod
  <2>4. zero = NextLatest(Unsigned(e), x, s)
    <3>1. Signed(Unsigned(e) + s) = zero BY <1>1, <2>1, <2>3, Widths DEF InWidth
    <3> QED BY <2>1, <3>1 DEF NextLatest
  <2>5. ~r.done /\ r.reset /\ Ran(r, zero, Extend(due, zero))
    <3>1. ~Dropped(x, s) BY <2>2 DEF Dropped
    <3>2. Went(r, x, s, zero) BY <1>9, <2>4
    <3>3. zero > 0 => zero < Half BY <1>1, <2>3
    <3>4. ~r.done /\ (r.reset <=> x.reset \/ s >= 0) /\ Ran(r, zero, Extend(due, zero))
      BY <2>2, <3>1, <3>2, <3>3, NotDropped
    <3> QED BY <2>1, <3>4
  <2>6. TimeAt(zero, 0) = zero BY DEF TimeAt, SamplePeriod
  <2>7. due \o Ticks(zero, 0 + 1) = Extend(due, zero)
    <3>1. 0 \in Nat OBVIOUS
    <3>2. due \o Ticks(zero, 0 + 1) = Extend(due \o Ticks(zero, 0), TimeAt(zero, 0))
      BY <3>1, TicksGrow, Zenon
    <3>3. due \o Ticks(zero, 0) = due BY TicksGrow
    <3> QED BY <2>6, <3>2, <3>3, Zenon
  <2>8. (k + 1) - first = 0 BY <1>12
  <2>9. Ran(r, TimeAt(zero, (k + 1) - first), due \o Ticks(zero, (k + 1) - first + 1))
    BY <2>5, <2>6, <2>7, <2>8, Zenon
  <2>10. ~(k + 1 < first) /\ ~(last < k + 1) BY <1>2, <1>12, <2>1
  <2>11. r \in AfterSamples(k + 1, L, first, last, zero, due)
    BY <1>10, <2>5, <2>9, <2>10, Zenon DEF AfterSamples
  <2> QED BY <1>3, <1>4, <2>11
<1>13. CASE first < k + 1 /\ k + 1 <= last
  <2>1. s = -1 /\ first <= k /\ k <= last /\ first <= n
    <3>1. k + 1 \in 1 .. n OBVIOUS
    <3>2. samples[k + 1] = -1 BY <1>2, <1>13, <3>1
    <3> QED BY <1>2, <1>3, <1>13, <3>2
  <2>2. PICK c \in Nat : c = k - first BY <1>2, <2>1
  <2>3. x.reset /\ ~x.done /\ x.latest = TimeAt(zero, c)
        /\ x.stamps = Shift(due \o Ticks(zero, c + 1))
    BY <2>1, <2>2 DEF AfterSamples, Ran
  <2>4. zero + SamplePeriod * (c + 1) < h
    <3>1. zero + SamplePeriod * n < h BY <1>1, <1>2, <2>1 DEF InWidth
    <3>2. c + 1 <= n BY <1>2, <2>2
    <3> QED BY <1>1, <3>1, <3>2 DEF SamplePeriod
  <2>5. PICK t \in Int : /\ t = TimeAt(zero, c + 1) /\ (t > 0 => t < Half)
                         /\ t = NextLatest(Unsigned(e), x, s)
    BY <1>1, <2>1, <2>3, <2>4 DEF TimeAt, SamplePeriod, NextLatest
  <2>6. PICK d : d = due \o Ticks(zero, c + 1) OBVIOUS
  <2>7. c + 1 \in Nat OBVIOUS
  <2>8. d \in Seq(Int) BY <2>6, <2>7, TicksGrow
  <2>9. due \o Ticks(zero, (c + 1) + 1) = Extend(d, t)
    <3>1. due \o Ticks(zero, (c + 1) + 1) = Extend(due \o Ticks(zero, c + 1), TimeAt(zero, c + 1))
      BY <2>7, TicksGrow, Zenon
    <3> QED BY <2>5, <2>6, <3>1, Zenon
  <2>10. ~r.done /\ r.reset /\ Ran(r, t, Extend(d, t))
    <3>1. ~Dropped(x, s) BY <2>1, <2>3 DEF Dropped
    <3>2. Went(r, x, s, t) BY <1>9, <2>5
    <3>3. x.stamps = Shift(d) BY <2>3, <2>6
    <3>4. ~r.done /\ (r.reset <=> x.reset \/ s >= 0) /\ Ran(r, t, Extend(d, t))
      BY <2>5, <2>8, <3>1, <3>2, <3>3, NotDropped
    <3> QED BY <2>3, <3>4
  <2>11. (k + 1) - first = c + 1 BY <1>2, <2>2
  <2>12. Ran(r, TimeAt(zero, (k + 1) - first), due \o Ticks(zero, (k + 1) - first + 1))
    BY <2>5, <2>9, <2>10, <2>11, Zenon
  <2>13. ~(k + 1 < first) /\ ~(last < k + 1) BY <1>2, <1>13
  <2>14. r \in AfterSamples(k + 1, L, first, last, zero, due)
    BY <1>10, <2>10, <2>12, <2>13, Zenon DEF AfterSamples
  <2> QED BY <1>3, <1>4, <2>14
<1>14. CASE first < k + 1 /\ last < k + 1
  <2>1. first <= k /\ first <= n /\ first <= last BY <1>2, <1>14
  <2>2. Ran(x, TimeAt(zero, last - first), due \o Ticks(zero, last - first + 1))
        /\ Dropped(x, s)
    <3>1. CASE last < k BY <2>1, <3>1 DEF AfterSamples, Dropped
    <3>2. CASE last = k
      <4>1. s \in Nat BY <1>2, <1>3, <3>2
      <4> QED BY <2>1, <3>2, <4>1 DEF AfterSamples, Dropped
    <3> QED BY <1>2, <1>14, <3>1, <3>2
  <2>3. r.done /\ r.latest = x.latest /\ r.stamps = x.stamps
    BY <1>9, <2>2, Zenon DEF Went
  <2>4. Ran(r, TimeAt(zero, last - first), due \o Ticks(zero, last - first + 1))
    BY <2>2, <2>3 DEF Ran
  <2> QED BY <1>2, <1>3, <1>4, <1>10, <1>14, <2>3, <2>4 DEF AfterSamples
<1> QED BY <1>2, <1>11, <1>12, <1>13, <1>14

(* The due times of a run of samples, and the last of them.                *)
LEMMA TicksAre ==
  ASSUME NEW t \in Int, NEW c \in Nat
  PROVE  /\ Ticks(t, c) \in Seq(Int)
         /\ Ticks(t, c) # <<>> <=> t > 0 /\ c > 0
         /\ t > 0 /\ c > 0 => Last(Ticks(t, c)) = TimeAt(t, c - 1)
         /\ <<>> \o Ticks(t, c) = Ticks(t, c) /\ Ticks(t, c) \o <<>> = Ticks(t, c)
<1>1. PICK k \in Nat : k = IF t > 0 THEN c ELSE 0 OBVIOUS
<1>2. PICK s : s = Ticks(t, c) /\ s \in Seq(Int) /\ Len(s) = k
  <2>1. Ticks(t, c) \in Seq(Int) /\ Len(Ticks(t, c)) = k BY <1>1 DEF Ticks, SamplePeriod
  <2> QED BY <2>1
<1>3. s # <<>> <=> k > 0 BY <1>2
<1>4. ASSUME t > 0, c > 0 PROVE Last(s) = TimeAt(t, c - 1)
  <2>1. k = c /\ c \in 1 .. c BY <1>1, <1>4
  <2>2. s[c] = t + SamplePeriod * (c - 1) BY <1>2, <1>4, <2>1 DEF Ticks
  <2> QED BY <1>2, <1>4, <2>1, <2>2 DEF Last, TimeAt
<1>5. <<>> \o s = s /\ s \o <<>> = s BY <1>2
<1> QED BY <1>1, <1>2, <1>3, <1>4, <1>5

\* The running time is that of the last sample, unless it is not positive.
Positive(x) == IF x > 0 THEN x ELSE 0

(* unpack_imu_data gives the samples of a frame their true times, and the  *)
(* running time that it keeps for the next frame is the true one.          *)
LEMMA SamplesTrue ==
  ASSUME NEW e \in Int, NEW L \in Int, -Half <= L, NEW samples \in Seq(Nat \cup {-1}),
         NEW n \in Nat, n = Len(samples), InWidth(samples, n, e, L),
         NEW now, now = Positive(L), NEW t, t = TrueTimes(now, e, samples),
         NEW r, r = UnpackImuData(L, Unsigned(e), HostAhead, samples)
  PROVE  /\ r.latest \in -Half .. Half - 1 /\ TrueNow(now, t) = Positive(r.latest)
         /\ r.stamps = Shift(t.before \o t.after)
<1>1. PICK h \in Nat \ {0} : h = Half BY Widths
<1>2. PICK first, last : first = FirstReset(samples) /\ last = LastSample(samples) OBVIOUS
<1>3. Found(samples, n, first, last) BY <1>2, ResetsFound
<1>4. /\ first \in 1 .. n + 1 /\ last \in 0 .. n
      /\ first = n + 1 => last = n
      /\ first <= n => first <= last /\ samples[first] \in Nat
  BY <1>3 DEF Found
<1>5. PICK zero \in Int : zero = IF first <= n THEN e + samples[first] ELSE 0 BY <1>4
<1>6. PICK one \in Int : one = TimeAt(L, 1) BY DEF TimeAt, SamplePeriod
<1>7. PICK due : due = <<>> \o Ticks(one, first - 1) /\ due \in Seq(Int)
                 /\ due = Ticks(one, first - 1)
  <2>1. first - 1 \in Nat BY <1>4
  <2>2. <<>> \o Ticks(one, first - 1) = Ticks(one, first - 1)
        /\ Ticks(one, first - 1) \in Seq(Int)
    BY <2>1, TicksAre
  <2> QED BY <2>2
<1>8. r \in AfterSamples(n, L, first, last, zero, due)
  <2>1. PICK a : a = [latest |-> L, reset |-> FALSE, done |-> FALSE, stamps |-> <<>>] OBVIOUS
  <2>2. PICK C : C = SampleVars OBVIOUS
  <2>3. a \in C BY <2>1, <2>2 DEF SampleVars
  <2>4. DOMAIN samples = 1 .. n /\ \A i \in 1 .. n : samples[i] \in Nat \cup {-1} OBVIOUS
  <2>5. Unsigned(e) \in Int
    <3>1. Unsigned(e) \in 0 .. 2 * h - 1 BY <1>1, Widths
    <3> QED BY <3>1
  <2>6. \A x \in C, i \in 1 .. n : UnpackSample(Unsigned(e), HostAhead, x, samples[i]) \in C
    <3>1. ASSUME NEW x \in C, NEW i \in 1 .. n
          PROVE  UnpackSample(Unsigned(e), HostAhead, x, samples[i]) \in C
      BY <2>2, <2>4, <2>5, SampleUnpacked DEF Went
    <3> QED BY <3>1
  <2>7. PICK A : A = [k \in 0 .. n |-> AfterSamples(k, L, first, last, zero, due)] OBVIOUS
  <2>8. a \in A[0]
    <3>1. TimeAt(L, 0) = L BY DEF TimeAt, SamplePeriod
    <3>2. <<>> \o Ticks(one, 0) = <<>>
      <4>1. Ticks(one, 0) = <<>> /\ <<>> \o Ticks(one, 0) = Ticks(one, 0) BY TicksAre
      <4> QED BY <4>1
    <3>3. Shift(<<>>) = <<>> BY DEF Shift
    <3>4. Ran(a, TimeAt(L, 0), <<>> \o Ticks(TimeAt(L, 1), 0))
      BY <1>6, <2>1, <3>1, <3>2, <3>3 DEF Ran
    <3>5. ~a.reset /\ ~a.done BY <2>1
    <3>6. ~(first <= 0) BY <1>4
    <3>7. a \in AfterSamples(0, L, first, last, zero, due)
      BY <2>2, <2>3, <3>4, <3>5, <3>6, Zenon DEF AfterSamples
    <3> QED BY <2>7, <3>7
  <2>9. ASSUME NEW i \in 0 .. n - 1, NEW x \in A[i]
        PROVE  UnpackSample(Unsigned(e), HostAhead, x, samples[i + 1]) \in A[i + 1]
    <3>1. x \in AfterSamples(i, L, first, last, zero, due) BY <2>7
    <3>2. first <= n => zero = e + samples[first] BY <1>5
    <3>3. due = <<>> \o Ticks(TimeAt(L, 1), first - 1) BY <1>6, <1>7
    <3>4. UnpackSample(Unsigned(e), HostAhead, x, samples[i + 1])
            \in AfterSamples(i + 1, L, first, last, zero, due)
      BY <1>3, <1>7, <3>1, <3>2, <3>3, OneSampleMore
    <3> QED BY <2>7, <3>4
  <2>10. UnpackImuData(L, Unsigned(e), HostAhead, samples) \in A[n]
    BY <2>1, <2>3, <2>4, <2>6, <2>8, <2>9, SamplesGo
  <2> QED BY <2>7, <2>10
<1>9. t.before = due /\ (t.reset <=> first <= n)
      /\ t.after = IF first <= n THEN Ticks(zero, last - first + 1) ELSE <<>>
  <2>1. (IF now > 0 THEN Ticks(now + SamplePeriod, first - 1) ELSE <<>>) = due
    <3>1. CASE L > 0
      <4>1. now > 0 /\ now + SamplePeriod = one BY <1>6, <3>1 DEF Positive, TimeAt, SamplePeriod
      <4> QED BY <1>7, <4>1
    <3>2. CASE ~(L > 0)
      <4>1. ~(now > 0) /\ ~(one > 0) BY <1>6, <3>2 DEF Positive, TimeAt
      <4> QED BY <1>7, <4>1 DEF Ticks
    <3> QED BY <3>1, <3>2
  <2>2. t = [before |-> due,
             after |-> IF first <= n THEN Ticks(zero, last - first + 1) ELSE <<>>,
             reset |-> first <= n]
    BY <1>2, <1>5, <2>1 DEF TrueTimes
  <2>3. t.reset = (first <= n) BY <2>2
  <2>4. t.reset <=> first <= n BY <2>3, Zenon
  <2>5. t.before = due BY <2>2
  <2>6. t.after = IF first <= n THEN Ticks(zero, last - first + 1) ELSE <<>> BY <2>2
  <2> QED BY <2>4, <2>5, <2>6
<1>10. r \in SampleVars BY <1>8 DEF AfterSamples
<1>11. CASE ~(first <= n)
  <2>1. first = n + 1 /\ n < first /\ first - 1 = n BY <1>4, <1>11
  <2>2. r.latest = TimeAt(L, n) /\ r.stamps = Shift(due)
    <3>1. Ran(r, TimeAt(L, n), <<>> \o Ticks(TimeAt(L, 1), n)) BY <1>8, <2>1 DEF AfterSamples
    <3> QED BY <1>6, <1>7, <2>1, <3>1 DEF Ran
  <2>3. t.after = <<>> /\ t.before \o t.after = due BY <1>7, <1>9, <1>11
  <2>4. r.latest \in -h .. h - 1
    <3>1. L + SamplePeriod * n < h /\ -h <= L BY <1>1 DEF InWidth
    <3> QED BY <1>1, <2>2, <3>1 DEF TimeAt, SamplePeriod
  <2>5. TrueNow(now, t) = IF due # <<>> THEN Last(due) ELSE now
    BY <1>9, <1>11, <2>3, Zenon DEF TrueNow
  <2>6. TrueNow(now, t) = Positive(r.latest)
    <3>1. due # <<>> <=> one > 0 /\ n > 0 BY <1>7, <2>1, TicksAre
    <3>2. one > 0 <=> L > 0 BY <1>6 DEF TimeAt, SamplePeriod
    <3>3. CASE L > 0 /\ n > 0
      <4>1. Last(due) = TimeAt(one, n - 1) BY <1>7, <2>1, <3>2, <3>3, TicksAre
      <4>2. TimeAt(one, n - 1) = TimeAt(L, n) /\ TimeAt(L, n) > 0
        BY <1>6, <3>3 DEF TimeAt, SamplePeriod
      <4> QED BY <2>2, <2>5, <3>1, <3>2, <3>3, <4>1, <4>2 DEF Positive
    <3>4. CASE ~(L > 0 /\ n > 0)
      <4>1. TimeAt(L, n) = L BY <3>4 DEF TimeAt, SamplePeriod
      <4> QED BY <2>2, <2>5, <3>1, <3>2, <3>4, <4>1 DEF Positive
    <3> QED BY <3>3, <3>4
  <2> QED BY <1>1, <2>2, <2>3, <2>4, <2>6
<1>12. CASE first <= n
  <2>1. PICK c \in Nat : c = last - first BY <1>4, <1>12
  <2>2. r.latest = TimeAt(zero, c) /\ r.stamps = Shift(due \o Ticks(zero, c + 1))
    <3>1. Ran(r, TimeAt(zero, last - first), due \o Ticks(zero, last - first + 1))
      <4>1. CASE n <= last
        <5>1. n = last BY <1>4, <4>1
        <5> QED BY <1>8, <1>12, <5>1 DEF AfterSamples
      <4>2. CASE last < n BY <1>8, <1>12, <4>2 DEF AfterSamples
      <4> QED BY <1>4, <4>1, <4>2
    <3> QED BY <2>1, <3>1 DEF Ran
  <2>3. t.after = Ticks(zero, c + 1) /\ t.reset BY <1>9, <1>12, <2>1
  <2>4. r.latest \in -h .. h - 1
    <3>1. zero + SamplePeriod * n < h /\ -h <= e /\ e <= zero
      <4>1. first \in 1 .. n BY <1>4, <1>12
      <4> QED BY <1>1, <1>4, <1>5, <1>12, <4>1 DEF InWidth
    <3>2. c <= n BY <1>4, <2>1
    <3> QED BY <1>1, <2>2, <3>1, <3>2 DEF TimeAt, SamplePeriod
  <2>5. TrueNow(now, t) = IF t.after # <<>> THEN Last(t.after) ELSE 0
    BY <2>3, Zenon DEF TrueNow
  <2>6. TrueNow(now, t) = Positive(r.latest)
    <3>1. c + 1 \in Nat /\ c + 1 > 0 /\ (c + 1) - 1 = c OBVIOUS
    <3>2. t.after # <<>> <=> zero > 0 BY <2>3, <3>1, TicksAre
    <3>3. zero > 0 => Last(t.after) = TimeAt(zero, c)
      <4>1. zero > 0 => Last(Ticks(zero, c + 1)) = TimeAt(zero, (c + 1) - 1) BY <3>1, TicksAre
      <4> QED BY <2>3, <3>1, <4>1
    <3>4. TimeAt(zero, c) > 0 <=> zero > 0 BY DEF TimeAt, SamplePeriod
    <3> QED BY <2>2, <2>5, <3>2, <3>3, <3>4 DEF Positive
  <2> QED BY <1>1, <1>9, <2>2, <2>3, <2>4, <2>6
<1> QED BY <1>11, <1>12

-----------------------------------------------------------------------------
(* The invariant, which is inductive: what the settings, the calibration,  *)
(* the sessions, the frames and the running time of the samples satisfy.   *)

ParamType == [mode : Modes \cup {p.mode : p \in InitParams},
              rate : Int \cup {p.rate : p \in InitParams},
              sync : SyncModes \cup {p.sync : p \in InitParams}]
DeviceType == [mode : Modes, rate : 1 .. 30, sync : SyncModes]

\* The device has what the parameters show; see SettingsAsReported.
Agree(p, d) ==
  /\ d.mode = (IF p.mode \in Modes THEN p.mode ELSE "30mstd")
  /\ d.sync = (IF p.sync \in SyncModes THEN p.sync ELSE "none")
  /\ p.rate \in 1 .. 30 => d.rate = p.rate

SettingsInv ==
  /\ made \subseteq Node /\ mixed \in [Node -> BOOLEAN]
  /\ device \in [Node -> DeviceType] /\ param \in [Node -> ParamType]
  /\ \A n \in Node : n \in made /\ ~mixed[n] => Agree(param[n], device[n])

\* The singleton is empty until a node is made, and then keeps a loaded file.
CalibInv ==
  /\ calib = Nobody <=> made = {}
  /\ calib = Nobody \/ \E f \in DOMAIN File : calib = Load(File[f])

SessionType ==
  /\ alive \in BOOLEAN /\ plugged \in [PortSet -> Camera \cup {Other, Nobody}]
  /\ phase \in [Node -> {"off", "search", "found", "up", "lost"}]
  /\ serial \in [Node -> BOOLEAN] /\ moved \in [Node -> BOOLEAN]
  /\ swapped \in [Node -> BOOLEAN] /\ synced \in [Node -> BOOLEAN]
  /\ port \in [Node -> PortSet] /\ cam \in [Node -> Camera \cup {Nobody}]

\* A search by the node's serial number finds the camera c.
Asked(n, c) == Want[n] # Nobody => c \in Alike[Want[n]]

\* A session is up with the camera on its tty, which is one that was asked for
\* if the tty kept what the search found there.
SessionInv ==
  /\ SessionType
  /\ \A n \in Node : phase[n] # "off" \/ synced[n] => n \in made
  /\ \A n \in Node : phase[n] = "up" => cam[n] = plugged[port[n]] /\ cam[n] \in Camera
  /\ \A n \in Node : phase[n] = "found" /\ ~moved[n] => Asked(n, plugged[port[n]])
  /\ \A n \in Node : phase[n] = "up" /\ ~swapped[n] => Asked(n, cam[n])

PoseFor(k, c) == GetCalibration(k, c).pose
\* f is the frame of c; the transform t there may be that of another camera with
\* the same frame.
Labelled(k, f, t, c) ==
  f = FrameFor(k, c) /\ \E d \in Camera : FrameFor(k, d) = f /\ t = PoseFor(k, d)

\* A session that is up has the frame of its camera; one that has been up still
\* has that of the camera that connected last.
Framed(n, c) ==
  /\ Labelled(calib, frame[n], tf[frame[n]], c)
  /\ phase[n] = "up" => c = cam[n]
  /\ ~swapped[n] => Asked(n, c)
FramesInv ==
  /\ frame \in [Node -> Frame \ {Empty}] /\ tf = [f \in Frame |-> tf[f]]
  /\ \A n \in Node : phase[n] = "up" \/ synced[n] => \E c \in Camera : Framed(n, c)

\* The running time of the samples has its width, and is the true one.
Running(x) == x.latest \in -Half .. Half - 1 /\ x.now = Positive(x.latest)
ImuInv == imu = [n \in Node |-> imu[n]] /\ \A n \in Node : Running(imu[n])

IInv ==
  /\ SettingsInv /\ CalibInv /\ SessionInv /\ FramesInv /\ ImuInv
  /\ FrameOfOwnCamera /\ TransformOfCamera

(* The parts of the invariant give the properties.                         *)
LEMMA InvGives == IInv => TypeOK /\ WantedCamera /\ SettingsAsReported
<1> SUFFICES ASSUME IInv PROVE TypeOK /\ WantedCamera /\ SettingsAsReported
  OBVIOUS
<1>1. TypeOK
  BY DEF IInv, SettingsInv, CalibInv, SessionInv, SessionType, FramesInv, ImuInv, TypeOK, DeviceType,
         Running, Half
<1>2. WantedCamera BY DEF IInv, SessionInv, Asked, Unique, WantedCamera
<1>3. SettingsAsReported BY DEF IInv, SettingsInv, SettingsAsReported, Agree
<1> QED BY <1>1, <1>2, <1>3

-----------------------------------------------------------------------------
(* The calibration.                                                        *)

(* What is loaded has frame ids of the file; an empty one gives way to the *)
(* default.                                                                *)
LEMMA LoadedFrames ==
  ASSUME NEW f \in DOMAIN File, NEW c
  PROVE  FrameFor(Load(File[f]), c) \in Frame \ {Empty}
<1> DEFINE fields(e) == [id |-> e.id, pose |-> e.pose,
                         frame |-> IF e.inner # Absent THEN e.inner ELSE e.frame]
<1>1. PICK s : s = File[f] OBVIOUS
<1>2. IsSequence(s) BY <1>1, FileAssumption
<1>3. PICK E : E = {fields(s[i]) : i \in DOMAIN s} OBVIOUS
<1>4. \A e \in E : e.frame \in Frame
  <2>1. ASSUME NEW i \in DOMAIN s PROVE fields(s[i]).frame \in Frame
    <3>1. PICK e : e = s[i] OBVIOUS
    <3>2. e \in UNION {Range(File[g]) : g \in DOMAIN File} BY <1>1, <3>1 DEF Range
    <3>3. e.frame \in Frame /\ e.inner \in Frame BY <3>2 DEF Frame
    <3> QED BY <3>1, <3>3
  <2> QED BY <1>3, <2>1
<1>5. FoldLeft(AddEntry, <<>>, s) \in Seq(E)
  <2>1. <<>> \in Seq(E) OBVIOUS
  <2>2. ASSUME NEW x \in Seq(E), NEW i \in DOMAIN s PROVE AddEntry(x, s[i]) \in Seq(E)
    <3>1. fields(s[i]) \in E BY <1>3
    <3>2. AddEntry(x, s[i]) = IF ~s[i].ok THEN x ELSE Append(x, fields(s[i])) BY DEF AddEntry
    <3> HIDE DEF fields
    <3> QED BY <3>1, <3>2
  <2> QED BY <1>2, <2>1, <2>2, AddStays
<1>6. PICK k \in Seq(E) : k = Load(File[f]) BY <1>1, <1>5 DEF Load
<1>7. GetCalibration(k, c).frame \in Frame \cup {Empty}
  <2>1. PICK hits : hits = {i \in DOMAIN k : k[i].id = c} OBVIOUS
  <2>2. CASE hits = {} BY <2>1, <2>2 DEF GetCalibration
  <2>3. CASE hits # {}
    <3>1. hits \in SUBSET Nat /\ hits \subseteq DOMAIN k BY <2>1
    <3>2. Min(hits) \in DOMAIN k BY <2>3, <3>1, MinOfNats
    <3>3. k[Min(hits)] \in E BY <3>2
    <3>4. GetCalibration(k, c) = k[Min(hits)] BY <2>1, <2>3, Zenon DEF GetCalibration
    <3> QED BY <1>4, <3>3, <3>4
  <2> QED BY <2>2, <2>3
<1>8. Default \in Frame \ {Empty} BY FileAssumption DEF Frame
<1> QED BY <1>6, <1>7, <1>8 DEF FrameFor

(* So whatever camera connects gets a frame that exists.                   *)
LEMMA FramesGiven ==
  ASSUME CalibInv, made # {}, NEW c
  PROVE  FrameFor(calib, c) \in Frame \ {Empty}
BY LoadedFrames DEF CalibInv

-----------------------------------------------------------------------------
(* The settings.                                                           *)

(* A rate that the device may have fits an int.                            *)
LEMMA SmallInts == \A r \in 0 .. 30 : ToInt(r) = r
<1>1. PICK h \in Nat : h = 2^(IntWidth - 1) /\ h > 30 /\ 2^IntWidth = 2 * h BY IntAssumption
<1>2. ASSUME NEW r \in 0 .. 30 PROVE ToInt(r) = r
  <2>1. r + h \in 0 .. 2 * h - 1 BY <1>1
  <2>2. (r + h) % (2 * h) = r + h BY <1>1, <2>1
  <2>3. ToInt(r) = ((r + h) % (2 * h)) - h BY <1>1 DEF ToInt
  <2> QED BY <1>1, <2>2, <2>3
<1> QED BY <1>2

(* The setters of the device keep its settings valid.                      *)
LEMMA Setters ==
  ASSUME NEW d \in DeviceType
  PROVE  /\ \A m : SetMode(d, m) = [d EXCEPT !.mode = IF m \in Modes THEN m ELSE d.mode]
         /\ \A r : SetFrameRate(d, r) = [d EXCEPT !.rate = IF r \in 1 .. 30 THEN r ELSE d.rate]
         /\ \A m : SetMode(d, m) \in DeviceType
         /\ \A r : SetFrameRate(d, r) \in DeviceType
         /\ \A s \in SyncModes : SetSyncMode(d, s) \in DeviceType
<1>1. \A m : SetMode(d, m) = [d EXCEPT !.mode = IF m \in Modes THEN m ELSE d.mode]
  BY DEF SetMode, DeviceType
<1>2. \A r : SetFrameRate(d, r) = [d EXCEPT !.rate = IF r \in 1 .. 30 THEN r ELSE d.rate]
  BY DEF SetFrameRate, DeviceType
<1>3. \A m : SetMode(d, m) \in DeviceType BY DEF SetMode, DeviceType
<1>4. \A r : SetFrameRate(d, r) \in DeviceType BY DEF SetFrameRate, DeviceType
<1>5. \A s \in SyncModes : SetSyncMode(d, s) \in DeviceType BY DEF SetSyncMode, DeviceType
<1> QED BY <1>1, <1>2, <1>3, <1>4, <1>5

(* The constructor of the node gives the device what the parameters show.  *)
LEMMA LaunchAgrees ==
  ASSUME NEW p \in ParamType
  PROVE  Launched(p) \in DeviceType /\ Agree(p, Launched(p))
<1>1. Defaults \in DeviceType BY DEF Defaults, DeviceType, Modes, SyncModes
<1>2. PICK s \in SyncModes : s = IF p.sync \in SyncModes THEN p.sync ELSE "none" BY DEF SyncModes
<1>3. PICK m \in Modes : m = IF p.mode \in Modes THEN p.mode ELSE "30mstd" BY DEF Modes
<1>4. PICK d \in DeviceType : d = SetFrameRate(Defaults, ToInt(p.rate)) BY <1>1, Setters
<1>5. p.rate \in 1 .. 30 => d.rate = p.rate
  BY <1>1, <1>4, SmallInts DEF SetFrameRate, DeviceType
<1>6. PICK e \in DeviceType : e = SetSyncMode(d, s) BY Setters
<1>7. e.sync = s /\ e.rate = d.rate BY <1>6 DEF SetSyncMode, DeviceType
<1>8. Launched(p) = SetMode(e, m) BY <1>2, <1>3, <1>4, <1>6 DEF Launched
<1>9. SetMode(e, m) = [e EXCEPT !.mode = m] BY DEF SetMode
<1>10. Launched(p) \in DeviceType BY <1>8, Setters
<1>11. Launched(p).mode = m /\ Launched(p).sync = s /\ Launched(p).rate = d.rate
  BY <1>7, <1>8, <1>9 DEF DeviceType
<1> QED BY <1>2, <1>3, <1>5, <1>10, <1>11 DEF Agree

AccType == [device : DeviceType, param : ParamType, stop : BOOLEAN, reboot : BOOLEAN, ok : BOOLEAN]
\* So far the parameters of the list, if accepted, agree with the device.
AccAgrees == {x \in AccType : x.ok => Agree(x.param, x.device)}

(* One parameter of a list that is accepted so far: what it does.          *)
LEMMA Applied ==
  ASSUME NEW x \in AccType, NEW e
  PROVE  \/ ApplyParameter(x, e) = x
         \/ ApplyParameter(x, e) = [x EXCEPT !.ok = FALSE]
         \/ e[2] \in Modes /\ ApplyParameter(x, e) =
              [x EXCEPT !.device = SetMode(x.device, e[2]), !.param.mode = e[2],
                        !.stop = TRUE, !.reboot = TRUE]
         \/ e[2] \in Int /\ ToInt(e[2]) \in 0 .. 30 /\ ApplyParameter(x, e) =
              [x EXCEPT !.device = SetFrameRate(x.device, ToInt(e[2])), !.param.rate = e[2],
                        !.reboot = TRUE]
         \/ e[2] \in SyncModes /\ ApplyParameter(x, e) =
              [x EXCEPT !.device = SetSyncMode(x.device, e[2]), !.param.sync = e[2],
                        !.reboot = TRUE]
BY DEF ApplyParameter, ValidRate

(* One parameter of a list: valid settings stay valid, and what agreed     *)
(* before agrees after it.                                                 *)
LEMMA ApplyAgrees ==
  ASSUME NEW x \in AccType, NEW e
  PROVE  /\ ApplyParameter(x, e) \in AccType
         /\ x \in AccAgrees => ApplyParameter(x, e) \in AccAgrees
<1>1. PICK y : y = ApplyParameter(x, e) OBVIOUS
<1>2. PICK d \in DeviceType, p \in ParamType : d = x.device /\ p = x.param BY DEF AccType
<1>3. CASE y = x BY <1>1, <1>3
<1>4. CASE y = [x EXCEPT !.ok = FALSE]
  <2>1. y \in AccType BY <1>4 DEF AccType
  <2>2. ~y.ok BY <1>4, Zenon DEF AccType
  <2> QED BY <1>1, <2>1, <2>2 DEF AccAgrees
<1>5. ASSUME NEW g \in DeviceType, NEW q \in ParamType, y.device = g, y.param = q,
             y.ok = x.ok, y.stop \in BOOLEAN, y.reboot = TRUE,
             y = [device |-> y.device, param |-> y.param, stop |-> y.stop,
                  reboot |-> y.reboot, ok |-> y.ok],
             Agree(p, d) => Agree(q, g)
      PROVE  y \in AccType /\ (x \in AccAgrees => y \in AccAgrees)
  <2>1. y.ok \in BOOLEAN /\ y.reboot \in BOOLEAN BY <1>5 DEF AccType
  <2>2. y \in AccType BY <1>5, <2>1 DEF AccType
  <2> QED BY <1>2, <1>5, <2>2 DEF AccAgrees
<1>6. CASE /\ e[2] \in Modes
           /\ y = [x EXCEPT !.device = SetMode(x.device, e[2]), !.param.mode = e[2],
                            !.stop = TRUE, !.reboot = TRUE]
  <2>1. PICK g \in DeviceType : g = SetMode(d, e[2]) BY Setters
  <2>2. PICK q \in ParamType : q = [p EXCEPT !.mode = e[2]] BY <1>6 DEF ParamType
  <2>3. g = [d EXCEPT !.mode = e[2]] BY <1>6, <2>1 DEF SetMode
  <2>4. Agree(p, d) => Agree(q, g) BY <1>6, <2>2, <2>3 DEF Agree, DeviceType, ParamType
  <2>5. y.device = g /\ y.param = q /\ y.stop = TRUE
    BY <1>2, <1>6, <2>1, <2>2 DEF AccType
  <2>6. y.ok = x.ok /\ y.reboot = TRUE BY <1>6, Zenon DEF AccType
  <2>7. y = [device |-> y.device, param |-> y.param, stop |-> y.stop,
             reboot |-> y.reboot, ok |-> y.ok]
    BY <1>6 DEF AccType
  <2> QED BY <1>1, <1>5, <2>4, <2>5, <2>6, <2>7
<1>7. CASE /\ e[2] \in Int /\ ToInt(e[2]) \in 0 .. 30
           /\ y = [x EXCEPT !.device = SetFrameRate(x.device, ToInt(e[2])), !.param.rate = e[2],
                            !.reboot = TRUE]
  <2>0. PICK t \in Int : t = ToInt(e[2]) BY <1>7
  <2>1. PICK g \in DeviceType : g = SetFrameRate(d, t) BY Setters
  <2>2. PICK q \in ParamType : q = [p EXCEPT !.rate = e[2]] BY <1>7 DEF ParamType
  <2>3. g = [d EXCEPT !.rate = IF t \in 1 .. 30 THEN t ELSE d.rate] BY <2>1, Setters
  <2>8. e[2] \in 1 .. 30 => t = e[2] BY <2>0, SmallInts
  <2>4. Agree(p, d) => Agree(q, g) BY <1>7, <2>2, <2>3, <2>8 DEF Agree, DeviceType, ParamType
  <2>5. y.device = g /\ y.param = q /\ y.stop \in BOOLEAN
    BY <1>2, <1>7, <2>0, <2>1, <2>2 DEF AccType
  <2>6. y.ok = x.ok /\ y.reboot = TRUE BY <1>7, Zenon DEF AccType
  <2>7. y = [device |-> y.device, param |-> y.param, stop |-> y.stop,
             reboot |-> y.reboot, ok |-> y.ok]
    BY <1>7 DEF AccType
  <2> QED BY <1>1, <1>5, <2>4, <2>5, <2>6, <2>7
<1>8. CASE /\ e[2] \in SyncModes
           /\ y = [x EXCEPT !.device = SetSyncMode(x.device, e[2]), !.param.sync = e[2],
                            !.reboot = TRUE]
  <2>1. PICK g \in DeviceType : g = SetSyncMode(d, e[2]) BY <1>8, Setters
  <2>2. PICK q \in ParamType : q = [p EXCEPT !.sync = e[2]] BY <1>8 DEF ParamType
  <2>3. g = [d EXCEPT !.sync = e[2]] BY <2>1 DEF SetSyncMode
  <2>4. Agree(p, d) => Agree(q, g) BY <1>8, <2>2, <2>3 DEF Agree, DeviceType, ParamType
  <2>5. y.device = g /\ y.param = q /\ y.stop \in BOOLEAN
    BY <1>2, <1>8, <2>1, <2>2 DEF AccType
  <2>6. y.ok = x.ok /\ y.reboot = TRUE BY <1>8, Zenon DEF AccType
  <2>7. y = [device |-> y.device, param |-> y.param, stop |-> y.stop,
             reboot |-> y.reboot, ok |-> y.ok]
    BY <1>8 DEF AccType
  <2> QED BY <1>1, <1>5, <2>4, <2>5, <2>6, <2>7
<1> QED BY <1>1, <1>3, <1>4, <1>6, <1>7, <1>8, Applied

(* A list of parameters, applied to settings that are valid.               *)
LEMMA ListAgrees ==
  ASSUME NEW acc \in AccType, NEW list \in ParamLists
  PROVE  /\ FoldLeft(ApplyParameter, acc, list) \in AccType
         /\ acc \in AccAgrees => FoldLeft(ApplyParameter, acc, list) \in AccAgrees
<1>1. IsSequence(list) BY ParamAssumption
<1>2. \A x \in AccType, i \in DOMAIN list : ApplyParameter(x, list[i]) \in AccType BY ApplyAgrees
<1>3. \A x \in AccAgrees, i \in DOMAIN list : ApplyParameter(x, list[i]) \in AccAgrees
  BY ApplyAgrees DEF AccAgrees
<1>4. FoldLeft(ApplyParameter, acc, list) \in AccType BY <1>1, <1>2, ApplyStays
<1>5. acc \in AccAgrees => FoldLeft(ApplyParameter, acc, list) \in AccAgrees
  BY <1>1, <1>3, ApplyStays
<1> QED BY <1>4, <1>5

(* The actions that leave the settings alone.                              *)
LEMMA SettingsKept ==
  ASSUME SettingsInv, UNCHANGED nodes PROVE SettingsInv'
BY DEF SettingsInv, nodes, Agree, DeviceType, ParamType

(* The constructor.                                                        *)
LEMMA ConstructSettings ==
  ASSUME IInv, NEW n \in Node, Construct(n) PROVE SettingsInv'
<1>1. PICK p \in InitParams : param' = Alter(param, n, p) /\ device' = Alter(device, n, Launched(p))
  BY DEF Construct
<1>2. p \in ParamType BY ParamAssumption, SMTT(30) DEF ParamType
<1>3. PICK d \in DeviceType : d = Launched(p) /\ Agree(p, d) BY <1>2, LaunchAgrees
<1>4. made' = made \cup {n} /\ mixed' = mixed BY DEF Construct
<1>5. param' = [param EXCEPT ![n] = p] /\ device' = [device EXCEPT ![n] = d] BY <1>1, <1>3 DEF Alter
<1>6. SettingsInv BY DEF IInv
<1>7. ASSUME NEW m \in Node, m \in made', ~mixed'[m] PROVE Agree(param'[m], device'[m])
  <2>1. CASE m = n BY <1>3, <1>5, <1>6, <2>1 DEF SettingsInv
  <2>2. CASE m # n
    <3>1. param'[m] = param[m] /\ device'[m] = device[m] BY <1>5, <1>6, <2>2 DEF SettingsInv
    <3>2. m \in made /\ ~mixed[m] BY <1>4, <1>7, <2>2
    <3> QED BY <1>6, <3>1, <3>2 DEF SettingsInv
  <2> QED BY <2>1, <2>2
<1>8. made' \subseteq Node /\ mixed' \in [Node -> BOOLEAN] BY <1>4, <1>6 DEF SettingsInv
<1>9. device' \in [Node -> DeviceType] /\ param' \in [Node -> ParamType]
  BY <1>2, <1>5, <1>6 DEF SettingsInv
<1>10. \A m \in Node : m \in made' /\ ~mixed'[m] => (Agree(param[m], device[m]))'
  BY <1>7 DEF Agree
<1> QED BY <1>8, <1>9, <1>10, Zenon DEF SettingsInv, ParamType, DeviceType

(* on_parameters_set.                                                      *)
LEMMA SetParametersSettings ==
  ASSUME IInv, NEW n \in Node, SetParameters(n) PROVE SettingsInv'
<1> DEFINE acc0 == [device |-> device[n], param |-> param[n],
                    stop |-> FALSE, reboot |-> FALSE, ok |-> TRUE]
<1> DEFINE Applying(list) == FoldLeft(ApplyParameter, acc0, list)
<1>1. PICK list \in ParamLists :
        /\ device' = Alter(device, n, Applying(list).device)
        /\ param' = (IF Applying(list).ok THEN Alter(param, n, Applying(list).param) ELSE param)
        /\ mixed' = Alter(mixed, n, mixed[n] \/ (~Applying(list).ok /\ Applying(list).device # device[n]))
  BY DEF SetParameters
<1>2. SettingsInv /\ n \in made /\ made' = made BY DEF IInv, SetParameters
<1>3. PICK a0 \in AccType : a0 = acc0 BY <1>2 DEF SettingsInv, AccType
<1>4. n \in made /\ ~mixed[n] => a0 \in AccAgrees BY <1>2, <1>3 DEF SettingsInv, AccAgrees
<1>5. PICK r \in AccType : r = Applying(list) /\ (a0 \in AccAgrees => r \in AccAgrees)
  BY <1>3, ListAgrees
<1> HIDE DEF acc0, Applying
<1>6. r.device \in DeviceType /\ r.param \in ParamType BY DEF AccType
<1>7. /\ device' = [device EXCEPT ![n] = r.device]
      /\ param' = IF r.ok THEN [param EXCEPT ![n] = r.param] ELSE param
      /\ mixed' = [mixed EXCEPT ![n] = mixed[n] \/ (~r.ok /\ r.device # device[n])]
  BY <1>1, <1>5, Zenon DEF Alter
<1>8. device' \in [Node -> DeviceType] /\ param' \in [Node -> ParamType]
  BY <1>2, <1>6, <1>7 DEF SettingsInv
<1>9. mixed' \in [Node -> BOOLEAN] BY <1>2, <1>7, Zenon DEF SettingsInv
<1>10. ASSUME NEW m \in Node, m \in made', ~mixed'[m] PROVE Agree(param'[m], device'[m])
  <2>1. CASE m = n
    <3>1. ~mixed[n] /\ (r.ok \/ r.device = device[n])
      BY <1>2, <1>7, <1>10, <2>1, Zenon DEF SettingsInv
    <3>2. device'[n] = r.device BY <1>2, <1>7 DEF SettingsInv
    <3>3. CASE r.ok
      <4>1. param'[n] = r.param BY <1>2, <1>7, <3>3 DEF SettingsInv
      <4>2. r \in AccAgrees BY <1>2, <1>4, <1>5, <3>1
      <4>3. Agree(r.param, r.device) BY <3>3, <4>2, Zenon DEF AccAgrees
      <4> QED BY <2>1, <3>2, <4>1, <4>3
    <3>4. CASE ~r.ok
      <4>1. param' = param BY <1>7, <3>4
      <4>2. r.device = device[n] BY <3>1, <3>4
      <4>3. Agree(param[n], device[n]) BY <1>2, <3>1 DEF SettingsInv
      <4> QED BY <2>1, <3>2, <4>1, <4>2, <4>3
    <3> QED BY <3>3, <3>4
  <2>2. CASE m # n
    <3>1. device'[m] = device[m] /\ param'[m] = param[m] BY <1>2, <1>7, <2>2 DEF SettingsInv
    <3>2. ~mixed[m] BY <1>2, <1>7, <1>10, <2>2, Zenon DEF SettingsInv
    <3> QED BY <1>2, <1>10, <3>1, <3>2 DEF SettingsInv
  <2> QED BY <2>1, <2>2
<1>11. \A m \in Node : m \in made' /\ ~mixed'[m] => (Agree(param[m], device[m]))'
  BY <1>10 DEF Agree
<1> QED BY <1>2, <1>8, <1>9, <1>11, Zenon DEF SettingsInv, ParamType, DeviceType

-----------------------------------------------------------------------------
(* The sessions.                                                           *)

(* A tty exists.                                                           *)
LEMMA PortsExist == \A i \in DOMAIN Ports : Ports[i] \in PortSet
BY DEF PortSet

(* A session that ends or begins its search.                               *)
LEMMA ToSession ==
  ASSUME SessionInv, NEW n \in Node, NEW ph \in {"off", "search"}, To(n, ph),
         UNCHANGED <<alive, plugged, port, swapped, synced>>, serial' \in [Node -> BOOLEAN],
         made \subseteq made', ph = "off" \/ n \in made'
  PROVE  SessionInv'
<1>1. SessionType BY DEF SessionInv
<1>2. phase' = [phase EXCEPT ![n] = ph] /\ cam' = [cam EXCEPT ![n] = Nobody]
  BY DEF To, Alter
<1>3. moved' = [moved EXCEPT ![n] = FALSE]
  BY Zenon DEF To, Alter
<1>4. moved' \in [Node -> BOOLEAN] BY <1>1, <1>3 DEF SessionType
<1>5. SessionType'
  BY <1>1, <1>2, <1>4 DEF SessionType
<1>6. ASSUME NEW m \in Node
      PROVE  /\ m = n => phase'[m] = ph
             /\ m # n => phase'[m] = phase[m] /\ cam'[m] = cam[m] /\ moved'[m] = moved[m]
  BY <1>1, <1>2, <1>3 DEF SessionType
<1>7. plugged' = plugged /\ port' = port /\ swapped' = swapped /\ synced' = synced OBVIOUS
<1>8. \A m \in Node : phase'[m] # "off" \/ synced'[m] => m \in made'
  BY <1>6, <1>7 DEF SessionInv
<1>9. \A m \in Node : phase'[m] = "up" => cam'[m] = plugged'[port'[m]] /\ cam'[m] \in Camera
  BY <1>6, <1>7 DEF SessionInv
<1>10. \A m \in Node : phase'[m] = "found" /\ ~moved'[m] => Asked(m, plugged'[port'[m]])
  BY <1>6, <1>7 DEF SessionInv
<1>11. \A m \in Node : phase'[m] = "up" /\ ~swapped'[m] => Asked(m, cam'[m])
  BY <1>6, <1>7 DEF SessionInv
<1> QED BY <1>5, <1>8, <1>9, <1>10, <1>11 DEF SessionInv

(* The search.                                                             *)
LEMMA FindPortSession ==
  ASSUME SessionInv, NodeAssumption, NEW n \in Node, FindPort(n) PROVE SessionInv'
<1>1. SessionType BY DEF SessionInv
<1>2. PICK i \in DOMAIN Ports : Matches(n, Ports[i]) /\ port' = [port EXCEPT ![n] = Ports[i]]
  BY DEF FindPort, Alter
<1>3. phase' = [phase EXCEPT ![n] = "found"] /\ cam' = [cam EXCEPT ![n] = Nobody]
  BY DEF FindPort, To, Alter
<1>4. moved' = [moved EXCEPT ![n] = FALSE] BY Zenon DEF FindPort, To, Alter
<1>5. moved' \in [Node -> BOOLEAN] BY <1>1, <1>4 DEF SessionType
<1>6. UNCHANGED <<alive, plugged, serial, made, swapped, synced>> BY DEF FindPort, nodes
<1>7. PICK p \in PortSet : p = Ports[i] BY PortsExist
<1>8. Asked(n, plugged[p]) BY <1>2, <1>7 DEF Matches, Asked
<1>9. SessionType' BY <1>1, <1>2, <1>3, <1>5, <1>6, <1>7 DEF SessionType
<1>10. ASSUME NEW m \in Node
       PROVE  /\ m = n => phase'[m] = "found" /\ port'[m] = p
              /\ m # n => /\ phase'[m] = phase[m] /\ cam'[m] = cam[m] /\ moved'[m] = moved[m]
                          /\ port'[m] = port[m]
  BY <1>1, <1>2, <1>3, <1>4, <1>7 DEF SessionType
<1>11. n \in made
  BY DEF FindPort, SessionInv
<1>12. \A m \in Node : phase'[m] # "off" \/ synced'[m] => m \in made'
  BY <1>6, <1>10, <1>11 DEF SessionInv
<1>13. \A m \in Node : phase'[m] = "up" => cam'[m] = plugged'[port'[m]] /\ cam'[m] \in Camera
  BY <1>6, <1>10 DEF SessionInv
<1>14. \A m \in Node : phase'[m] = "found" /\ ~moved'[m] => Asked(m, plugged'[port'[m]])
  BY <1>6, <1>8, <1>10 DEF SessionInv
<1>15. \A m \in Node : phase'[m] = "up" /\ ~swapped'[m] => Asked(m, cam'[m])
  BY <1>6, <1>10 DEF SessionInv
<1> QED BY <1>9, <1>12, <1>13, <1>14, <1>15 DEF SessionInv

(* connect() and on_cam_connection.                                        *)
LEMMA ConnectSession ==
  ASSUME SessionInv, NEW n \in Node, Connect(n) PROVE SessionInv'
<1>1. SessionType BY DEF SessionInv
<1>2. PICK c \in Camera : c = plugged[port[n]] BY DEF Connect
<1>3. phase' = [phase EXCEPT ![n] = "up"] /\ cam' = [cam EXCEPT ![n] = c]
  BY <1>2 DEF Connect, To, Alter
<1>4. moved' = [moved EXCEPT ![n] = FALSE] BY Zenon DEF Connect, To, Alter
<1>5. swapped' = [swapped EXCEPT ![n] = moved[n]] BY DEF Connect, Alter
<1>6. serial' = [serial EXCEPT ![n] = TRUE] BY DEF Connect, Alter
<1>7. UNCHANGED <<alive, plugged, port, made, synced>> /\ phase[n] = "found" BY DEF Connect, nodes
<1>8. {serial', moved', swapped'} \subseteq [Node -> BOOLEAN]
  BY <1>1, <1>4, <1>5, <1>6 DEF SessionType
<1>9. SessionType' BY <1>1, <1>2, <1>3, <1>7, <1>8 DEF SessionType
<1>10. ASSUME NEW m \in Node
       PROVE  /\ m = n => phase'[m] = "up" /\ cam'[m] = c /\ swapped'[m] = moved[m]
              /\ m # n => /\ phase'[m] = phase[m] /\ cam'[m] = cam[m]
                          /\ moved'[m] = moved[m] /\ swapped'[m] = swapped[m]
  BY <1>1, <1>3, <1>4, <1>5 DEF SessionType
<1>11. \A m \in Node : phase'[m] # "off" \/ synced'[m] => m \in made'
  BY <1>7, <1>10 DEF SessionInv
<1>12. \A m \in Node : phase'[m] = "up" => cam'[m] = plugged'[port'[m]] /\ cam'[m] \in Camera
  BY <1>2, <1>7, <1>10 DEF SessionInv
<1>13. \A m \in Node : phase'[m] = "found" /\ ~moved'[m] => Asked(m, plugged'[port'[m]])
  BY <1>7, <1>10 DEF SessionInv
<1>14. \A m \in Node : phase'[m] = "up" /\ ~swapped'[m] => Asked(m, cam'[m])
  BY <1>2, <1>7, <1>10 DEF SessionInv
<1> QED BY <1>9, <1>11, <1>12, <1>13, <1>14 DEF SessionInv

(* What comes to a tty or leaves it.  A session on the tty is lost, unless *)
(* none can be there; what a search found there is marked.                 *)
LEMMA TtyChanges ==
  ASSUME SessionInv, NEW p \in PortSet, NEW d \in Camera \cup {Other, Nobody},
         plugged' = [plugged EXCEPT ![p] = d],
         NEW ph \in [Node -> {"off", "search", "found", "up", "lost"}],
         \A m \in Node : ph[m] = phase[m] \/ (ph[m] = "search" /\ m \in made),
         phase' = Lost(p, ph) \/ (phase' = ph /\ plugged[p] \notin Camera),
         moved' = Moved(p, ph),
         \A m \in Node : ph[m] = "up" => cam'[m] = cam[m],
         cam' \in [Node -> Camera \cup {Nobody}],
         UNCHANGED <<alive, made, serial, port, swapped, synced>>
  PROVE  SessionInv'
<1>1. SessionType BY DEF SessionInv
<1>2. ASSUME NEW m \in Node
      PROVE  /\ phase'[m] \in {ph[m], "lost"}
             /\ phase'[m] = "lost" => ph[m] \in {"up", "lost"}
             /\ phase'[m] = "up" => phase[m] = "up" /\ ph[m] = "up" /\ port[m] # p
  <2>1. CASE phase' = Lost(p, ph)
    <3>1. phase'[m] = IF ph[m] = "up" /\ port[m] = p THEN "lost" ELSE ph[m] BY <2>1 DEF Lost
    <3> QED BY <3>1
  <2>2. CASE phase' = ph /\ plugged[p] \notin Camera
    BY <2>2 DEF SessionInv
  <2> QED BY <2>1, <2>2
<1>3. ASSUME NEW m \in Node
      PROVE  ~moved'[m] => ~moved[m] /\ ~(ph[m] = "found" /\ port[m] = p)
  <2>1. moved'[m] = (moved[m] \/ (ph[m] = "found" /\ port[m] = p)) BY Zenon DEF Moved
  <2> QED BY <2>1, Zenon
<1>4. moved' \in [Node -> BOOLEAN] BY <1>1, Zenon DEF Moved, SessionType
<1>5. phase' \in [Node -> {"off", "search", "found", "up", "lost"}] BY DEF Lost
<1>6. SessionType' BY <1>1, <1>4, <1>5 DEF SessionType
<1>7. \A m \in Node : phase'[m] # "off" \/ synced'[m] => m \in made' BY <1>2 DEF SessionInv
<1>8. \A m \in Node : port[m] \in PortSet /\ (port[m] # p => plugged'[port[m]] = plugged[port[m]])
  BY <1>1 DEF SessionType
<1>9. \A m \in Node : phase'[m] = "up" => cam'[m] = plugged'[port'[m]] /\ cam'[m] \in Camera
  BY <1>2, <1>8 DEF SessionInv
<1>10. ASSUME NEW m \in Node, phase'[m] = "found", ~moved'[m]
       PROVE  Asked(m, plugged'[port'[m]])
  <2>1. phase'[m] = ph[m] BY <1>2, <1>10
  <2>2. phase[m] = ph[m] BY <1>10, <2>1
  <2>3. port[m] # p /\ ~moved[m] BY <1>2, <1>3, <1>10, <2>1
  <2> QED BY <1>8, <1>10, <2>1, <2>2, <2>3 DEF SessionInv
<1>11. \A m \in Node : phase'[m] = "up" /\ ~swapped'[m] => Asked(m, cam'[m])
  BY <1>2 DEF SessionInv
<1> QED BY <1>6, <1>7, <1>9, <1>10, <1>11 DEF SessionInv

(* reboot() of a device that was connected.                                *)
LEMMA RebootsSession ==
  ASSUME SessionInv, NEW n \in made, n \in Node, Reboots(n),
         UNCHANGED <<alive, made, serial, port, swapped, synced>>
  PROVE  SessionInv'
<1>1. SessionType BY DEF SessionInv
<1>2. PICK p \in PortSet : p = port[n] BY <1>1 DEF SessionType
<1>3. PICK ph \in [Node -> {"off", "search", "found", "up", "lost"}] :
        ph = [phase EXCEPT ![n] = "search"]
  BY <1>1 DEF SessionType
<1>4. /\ plugged[p] # Nobody
      /\ plugged' = (IF plugged[p] = Other THEN plugged ELSE [plugged EXCEPT ![p] = Nobody])
      /\ phase' = Lost(p, ph) /\ moved' = Moved(p, ph) /\ cam' = [cam EXCEPT ![n] = Nobody]
  BY <1>2, <1>3, Zenon DEF Reboots, Alter
<1>5. PICK d \in Camera \cup {Other, Nobody} : plugged' = [plugged EXCEPT ![p] = d]
  <2>1. CASE plugged[p] = Other
    <3>1. plugged' = [plugged EXCEPT ![p] = Other] BY <1>1, <1>4, <2>1 DEF SessionType
    <3> QED BY <3>1
  <2>2. CASE plugged[p] # Other BY <1>4, <2>2
  <2> QED BY <2>1, <2>2
<1>6. \A m \in Node : ph[m] = phase[m] \/ (ph[m] = "search" /\ m \in made)
  BY <1>1, <1>3 DEF SessionType
<1>7. \A m \in Node : cam'[m] = IF m = n THEN Nobody ELSE cam[m]
  BY <1>1, <1>4 DEF SessionType
<1>8. \A m \in Node : ph[m] = "up" => cam'[m] = cam[m] BY <1>1, <1>3, <1>7 DEF SessionType
<1>9. cam' \in [Node -> Camera \cup {Nobody}] BY <1>1, <1>4 DEF SessionType
<1> QED BY <1>4, <1>5, <1>6, <1>8, <1>9, TtyChanges

(* A camera, or another device, is connected or taken away.                *)
LEMMA CablesSession ==
  ASSUME SessionInv, NEW p \in PortSet, Unplug(p) \/ \E d \in Camera \cup {Other} : Plug(p, d)
  PROVE  SessionInv'
<1>1. SessionType BY DEF SessionInv
<1>2. UNCHANGED <<alive, made, serial, port, cam, swapped, synced>> BY DEF Unplug, Plug, nodes
<1>3. cam' \in [Node -> Camera \cup {Nobody}] BY <1>1, <1>2 DEF SessionType
<1>4. moved' = Moved(p, phase) BY DEF Unplug, Plug
<1>5. phase \in [Node -> {"off", "search", "found", "up", "lost"}] BY <1>1 DEF SessionType
<1>6. CASE Unplug(p)
  <2>1. plugged' = [plugged EXCEPT ![p] = Nobody] /\ phase' = Lost(p, phase)
    BY <1>6 DEF Unplug, Alter
  <2> QED BY <1>2, <1>3, <1>4, <1>5, <2>1, TtyChanges
<1>7. ASSUME NEW d \in Camera \cup {Other}, Plug(p, d) PROVE SessionInv'
  <2>1. plugged' = [plugged EXCEPT ![p] = d] /\ phase' = phase /\ plugged[p] \notin Camera
    BY <1>7, NodeAssumption DEF Plug, Alter
  <2> QED BY <1>2, <1>3, <1>4, <1>5, <2>1, TtyChanges
<1> QED BY <1>6, <1>7

-----------------------------------------------------------------------------
(* The frames, and what is published.                                      *)

(* Sessions keep their frame as long as the calibration and the transforms *)
(* stay.                                                                   *)
LEMMA FramesKept ==
  ASSUME FramesInv, SessionInv, UNCHANGED <<frame, tf, swapped>>, calib' = calib \/ made = {},
         \A m \in Node : phase'[m] = "up" => phase[m] = "up" /\ cam'[m] = cam[m],
         \A m \in Node : synced'[m] => synced[m] \/ phase[m] = "up"
  PROVE  FramesInv'
<1>1. frame' = frame /\ tf' = tf /\ swapped' = swapped OBVIOUS
<1>2. ASSUME NEW m \in Node, phase'[m] = "up" \/ synced'[m]
      PROVE  \E c \in Camera : Framed(m, c)'
  <2>1. phase[m] = "up" \/ synced[m] BY <1>2
  <2>2. PICK c \in Camera : Framed(m, c) BY <2>1 DEF FramesInv
  <2>3. calib' = calib BY <2>1 DEF SessionInv
  <2>4. Framed(m, c)' BY <1>1, <2>2, <2>3 DEF Framed
  <2> QED BY <2>4
<1>3. frame' \in [Node -> Frame \ {Empty}] /\ tf' = [f \in Frame |-> tf'[f]]
  BY <1>1 DEF FramesInv
<1> QED BY <1>2, <1>3 DEF FramesInv

(* on_cam_connection: a new transform for a frame that another session     *)
(* uses is the pose of a camera with that frame.                           *)
LEMMA ConnectFrames ==
  ASSUME IInv, NEW n \in Node, Connect(n) PROVE FramesInv'
<1>1. SessionInv /\ SessionType /\ CalibInv /\ FramesInv BY DEF IInv, SessionInv
<1>2. PICK c \in Camera : c = plugged[port[n]] BY DEF Connect
<1>3. n \in made BY <1>1 DEF Connect, SessionInv
<1>4. PICK k : k = calib /\ k = calib' BY DEF Connect
<1>5. PICK f \in Frame \ {Empty} : f = FrameFor(k, c) BY <1>1, <1>3, <1>4, FramesGiven
<1>6. PICK pose : pose = PoseFor(k, c) OBVIOUS
<1>8. frame' = [frame EXCEPT ![n] = f]
  BY <1>2, <1>4, <1>5 DEF Connect, Alter, FrameOnConnection
<1>9. tf' = [tf EXCEPT ![f] = pose]
  BY <1>2, <1>4, <1>5, <1>6 DEF Connect, TransformOnConnection, PoseFor
<1>10. /\ phase' = [phase EXCEPT ![n] = "up"] /\ cam' = [cam EXCEPT ![n] = c]
       /\ swapped' = [swapped EXCEPT ![n] = moved[n]] /\ synced' = synced /\ phase[n] = "found"
  BY <1>2 DEF Connect, To, Alter
<1>11. frame' \in [Node -> Frame \ {Empty}] /\ tf' = [g \in Frame |-> tf'[g]]
  BY <1>1, <1>8, <1>9 DEF FramesInv
<1>12. tf'[f] = pose /\ \A g \in Frame : g # f => tf'[g] = tf[g]
  BY <1>1, <1>9 DEF FramesInv
<1>13. ASSUME NEW m \in Node, phase'[m] = "up" \/ synced'[m]
       PROVE  \E e \in Camera : Framed(m, e)'
  <2>1. CASE m = n
    <3>1. frame'[m] = f /\ cam'[m] = c /\ swapped'[m] = moved[n]
      BY <1>1, <1>8, <1>10, <2>1 DEF FramesInv, SessionType
    <3>2. Labelled(k, f, pose, c) BY <1>5, <1>6 DEF Labelled
    <3>3. ~moved[n] => Asked(n, c) BY <1>1, <1>2, <1>10 DEF SessionInv
    <3>4. Framed(m, c)' BY <1>4, <1>12, <2>1, <3>1, <3>2, <3>3 DEF Framed
    <3> QED BY <3>4
  <2>2. CASE m # n
    <3>1. /\ frame'[m] = frame[m] /\ cam'[m] = cam[m] /\ phase'[m] = phase[m]
          /\ swapped'[m] = swapped[m] /\ frame[m] \in Frame
      BY <1>1, <1>8, <1>10, <2>2 DEF FramesInv, SessionType
    <3>2. PICK e \in Camera : Framed(m, e) BY <1>1, <1>10, <1>13, <3>1 DEF FramesInv
    <3>3. Labelled(k, frame[m], tf'[frame[m]], e)
      <4>1. Labelled(k, frame[m], tf[frame[m]], e) BY <1>4, <3>2 DEF Framed
      <4>2. CASE frame[m] = f BY <1>5, <1>6, <1>12, <4>1, <4>2 DEF Labelled
      <4>3. CASE frame[m] # f
        <5>1. tf'[frame[m]] = tf[frame[m]] BY <1>12, <3>1, <4>3
        <5> QED BY <4>1, <5>1
      <4> QED BY <4>2, <4>3
    <3>4. Framed(m, e)' BY <1>4, <3>1, <3>2, <3>3 DEF Framed
    <3> QED BY <3>4
  <2> QED BY <2>1, <2>2
<1> QED BY <1>11, <1>13 DEF FramesInv

(* Where nothing is published there is nothing to show.                    *)
LEMMA Silent == out' = Silence => FrameOfOwnCamera' /\ TransformOfCamera'
<1> SUFFICES ASSUME out' = Silence PROVE FrameOfOwnCamera' /\ TransformOfCamera'
  OBVIOUS
<1>1. ~Published' BY DEF Published, Silence
<1> QED BY <1>1, Zenon DEF FrameOfOwnCamera, TransformOfCamera

(* What a node publishes with the frame of c, from the camera c.           *)
LEMMA OwnFrame ==
  ASSUME NEW n \in Node, NEW c \in Camera, Labelled(calib, frame[n], tf[frame[n]], c),
         UNCHANGED <<calib, tf, swapped>>,
         out'.node = n, out'.frame = frame[n], SameSource(n)' => out'.cam = c
  PROVE  FrameOfOwnCamera' /\ TransformOfCamera'
<1>1. PICK k : k = calib /\ k = calib' OBVIOUS
<1>2. PICK d \in Camera : FrameFor(k, d) = frame[n] /\ tf[frame[n]] = PoseFor(k, d)
  BY <1>1 DEF Labelled
<1>3. frame[n] = FrameFor(k, c) BY <1>1 DEF Labelled
<1>4. ~Shared(k, c) => PoseFor(k, d) = PoseFor(k, c) BY <1>2, <1>3 DEF Shared, PoseFor
<1>5. tf'[out'.frame] = PoseFor(k, d) /\ out'.frame = FrameFor(k, c) BY <1>2, <1>3
<1>6. FrameOfOwnCamera' BY <1>1, <1>5 DEF FrameOfOwnCamera
<1>7. TransformOfCamera' BY <1>1, <1>4, <1>5 DEF TransformOfCamera, PoseFor
<1> QED BY <1>6, <1>7

(* A message stays true as long as nothing happens.                        *)
LEMMA Repeated ==
  ASSUME FrameOfOwnCamera, TransformOfCamera, UNCHANGED <<out, calib, tf, swapped>>
  PROVE  FrameOfOwnCamera' /\ TransformOfCamera'
<1>1. PICK o, k : o = out /\ o = out' /\ k = calib /\ k = calib' OBVIOUS
<1>2. Published' => Published BY DEF Published
<1>3. SameSource(out.node)' => SameSource(out.node) BY DEF SameSource
<1>4. FrameOfOwnCamera' BY <1>1, <1>2, <1>3 DEF FrameOfOwnCamera
<1>5. TransformOfCamera' BY <1>1, <1>2, <1>3 DEF TransformOfCamera
<1> QED BY <1>4, <1>5

(* A cloud: with XYZITR the wanted camera is the one that connected last,  *)
(* if the tty kept it and no other answers to the number.                  *)
LEMMA CloudFrame ==
  ASSUME IInv, NodeAssumption, NEW n \in Node, PublishCloud(n)
  PROVE  FrameOfOwnCamera' /\ TransformOfCamera'
<1>1. /\ UNCHANGED <<calib, tf, swapped>> /\ Streams(n)
  BY DEF PublishCloud, session
<1>2. PICK v, points :
        /\ v \in VideoOf(n)
        /\ out' = [kind |-> "cloud", node |-> n, cam |-> v, frame |-> frame[n],
                   mode |-> device[n].mode, points |-> points]
  BY Zenon DEF PublishCloud
<1>3. out'.node = n /\ out'.frame = frame[n] /\ out'.cam = v /\ out'.kind = "cloud" BY <1>2
<1>4. phase[n] = "up" \/ synced[n] BY <1>1 DEF Streams
<1>5. PICK c \in Camera : Framed(n, c) BY <1>4 DEF IInv, FramesInv
<1>6. SameSource(n)' => v = c
  <2> SUFFICES ASSUME SameSource(n)' PROVE v = c
    OBVIOUS
  <2>1. CASE Format[n] = "XYZ"
    <3>1. phase[n] = "up" /\ v = cam[n] BY <1>1, <1>2, <2>1 DEF VideoOf, Streams
    <3> QED BY <1>5, <3>1 DEF Framed
  <2>2. CASE Format[n] # "XYZ"
    <3>1. Unique(n) /\ ~swapped[n] BY <1>1, <1>3, <2>2 DEF SameSource
    <3>2. c = Want[n] BY <1>5, <3>1 DEF Framed, Asked, Unique
    <3>3. Want[n] \in {v, Nobody} BY <1>2, <2>2 DEF VideoOf
    <3> QED BY <3>1, <3>2, <3>3 DEF Unique
  <2> QED BY <2>1, <2>2
<1>7. Labelled(calib, frame[n], tf[frame[n]], c) BY <1>5 DEF Framed
<1> QED BY <1>1, <1>3, <1>6, <1>7, OwnFrame

-----------------------------------------------------------------------------
(* The running time of the IMU samples.                                    *)

(* The running time starts over at zero.                                   *)
LEMMA ImuKept ==
  ASSUME ImuInv, imu' = imu \/ \E n \in Node : imu' = Started(n) PROVE ImuInv'
<1>1. Running(NoImu)
  <2>1. NoImu.latest = 0 /\ NoImu.now = 0 BY DEF NoImu
  <2> QED BY <2>1, Widths DEF Running, Positive
<1>2. CASE imu' = imu BY <1>2 DEF ImuInv
<1>3. ASSUME NEW n \in Node, imu' = Started(n) PROVE ImuInv'
  <2>1. imu' = [imu EXCEPT ![n] = NoImu] BY <1>3 DEF Started, Alter
  <2>2. \A m \in Node : imu'[m] = IF m = n THEN NoImu ELSE imu[m] BY <2>1 DEF ImuInv
  <2>3. imu' = [m \in Node |-> imu'[m]] BY <2>1 DEF ImuInv
  <2> QED BY <1>1, <2>2, <2>3 DEF ImuInv
<1> QED BY <1>2, <1>3

(* The IMU part of a frame: whatever the running time was, the samples get *)
(* their true times, and the running time stays the true one.              *)
LEMMA ReadImuTrue ==
  ASSUME IInv, NEW n \in Node, ReadImu(n)
  PROVE  \E latest, end, due :
           /\ latest \in -Half .. Half - 1
           /\ imu' = [imu EXCEPT ![n] = [latest |-> latest, now |-> Positive(latest), end |-> end]]
           /\ out' = [kind |-> "imu", node |-> n, cam |-> cam[n], frame |-> frame[n],
                      stamps |-> Shift(due), due |-> due]
<1>1. PICK end, samples :
        /\ end \in EndTimes /\ samples \in SampleLists
        /\ imu[n].latest + SamplePeriod * Len(samples) < 2^(Width - 1)
        /\ imu' = Alter(imu, n,
             [latest |-> UnpackImuData(imu[n].latest, FrameTime(n, end), HostAhead, samples).latest,
              now |-> TrueNow(imu[n].now,
                        TrueTimes(imu[n].now, end - Exposure(device[n].mode), samples)),
              end |-> end])
        /\ out' = [kind |-> "imu", node |-> n, cam |-> cam[n], frame |-> frame[n],
             stamps |-> UnpackImuData(imu[n].latest, FrameTime(n, end), HostAhead, samples).stamps,
             due |-> TrueTimes(imu[n].now, end - Exposure(device[n].mode), samples).before
                       \o TrueTimes(imu[n].now, end - Exposure(device[n].mode), samples).after]
  BY Zenon DEF ReadImu
<1>2. PICK L \in Int : L = imu[n].latest /\ -Half <= L /\ imu[n].now = Positive(L)
  BY Widths DEF IInv, ImuInv, Running
<1>3. PICK e \in Int : e = end - Exposure(device[n].mode) /\ -Half <= e /\ e <= end
  <2>1. device[n].mode \in Modes BY DEF IInv, SettingsInv, DeviceType
  <2>2. end \in Nat BY <1>1, ImuAssumption
  <2>3. PICK x \in Nat : x = Exposure(device[n].mode) BY DEF Exposure
  <2>4. x <= Half BY <2>1, <2>3, TimesAssumption DEF Half
  <2> QED BY <2>2, <2>3, <2>4, Widths
<1>4. FrameTime(n, end) = Unsigned(e) BY <1>3 DEF FrameTime
<1>5. samples \in Seq(Nat \cup {-1}) BY <1>1, ImuAssumption
<1>6. PICK k \in Nat : k = Len(samples) BY <1>5
<1>7. InWidth(samples, k, e, L)
  <2>1. \A i \in 1 .. k : e + samples[i] + SamplePeriod * k < Half
    <3>1. ASSUME NEW i \in 1 .. k PROVE e + samples[i] + SamplePeriod * k < Half
      <4>1. i \in DOMAIN samples /\ samples[i] \in Int BY <1>5, <1>6
      <4>2. end + samples[i] + SamplePeriod * k < Half
        BY <1>1, <1>6, <4>1, TimesAssumption DEF Half
      <4>3. end \in Int /\ SamplePeriod * k \in Int BY <1>1, ImuAssumption DEF SamplePeriod
      <4> QED BY <1>3, <4>1, <4>2, <4>3, Widths
    <3> QED BY <3>1
  <2> QED BY <1>1, <1>2, <1>3, <1>6, <2>1 DEF InWidth, Half
<1>8. PICK r : r = UnpackImuData(L, Unsigned(e), HostAhead, samples) OBVIOUS
<1>9. PICK t : t = TrueTimes(imu[n].now, e, samples) OBVIOUS
<1>10. /\ r.latest \in -Half .. Half - 1 /\ TrueNow(imu[n].now, t) = Positive(r.latest)
       /\ r.stamps = Shift(t.before \o t.after)
  BY <1>2, <1>5, <1>6, <1>7, <1>8, <1>9, SamplesTrue
<1>11. imu' = [imu EXCEPT ![n] = [latest |-> r.latest, now |-> Positive(r.latest), end |-> end]]
  BY <1>1, <1>2, <1>3, <1>4, <1>8, <1>9, <1>10, Zenon DEF Alter
<1>12. out' = [kind |-> "imu", node |-> n, cam |-> cam[n], frame |-> frame[n],
               stamps |-> Shift(t.before \o t.after), due |-> t.before \o t.after]
  BY <1>1, <1>2, <1>3, <1>4, <1>8, <1>9, <1>10, Zenon
<1> QED BY <1>10, <1>11, <1>12, Zenon

(* So it keeps the invariant.                                              *)
LEMMA ReadImuKeeps ==
  ASSUME IInv, NEW n \in Node, ReadImu(n)
  PROVE  ImuInv' /\ FrameOfOwnCamera' /\ TransformOfCamera'
<1>1. phase[n] = "up" /\ UNCHANGED <<calib, tf, swapped>> BY DEF ReadImu, session
<1>2. PICK latest, end, due :
        /\ latest \in -Half .. Half - 1
        /\ imu' = [imu EXCEPT ![n] = [latest |-> latest, now |-> Positive(latest), end |-> end]]
        /\ out' = [kind |-> "imu", node |-> n, cam |-> cam[n], frame |-> frame[n],
                   stamps |-> Shift(due), due |-> due]
  BY ReadImuTrue
<1>3. out'.node = n /\ out'.frame = frame[n] /\ out'.cam = cam[n] BY <1>2
<1>4. FrameOfOwnCamera' /\ TransformOfCamera'
  <2>1. PICK c \in Camera : Framed(n, c) BY <1>1 DEF IInv, FramesInv
  <2>2. c = cam[n] /\ Labelled(calib, frame[n], tf[frame[n]], c) BY <1>1, <2>1 DEF Framed
  <2> QED BY <1>1, <1>3, <2>2, OwnFrame
<1>5. imu = [m \in Node |-> imu[m]] BY DEF IInv, ImuInv
<1>6. PICK x : x = [latest |-> latest, now |-> Positive(latest), end |-> end] OBVIOUS
<1>7. Running(x)
  <2>1. x.latest = latest /\ x.now = Positive(latest) BY <1>6
  <2> QED BY <1>2, <2>1, Zenon DEF Running
<1>8. imu' = [m \in Node |-> imu'[m]] /\ \A m \in Node : imu'[m] = IF m = n THEN x ELSE imu[m]
  BY <1>2, <1>5, <1>6
<1>9. ImuInv' BY <1>7, <1>8 DEF IInv, ImuInv
<1> QED BY <1>4, <1>9

-----------------------------------------------------------------------------
(* The invariant holds.                                                    *)

LEMMA InitInv == Init => IInv
<1> SUFFICES ASSUME Init PROVE IInv
  OBVIOUS
<1>1. Ports[1] \in PortSet
  <2>1. 1 \in DOMAIN Ports BY NodeAssumption DEF IsSequence
  <2> QED BY <2>1, PortsExist
<1>2. Defaults \in DeviceType /\ Defaults \in ParamType
  BY DEF Defaults, DeviceType, ParamType, Modes, SyncModes
<1>3. SettingsInv BY <1>2 DEF Init, SettingsInv
<1>4. CalibInv BY DEF Init, CalibInv
<1>5. SessionInv BY <1>1 DEF Init, SessionInv, SessionType
<1>6. FramesInv
  <2>1. Default \in Frame \ {Empty} BY FileAssumption DEF Frame
  <2> QED BY <2>1 DEF Init, FramesInv
<1>7. ImuInv
  <2>1. NoImu.latest = 0 /\ NoImu.now = 0 BY DEF NoImu
  <2>2. Running(NoImu) BY <2>1, Widths DEF Running, Positive
  <2> QED BY <2>2 DEF Init, ImuInv
<1>8. FrameOfOwnCamera /\ TransformOfCamera
  <2>1. ~Published BY DEF Init, Published, Silence
  <2> QED BY <2>1, Zenon DEF FrameOfOwnCamera, TransformOfCamera
<1> QED BY <1>3, <1>4, <1>5, <1>6, <1>7, <1>8 DEF IInv

(* A session that ends, begins its search or finds a port.                 *)
LEMMA Quiet ==
  ASSUME IInv, NEW n \in Node, NEW ph \in {"off", "search", "found"}, To(n, ph),
         UNCHANGED <<frame, tf, swapped, synced>>, calib' = calib \/ made = {}
  PROVE  FramesInv' /\ ImuInv' /\ FrameOfOwnCamera' /\ TransformOfCamera'
<1>1. SessionInv /\ SessionType /\ FramesInv /\ ImuInv BY DEF IInv, SessionInv
<1>2. phase' = [phase EXCEPT ![n] = ph] /\ cam' = [cam EXCEPT ![n] = Nobody] BY DEF To, Alter
<1>3. \A m \in Node : phase'[m] = "up" => phase[m] = "up" /\ cam'[m] = cam[m]
  BY <1>1, <1>2 DEF SessionInv, SessionType
<1>4. FramesInv' BY <1>1, <1>3, FramesKept
<1>5. ImuInv' BY <1>1, ImuKept DEF To
<1>6. out' = Silence BY DEF To
<1> QED BY <1>4, <1>5, <1>6, Silent

(* The camera leaves or comes, and sessions are lost.                      *)
LEMMA Disturbed ==
  ASSUME IInv, NEW p, NEW ph, phase' = Lost(p, ph) \/ phase' = ph,
         \A m \in Node : ph[m] = "up" => phase[m] = "up" /\ cam'[m] = cam[m],
         UNCHANGED <<frame, tf, calib, swapped, synced>>, out' = Silence,
         imu' = imu \/ \E n \in Node : imu' = Started(n)
  PROVE  FramesInv' /\ ImuInv' /\ FrameOfOwnCamera' /\ TransformOfCamera'
<1>1. FramesInv /\ ImuInv /\ SessionInv BY DEF IInv
<1>2. \A m \in Node : phase'[m] = "up" => ph[m] = "up" BY DEF Lost
<1>3. FramesInv' BY <1>1, <1>2, FramesKept
<1> QED BY <1>1, <1>3, ImuKept, Silent

(* reboot() of a device that was connected.                                *)
LEMMA RebootsKeeps ==
  ASSUME IInv, NEW n \in Node, n \in made, Reboots(n),
         UNCHANGED <<alive, calib, made, serial, port, frame, tf, swapped, synced>>
  PROVE  SessionInv' /\ FramesInv' /\ ImuInv' /\ FrameOfOwnCamera' /\ TransformOfCamera'
<1>1. SessionInv /\ SessionType BY DEF IInv, SessionInv
<1>2. SessionInv' BY <1>1, RebootsSession
<1>3. PICK ph : ph = [phase EXCEPT ![n] = "search"] OBVIOUS
<1>4. /\ phase' = Lost(port[n], ph) /\ cam' = [cam EXCEPT ![n] = Nobody]
      /\ imu' = Started(n) /\ out' = Silence
  BY <1>3, Zenon DEF Reboots, Alter
<1>5. \A m \in Node : ph[m] = "up" => phase[m] = "up" /\ cam'[m] = cam[m]
  BY <1>1, <1>3, <1>4 DEF SessionType
<1> QED BY <1>2, <1>4, <1>5, Disturbed

(* Every step keeps the invariant.                                         *)
LEMMA NextInv == IInv /\ [Next]_vars => IInv'
<1> SUFFICES ASSUME IInv, [Next]_vars PROVE IInv'
  OBVIOUS
<1> DEFINE Others == FramesInv' /\ ImuInv' /\ FrameOfOwnCamera' /\ TransformOfCamera'
<1>1. SettingsInv /\ CalibInv /\ SessionInv /\ SessionType /\ made \subseteq Node
  BY DEF IInv, SessionInv, SettingsInv
<1>2. ASSUME UNCHANGED <<made, calib>> PROVE CalibInv' BY <1>1, <1>2 DEF CalibInv
<1>3. ASSUME UNCHANGED nodes PROVE SettingsInv' BY <1>1, <1>3, SettingsKept
<1>4. ASSUME NEW n \in Node, Construct(n) PROVE IInv'
  <2>1. /\ To(n, "search") /\ made' = made \cup {n}
        /\ UNCHANGED <<alive, plugged, port, serial, frame, tf, swapped, synced>>
        /\ calib' = IF calib = Nobody THEN Load(File[FileOf[n]]) ELSE calib
    BY <1>4 DEF Construct
  <2>2. SettingsInv' BY <1>4, ConstructSettings
  <2>3. CalibInv'
    <3>1. FileOf[n] \in DOMAIN File BY FileAssumption
    <3>2. calib' # Nobody /\ made' # {} BY <2>1, <3>1, LoadAssumption
    <3>3. \E f \in DOMAIN File : calib' = Load(File[f]) BY <1>1, <2>1, <3>1 DEF CalibInv
    <3> QED BY <3>2, <3>3 DEF CalibInv
  <2>4. SessionInv'
    <3>1. serial' \in [Node -> BOOLEAN] BY <1>1, <2>1 DEF SessionType
    <3> QED BY <1>1, <2>1, <3>1, ToSession
  <2>5. Others BY <1>1, <2>1, Quiet DEF CalibInv
  <2> QED BY <2>2, <2>3, <2>4, <2>5 DEF IInv
<1>5. ASSUME NEW n \in Node, FindPort(n) PROVE IInv'
  <2>1. To(n, "found") /\ UNCHANGED <<made, calib, frame, tf, nodes, swapped, synced>>
    BY <1>5 DEF FindPort, nodes
  <2>2. SessionInv' BY <1>1, <1>5, NodeAssumption, FindPortSession
  <2>3. Others BY <2>1, Quiet
  <2> QED BY <1>2, <1>3, <2>1, <2>2, <2>3 DEF IInv
<1>6. ASSUME NEW n \in Node, Connect(n) PROVE IInv'
  <2>1. To(n, "up") /\ UNCHANGED <<made, calib, nodes>> BY <1>6 DEF Connect, nodes
  <2>2. SessionInv' BY <1>1, <1>6, ConnectSession
  <2>3. FramesInv' BY <1>6, ConnectFrames
  <2>4. out' = Silence /\ imu' = imu BY <2>1 DEF To
  <2>5. ImuInv' BY <2>4, ImuKept DEF IInv
  <2>6. FrameOfOwnCamera' /\ TransformOfCamera' BY <2>4, Silent
  <2> QED BY <1>2, <1>3, <2>1, <2>2, <2>3, <2>5, <2>6 DEF IInv
<1>7. ASSUME NEW n \in Node,
             ConnectOther(n) \/ SessionEnds(n) \/ StartStreaming(n) \/ StopStreaming(n)
      PROVE  IInv'
  <2>1. PICK ph \in {"off", "search"} : To(n, ph) /\ (ph = "off" \/ phase[n] # "off" \/ n \in made)
    BY <1>7 DEF ConnectOther, SessionEnds, StartStreaming, StopStreaming
  <2>2. UNCHANGED <<alive, calib, plugged, nodes, made, port, frame, tf, swapped, synced>>
        /\ (serial' = serial \/ serial' = [serial EXCEPT ![n] = TRUE])
    BY <1>7 DEF ConnectOther, SessionEnds, StartStreaming, StopStreaming, nodes, Alter
  <2>3. serial' \in [Node -> BOOLEAN] BY <1>1, <2>2 DEF SessionType
  <2>4. ph = "off" \/ n \in made' BY <1>1, <2>1, <2>2 DEF SessionInv
  <2>5. SessionInv' BY <1>1, <2>1, <2>2, <2>3, <2>4, ToSession
  <2>6. Others BY <2>1, <2>2, Quiet
  <2> QED BY <1>2, <1>3, <2>2, <2>5, <2>6 DEF IInv
<1>8. ASSUME NEW n \in Node, RebootService(n) PROVE IInv'
  <2>1. n \in made /\ UNCHANGED <<alive, calib, nodes, made, serial, port, frame, tf, swapped, synced>>
    BY <1>8 DEF RebootService, nodes
  <2>2. SessionInv' /\ Others
    <3>1. CASE Reboots(n) BY <2>1, <3>1, RebootsKeeps
    <3>2. CASE To(n, "off") /\ UNCHANGED plugged
      <4>1. serial' \in [Node -> BOOLEAN] BY <1>1, <2>1 DEF SessionType
      <4>2. SessionInv' BY <1>1, <2>1, <3>2, <4>1, ToSession
      <4> QED BY <2>1, <3>2, <4>2, Quiet
    <3> QED BY <1>8, <3>1, <3>2 DEF RebootService
  <2> QED BY <1>2, <1>3, <2>1, <2>2 DEF IInv
<1>9. ASSUME NEW n \in Node, SetParameters(n) PROVE IInv'
  <2>1. n \in made /\ UNCHANGED <<calib, made, serial, port, frame, tf, swapped, synced>>
    BY <1>9 DEF SetParameters
  <2>2. \/ Reboots(n) /\ alive' = alive
        \/ alive' = FALSE /\ Undisturbed /\ UNCHANGED plugged
        \/ (To(n, "off") \/ Undisturbed) /\ UNCHANGED <<plugged, alive>>
    BY <1>9, Zenon DEF SetParameters
  <2>3. SettingsInv' BY <1>9, SetParametersSettings
  <2>4. SessionInv' /\ Others
    <3>1. CASE Reboots(n) /\ alive' = alive BY <2>1, <3>1, RebootsKeeps
    <3>2. CASE To(n, "off") /\ UNCHANGED <<plugged, alive>>
      <4>1. serial' \in [Node -> BOOLEAN] BY <1>1, <2>1 DEF SessionType
      <4>2. SessionInv' BY <1>1, <2>1, <3>2, <4>1, ToSession
      <4> QED BY <2>1, <3>2, <4>2, Quiet
    <3>3. CASE Undisturbed /\ UNCHANGED plugged /\ alive' \in {alive, FALSE}
      <4>1. UNCHANGED <<phase, cam, moved, imu>> /\ out' = Silence BY <3>3 DEF Undisturbed
      <4>2. SessionInv' BY <1>1, <2>1, <3>3, <4>1 DEF SessionInv, SessionType
      <4>3. Others BY <2>1, <4>1, Disturbed
      <4> QED BY <4>2, <4>3
    <3> QED BY <2>2, <3>1, <3>2, <3>3
  <2> QED BY <1>2, <2>1, <2>3, <2>4 DEF IInv
<1>10. ASSUME NEW n \in Node, PublishCloud(n) \/ ReadImu(n) PROVE IInv'
  <2>1. UNCHANGED <<alive, calib, plugged, nodes, session, tf>> /\ UNCHANGED <<made, calib>>
    BY <1>10 DEF PublishCloud, ReadImu, nodes
  <2>2. UNCHANGED <<phase, serial, port, cam, moved, swapped, frame, tf, alive, plugged, made>>
    BY <2>1 DEF session
  <2>6. \A m \in Node : synced'[m] => synced[m] \/ phase[m] = "up"
    <3>1. CASE PublishCloud(n) BY <3>1 DEF PublishCloud
    <3>2. CASE ReadImu(n)
      <4>1. phase[n] = "up" /\ synced' = [synced EXCEPT ![n] = (Format[n] = "XYZITR")]
        BY <3>2 DEF ReadImu, Alter
      <4> QED BY <1>1, <4>1 DEF SessionType
    <3> QED BY <1>10, <3>1, <3>2
  <2>7. synced' \in [Node -> BOOLEAN]
    BY <1>1, <1>10 DEF PublishCloud, ReadImu, Alter, SessionType
  <2>3. SessionInv' BY <1>1, <2>2, <2>6, <2>7 DEF SessionInv, SessionType
  <2>4. FramesInv' BY <1>1, <2>1, <2>2, <2>6, FramesKept DEF IInv
  <2>5. ImuInv' /\ FrameOfOwnCamera' /\ TransformOfCamera'
    <3>1. CASE PublishCloud(n)
      <4>1. imu' = imu BY <3>1 DEF PublishCloud
      <4>2. ImuInv' BY <4>1, ImuKept DEF IInv
      <4> QED BY <3>1, <4>2, NodeAssumption, CloudFrame
    <3>2. CASE ReadImu(n) BY <3>2, ReadImuKeeps
    <3> QED BY <1>10, <3>1, <3>2
  <2> QED BY <1>2, <1>3, <2>1, <2>3, <2>4, <2>5 DEF IInv
<1>11. ASSUME NEW p \in PortSet, Unplug(p) \/ \E d \in Camera \cup {Other} : Plug(p, d)
       PROVE  IInv'
  <2>1. UNCHANGED <<calib, nodes, made, frame, tf, imu, cam, swapped, synced>> /\ out' = Silence
    BY <1>11 DEF Unplug, Plug, nodes
  <2>2. phase' = Lost(p, phase) \/ phase' = phase BY <1>11 DEF Unplug, Plug
  <2>3. SessionInv' BY <1>1, <1>11, CablesSession
  <2>4. Others BY <2>1, <2>2, Disturbed
  <2> QED BY <1>2, <1>3, <2>1, <2>3, <2>4 DEF IInv
<1>12. CASE UNCHANGED vars
  <2>1. UNCHANGED <<alive, calib, plugged, tf, imu, synced, out>> /\ UNCHANGED nodes /\ UNCHANGED session
    BY <1>12 DEF vars
  <2>2. UNCHANGED <<phase, serial, port, cam, moved, swapped, frame, made, calib>>
    BY <2>1 DEF session, nodes
  <2>3. SessionInv' BY <1>1, <2>1, <2>2 DEF SessionInv, SessionType
  <2>4. FramesInv' BY <1>1, <2>1, <2>2, FramesKept DEF IInv
  <2>5. ImuInv' BY <2>1, ImuKept DEF IInv
  <2>6. FrameOfOwnCamera' /\ TransformOfCamera' BY <2>1, <2>2, Repeated DEF IInv
  <2> QED BY <1>2, <1>3, <2>1, <2>2, <2>3, <2>4, <2>5, <2>6 DEF IInv
<1> QED
  BY <1>4, <1>5, <1>6, <1>7, <1>8, <1>9, <1>10, <1>11, <1>12 DEF Next

LEMMA Invariance == Spec => []IInv
<1>1. Init => IInv BY InitInv
<1>2. IInv /\ [Next]_vars => IInv' BY NextInv
<1> QED BY <1>1, <1>2, PTL DEF Spec

-----------------------------------------------------------------------------
(* The conversions: what is published is right.                            *)

Converted == RowsAgree /\ TimeWithinBank /\ ImuTimesTrue

(* A cloud is right.                                                       *)
LEMMA CloudConverted ==
  ASSUME IInv, NodeAssumption, NEW n \in Node, PublishCloud(n)
  PROVE  Converted'
<1>1. PICK m \in Modes : m = device[n].mode BY DEF IInv, SettingsInv, DeviceType
<1>2. PICK c, s :
        /\ out' = [kind |-> "cloud", node |-> n, cam |-> c, frame |-> frame[n],
                   mode |-> device[n].mode, points |-> s]
        /\ \/ Format[n] = "XYZ" /\ s = CdcPoints[device[n].mode]
           \/ \E dots \in [0 .. 2 * RowSize - 1 -> Dots] : s = HistPoints[device[n].mode][dots]
  <2>1. PICK c \in VideoOf(n) :
          \/ /\ Format[n] = "XYZ"
             /\ out' = [kind |-> "cloud", node |-> n, cam |-> c, frame |-> frame[n],
                        mode |-> device[n].mode, points |-> CdcPoints[device[n].mode]]
          \/ \E dots \in [0 .. 2 * RowSize - 1 -> Dots] :
               out' = [kind |-> "cloud", node |-> n, cam |-> c, frame |-> frame[n],
                       mode |-> device[n].mode, points |-> HistPoints[device[n].mode][dots]]
    BY Zenon DEF PublishCloud
  <2>2. PICK a, D : a = device[n].mode /\ D = [0 .. 2 * RowSize - 1 -> Dots] OBVIOUS
  <2>3. CASE \E dots \in D :
               out' = [kind |-> "cloud", node |-> n, cam |-> c, frame |-> frame[n],
                       mode |-> a, points |-> HistPoints[a][dots]]
    <3>1. PICK dots \in D :
            out' = [kind |-> "cloud", node |-> n, cam |-> c, frame |-> frame[n],
                    mode |-> a, points |-> HistPoints[a][dots]]
      BY <2>3
    <3>2. PICK s : s = HistPoints[a][dots] OBVIOUS
    <3> QED BY <2>2, <3>1, <3>2, Zenon
  <2>4. CASE /\ Format[n] = "XYZ"
             /\ out' = [kind |-> "cloud", node |-> n, cam |-> c, frame |-> frame[n],
                        mode |-> a, points |-> CdcPoints[a]]
    BY <2>2, <2>4, Zenon
  <2> QED BY <2>1, <2>2, <2>3, <2>4, Zenon
<1>3. CloudRows(m, s) /\ (Format[n] = "XYZITR" => CloudTimes(m, s)) BY <1>1, <1>2, CloudsRight
<1>4. out'.kind = "cloud" /\ out'.node = n /\ out'.mode = m /\ out'.points = s BY <1>1, <1>2
<1>5. RowsAgree' BY <1>3, <1>4 DEF RowsAgree, CloudRows
<1>6. TimeWithinBank' BY <1>3, <1>4 DEF TimeWithinBank, SixFields, CloudTimes, TimeRight
<1>7. ImuTimesTrue' BY <1>4 DEF ImuTimesTrue
<1> QED BY <1>5, <1>6, <1>7 DEF Converted

(* IMU data are right.                                                     *)
LEMMA ImuConverted ==
  ASSUME IInv, NEW n \in Node, ReadImu(n)
  PROVE  Converted'
<1>1. PICK due :
        out' = [kind |-> "imu", node |-> n, cam |-> cam[n], frame |-> frame[n],
                stamps |-> Shift(due), due |-> due]
  BY ReadImuTrue
<1>2. out'.kind = "imu" /\ out'.stamps = Shift(due) /\ out'.due = due BY <1>1
<1>3. RowsAgree' /\ TimeWithinBank' BY <1>2 DEF RowsAgree, TimeWithinBank, SixFields
<1>4. ImuTimesTrue' BY <1>2 DEF ImuTimesTrue, Shift
<1> QED BY <1>3, <1>4 DEF Converted

(* Without a message there is nothing to be wrong.                         *)
LEMMA SilenceConverted == out' = Silence => Converted'
<1> SUFFICES ASSUME out' = Silence PROVE Converted'
  OBVIOUS
<1>1. out'.kind = "none" BY DEF Silence
<1> QED BY <1>1 DEF Converted, RowsAgree, TimeWithinBank, SixFields, ImuTimesTrue

(* Every step publishes what is right, or nothing.                         *)
LEMMA NextConverted == IInv /\ Converted /\ [Next]_vars => Converted'
<1> SUFFICES ASSUME IInv, Converted, [Next]_vars PROVE Converted'
  OBVIOUS
<1>1. ASSUME NEW n \in Node,
             \/ Construct(n) \/ FindPort(n) \/ Connect(n) \/ ConnectOther(n) \/ SessionEnds(n)
             \/ StartStreaming(n) \/ StopStreaming(n) \/ RebootService(n) \/ SetParameters(n)
      PROVE  Converted'
  <2>1. Construct(n) \/ FindPort(n) \/ Connect(n) \/ ConnectOther(n) => out' = Silence
    BY Zenon DEF Construct, FindPort, Connect, ConnectOther, To
  <2>2. SessionEnds(n) \/ StartStreaming(n) \/ StopStreaming(n) => out' = Silence
    BY Zenon DEF SessionEnds, StartStreaming, StopStreaming, To
  <2>3. RebootService(n) \/ SetParameters(n) => out' = Silence
    BY Zenon DEF RebootService, SetParameters, Reboots, Undisturbed, To
  <2> QED BY <1>1, <2>1, <2>2, <2>3, SilenceConverted
<1>2. ASSUME NEW n \in Node, PublishCloud(n) \/ ReadImu(n) PROVE Converted'
  BY <1>2, NodeAssumption, CloudConverted, ImuConverted
<1>3. ASSUME NEW p \in PortSet, Unplug(p) \/ \E d \in Camera \cup {Other} : Plug(p, d)
      PROVE  Converted'
  <2>1. out' = Silence BY <1>3 DEF Unplug, Plug
  <2> QED BY <2>1, SilenceConverted
<1>4. CASE UNCHANGED vars
  <2>1. PICK o : o = out /\ o = out' BY <1>4 DEF vars
  <2> QED BY <2>1 DEF Converted, RowsAgree, TimeWithinBank, SixFields, ImuTimesTrue
<1> QED BY <1>1, <1>2, <1>3, <1>4, Zenon DEF Next

(* So all that is published is right.                                      *)
LEMMA ConversionsRight == Spec => []Converted
<1>1. Init => Converted
  <2> SUFFICES ASSUME Init PROVE Converted
    OBVIOUS
  <2>1. out.kind = "none" BY DEF Init, Silence
  <2> QED BY <2>1 DEF Converted, RowsAgree, TimeWithinBank, SixFields, ImuTimesTrue
<1>2. IInv /\ Converted /\ [Next]_vars => Converted' BY NextConverted
<1> QED BY <1>1, <1>2, Invariance, PTL DEF Spec

-----------------------------------------------------------------------------
(* The properties.                                                         *)

(* Every variable has its type: whatever a node is launched with and       *)
(* whatever is set, the device keeps valid settings, and a running time of *)
(* the samples never leaves its width.                                     *)
THEOREM TypeCorrect == Spec => []TypeOK
BY Invariance, InvGives, PTL

(* find_port: a node that was given a serial number is connected to a      *)
(* camera with that number, unless the tty changed between the search and  *)
(* open().                                                                 *)
THEOREM WantedCameraConnected == Spec => []WantedCamera
BY Invariance, InvGives, PTL

(* on_parameters_set and the constructor: the device has the settings that *)
(* the parameters show, after any sequence of lists.                       *)
THEOREM ReportedSettings == Spec => []SettingsAsReported
BY Invariance, InvGives, PTL

(* on_cam_connection: over any sessions of any number of nodes, whatever   *)
(* is published has the frame id that the node's calibration file gives    *)
(* for the camera it comes from, if the process has loaded that file.      *)
THEOREM OwnFrameIds == Spec => []FrameOfOwnCamera
<1>1. IInv => FrameOfOwnCamera BY DEF IInv
<1> QED BY <1>1, Invariance, PTL

(* on_cam_connection: and the transform of that frame is the pose of that  *)
(* camera in that file, unless the file gives the frame to another pose.   *)
THEOREM OwnTransforms == Spec => []TransformOfCamera
<1>1. IInv => TransformOfCamera BY DEF IInv
<1> QED BY <1>1, Invariance, PTL

(* unpack_cdc_frame and unpack_hist_frame: in every mode, for rows of any  *)
(* size and whatever the sensor measures, both formats publish the dots in *)
(* the same order, each place at most once and none beyond the mode's.     *)
THEOREM RowsInSameOrder == Spec => []RowsAgree
<1>1. Converted => RowsAgree BY DEF Converted
<1> QED BY <1>1, ConversionsRight, PTL

(* unpack_hist_frame: in all modes but 20 m a point has the time of its    *)
(* bank, and a point of the high exposure that of the bank it is from.     *)
THEOREM TimesOfOwnBanks == Spec => []TimeWithinBank
<1>1. Converted => TimeWithinBank BY DEF Converted
<1> QED BY <1>1, ConversionsRight, PTL

(* unpack_imu_data: IMU samples have the times at which they were taken,   *)
(* over any sequence of frames, resets, sessions and changes of the mode,  *)
(* as long as the times stay far from the width.                           *)
THEOREM ImuStampsTrue == Spec => []ImuTimesTrue
<1>1. Converted => ImuTimesTrue BY DEF Converted
<1> QED BY <1>1, ConversionsRight, PTL
=============================================================================
