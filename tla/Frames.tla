------------------------------- MODULE Frames -------------------------------
(***************************************************************************)
(* How a frame of the sensor becomes points and IMU samples: the mode      *)
(* table, the order of the points in both output formats, the choice       *)
(* between the two exposures of the 20 m mode, the times.                  *)
(*                                                                         *)
(* A row of 24 dots in the sensor is RowSize dots here.  Coordinates are   *)
(* left out but for z, which decides what is published.  Times are in      *)
(* milliseconds; they are Width bits wide, 64 in the code.                 *)
(***************************************************************************)
EXTENDS Integers, Sequences, SequencesExt

CONSTANTS RowSize, Width
\* The last conjunct follows; it is there since the provers know no powers.
ASSUME FramesAssumption ==
  /\ RowSize \in Nat \ {0} /\ Width \in Nat \ {0}
  /\ 2^(Width - 1) \in Nat \ {0} /\ 2^Width = 2 * 2^(Width - 1)

Modes == {"20m", "30mstd", "30m15f", "30m30f", "40m"}
Exposure(m) == IF m \in {"30m15f", "40m"} THEN 65 ELSE 32
Rows(m) == IF m = "30m30f" THEN 12 ELSE 24
Banks(m) == CASE m = "20m" -> 24 [] m = "30m30f" -> 6 [] OTHER -> 12

Places(m) == 0 .. Rows(m) * RowSize - 1
UpTo(n) == [i \in 1 .. n |-> i - 1]

-----------------------------------------------------------------------------
(* Point order.  XYZ: the place in the received frame of the point that is *)
(* published at place i.  XYZITR: points are published in the order of the *)
(* banks, each of which holds two rows.                                    *)

LineOrder ==
  <<0, 2, 12, 14, 4, 6, 16, 18, 8, 10, 20, 22, 1, 3, 13, 15, 5, 7, 17, 19, 9, 11, 21, 23>>

Offset(m, i) ==
  LET line == LineOrder[i \div RowSize + 1]
  IN (IF Rows(m) = 24 THEN RowSize * line ELSE (RowSize * line) \div 2) + (i % RowSize)

RingFull == <<0, 12, 4, 16, 8, 20, 1, 13, 5, 17, 9, 21>>
RingHalf == <<0, 6, 2, 8, 4, 10>>

\* Variant: the second row of a bank is taken for the next ring in all modes.
BankToRingNext(bank, i, m) ==
  IF m = "30m30f" THEN RingHalf[bank + 1] + i \div RowSize
  ELSE RingFull[bank + 1] + i \div RowSize
BankToRing(bank, i, m) ==
  IF m = "30m30f" THEN RingHalf[bank + 1] + i \div RowSize
  ELSE RingFull[bank + 1] + 2 * (i \div RowSize)

-----------------------------------------------------------------------------
(* unpack_hist_frame.  A dot is [err, z, high]: its first peak and, in the *)
(* 20 m mode, the z of the peak with the high exposure, which another bank *)
(* has measured.  The time of a bank is its number.                        *)

ThrExposure == 2000
NoPeak == 65536
TooNear == 800   \* 0.2 m

TakesHigh(m, dot) ==
  /\ m = "20m" /\ dot.z > ThrExposure
  /\ ~(dot.z # NoPeak /\ dot.high <= ThrExposure)

UnpackDot(m, bank, i, dot, acc) ==
  LET high == TakesHigh(m, dot)
      ts == IF high THEN bank + 12 ELSE acc.ts
      point == [place |-> bank * 2 * RowSize + i, ring |-> BankToRing(bank, i, m),
                high |-> high, time |-> ts]
  IN IF dot.err THEN acc
     ELSE [ts |-> ts,
           points |-> IF (IF high THEN dot.high ELSE dot.z) > TooNear
                      THEN Append(acc.points, point) ELSE acc.points]

\* Variant: ts is set once for the frame.
UnpackBankTimeKept(m, bank, dots, acc) ==
  FoldLeft(LAMBDA a, i : UnpackDot(m, bank, i, dots[i], a), acc, UpTo(2 * RowSize))
UnpackBank(m, bank, dots, acc) ==
  FoldLeft(LAMBDA a, i : UnpackDot(m, bank, i, dots[i], a),
           [acc EXCEPT !.ts = bank], UpTo(2 * RowSize))

\* frame[bank] is a function from the dots of a bank.
UnpackHistFrame(m, frame) ==
  FoldLeft(LAMBDA a, b : UnpackBank(m, b, frame[b], a), [ts |-> 0, points |-> <<>>],
           UpTo(IF Banks(m) < 12 THEN Banks(m) ELSE 12)).points

\* The XYZ frame has every point, also those without a distance.
UnpackCdcFrame(m) ==
  [i \in 1 .. Rows(m) * RowSize |->
     [place |-> i - 1, ring |-> Offset(m, i - 1) \div RowSize, high |-> FALSE, time |-> 0]]

-----------------------------------------------------------------------------
(* unpack_imu_data                                                         *)

Unsigned(x) == x % 2^Width
Signed(x) == LET u == Unsigned(x) IN IF u >= 2^(Width - 1) THEN u - 2^Width ELSE u

SamplePeriod == 10

\* A sample is -1, or the time after the frame's beginning that a reset marks.
UnpackSample(frame_ts, offset, acc, sample) ==
  LET reset == sample >= 0
      latest == CASE reset -> Signed(frame_ts + sample)
                  [] ~reset /\ acc.latest > 0 -> acc.latest + SamplePeriod
                  [] OTHER -> acc.latest
  IN IF acc.done \/ (reset /\ acc.reset) THEN [acc EXCEPT !.done = TRUE]
     ELSE [latest |-> latest, reset |-> acc.reset \/ reset, done |-> FALSE,
           stamps |-> IF latest > 0 THEN Append(acc.stamps, Unsigned(latest + offset))
                      ELSE acc.stamps]

UnpackImuData(latest, frame_ts, offset, samples) ==
  FoldLeft(LAMBDA a, s : UnpackSample(frame_ts, offset, a, s),
           [latest |-> latest, reset |-> FALSE, done |-> FALSE, stamps |-> <<>>], samples)
=============================================================================
