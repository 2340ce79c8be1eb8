------------------------ MODULE MCPointCloudCombiner ------------------------
(* Model-checking instances of PointCloudCombiner.                         *)
EXTENDS PointCloudCombiner, TLC

\* No action tells two calibrations apart.
CalibrationSymmetry == Permutations(Calibration)

\* Clouds of cameras that are out of step by less than the tolerance, exactly
\* by it, and by more; IMU samples in step or out of it.
MCStamp == {0, 10, 25, 35}
MCImuStamp == {0, 11}
\* With one empty cloud the rings of three cameras fit the field, else not.
MCRings == {{}, {0, 2}}

(* The first and the last camera have rings, the one in between is left    *)
(* out or not; TF is empty when the combiner starts.                       *)
MCInit ==
  /\ Init
  /\ layout[1] = "XYZITR" /\ layout[NCam] = "XYZITR"
  /\ \A i \in Cam : tree[i] = None
MCSpec == MCInit /\ [][Next]_vars
=============================================================================
