------------------------- MODULE PointCloudCombiner -------------------------
(***************************************************************************)
(* The node point_cloud_combiner (src/point_cloud_combiner_node.cpp): it   *)
(* keeps the latest cloud and the latest IMU sample of every camera and    *)
(* publishes a combination whenever the latest ones are close enough in    *)
(* time.  Both subscriptions belong to the node's one callback group, so   *)
(* on_point_cloud and on_imu run one at a time and are one step each.      *)
(*                                                                         *)
(* A point is reduced to its ring number, a transform to the calibration   *)
(* it comes from.  The clouds are those of the driver: they have x, y and  *)
(* z, and one field layout per camera.  Ring numbers are RingWidth bits    *)
(* wide, 16 in the code; ring_offset is an int and stays far below 2^31.   *)
(***************************************************************************)
EXTENDS Naturals, FiniteSetsExt

CONSTANTS
  NCam,         \* _input_topics.size()
  NImu,         \* _imu_topics.size()
  Stamp,        \* the clouds' header stamps, in milliseconds
  ImuStamp,     \* the IMU samples' header stamps, in milliseconds
  Rings,        \* the sets of ring numbers that a cloud's points have
  RingWidth,    \* the width of the ring field
  Calibration,  \* extrinsics that a driver may announce to TF
  None          \* an empty slot, a missing transform, nothing published

SYNC_TOLERANCE_MS == 25
IMU_SYNC_TOLERANCE_MS == 10

Cam == 1 .. NCam
Imu == 1 .. NImu
Layouts == {"XYZ", "XYZITR"}

ASSUME CountAssumption == NCam \in Nat \ {0} /\ NImu \in Nat
ASSUME StampAssumption == Stamp \subseteq Nat /\ ImuStamp \subseteq Nat
ASSUME RingsAssumption ==
  \A s \in Rings : s \subseteq 0 .. 2^RingWidth - 1 /\ IsFiniteSet(s)
\* Follows for a natural width; it is there since the provers know no powers.
ASSUME WidthAssumption == 2^RingWidth \in Nat \ {0}

Cloud == [stamp : Stamp, rings : Rings]

\* A combined cloud, with what it was made of.
Combination ==
  [stamp : Stamp, parts : SUBSET Cam, of : [Cam -> Cloud],
   rings : UNION {[p -> SUBSET Nat] : p \in SUBSET Cam}, transforms : [Cam -> Calibration]]

ASSUME NoneAssumption ==
  None \notin Calibration /\ None \notin Nat /\ None \notin Cloud /\ None \notin Combination

VARIABLES
  clouds,     \* _latest_clouds
  imus,       \* _latest_imus, of which only the stamps matter
  transforms, \* _target_transforms, the cache
  tree,       \* the TF tree: the calibration announced for each camera
  layout,     \* the field layout of each camera's clouds
  out,        \* the combined cloud that the last step published
  imuOut,     \* the fused IMU sample that the last step published
  sent        \* the stamp of the latest combined cloud

inputs == <<tree, layout>>
vars == <<clouds, imus, transforms, tree, layout, out, imuOut, sent>>

TypeOK ==
  /\ clouds \in [Cam -> Cloud \cup {None}]
  /\ imus \in [Imu -> ImuStamp \cup {None}]
  /\ transforms \in [Cam -> Calibration \cup {None}]
  /\ tree \in [Cam -> Calibration \cup {None}]
  /\ layout \in [Cam -> Layouts]
  /\ sent \in Stamp \cup {None}
  /\ out # None => out.stamp \in Stamp /\ out.parts \subseteq Cam
  /\ imuOut # None => imuOut.stamp \in ImuStamp

Init ==
  /\ clouds = [i \in Cam |-> None]
  /\ imus = [i \in Imu |-> None]
  /\ transforms = [i \in Cam |-> None]
  /\ tree \in [Cam -> Calibration \cup {None}]
  /\ layout \in [Cam -> Layouts]
  /\ out = None /\ imuOut = None /\ sent = None

-----------------------------------------------------------------------------
(* try_publish_combined                                                    *)

\* Every slot is filled, and none is older than the newest by more than tol.
InTolerance(stamps, tol) ==
  /\ None \notin stamps
  /\ LET newest == Max(stamps) IN \A s \in stamps : newest <= s + tol

\* Variant: compared with the first cloud and not with the newest.
InToleranceOfFirst(cs) ==
  /\ \A i \in Cam : cs[i] # None
  /\ \A i \in Cam : cs[i].stamp <= cs[1].stamp + SYNC_TOLERANCE_MS

CloudsInTolerance(cs) ==
  InTolerance({IF cs[i] = None THEN None ELSE cs[i].stamp : i \in Cam}, SYNC_TOLERANCE_MS)

\* Variant: the cache is not looked at.
TransformsLookedUp ==
  [i \in Cam |-> IF \A j \in 1 .. i : tree[j] # None THEN tree[i] ELSE transforms[i]]

\* get_transform_to_target_frame for one camera after the other, up to the
\* first for which TF has nothing: a transform in the cache is not looked up.
Known(i) == transforms[i] # None \/ tree[i] # None
TransformsAfterLookup ==
  [i \in Cam |->
     IF transforms[i] = None /\ \A j \in 1 .. i : Known(j) THEN tree[i] ELSE transforms[i]]

\* Variant: the offset grows by the highest ring and not by the ring count.
RingCountShort(i, cs) ==
  IF layout[i] = "XYZITR" THEN Max(cs[i].rings \cup {0}) ELSE 0

\* What transform_to_target_frame adds to ring_offset for the next camera.
RingCount(i, cs) ==
  IF layout[i] = "XYZITR" THEN Max(cs[i].rings \cup {0}) + 1 ELSE 0

RingOffset(cs) ==
  LET offset[i \in Cam] == IF i = 1 THEN 0 ELSE offset[i - 1] + RingCount(i - 1, cs)
  IN  offset

\* build_combined_cloud leaves out the clouds whose fields are not the first's.
Parts == {i \in Cam : layout[i] = layout[1]}
\* The sum is stored in a uint16_t.
CombinedRings(cs) ==
  LET offset == RingOffset(cs)
  IN  [i \in Parts |-> {(r + offset[i]) % 2^RingWidth : r \in cs[i].rings}]

\* Variant: the stamp is half-way between the oldest and the newest.
CombinedStampMiddle(cs) ==
  LET stamps == {cs[i].stamp : i \in Parts} IN (Min(stamps) + Max(stamps)) \div 2

CombinedStamp(cs) == Max({cs[i].stamp : i \in Parts})

Combined(cs, tfs) ==
  [stamp |-> CombinedStamp(cs), parts |-> Parts, of |-> cs,
   rings |-> CombinedRings(cs), transforms |-> tfs]

\* Variant: the combination is given up while any cloud in it is empty.
HasAllPoints(cs) == \A i \in Parts : cs[i].rings # {}

HasPoints(cs) == \E i \in Parts : cs[i].rings # {}

\* All cameras have a cloud, a transform and, between them, a point.
Ready(cs) == CloudsInTolerance(cs) /\ (\A j \in Cam : Known(j)) /\ HasPoints(cs)

\* Variant: the combination has the stamp of the cloud that completed it.
OnPointCloudStamped(i, c) ==
  /\ clouds' = [clouds EXCEPT ![i] = c]
  /\ transforms' = IF CloudsInTolerance(clouds') THEN TransformsAfterLookup ELSE transforms
  /\ out' = IF Ready(clouds')
            THEN [Combined(clouds', transforms') EXCEPT !.stamp = c.stamp] ELSE None
  /\ sent' = IF out' = None THEN sent ELSE out'.stamp
  /\ imuOut' = None
  /\ UNCHANGED <<imus, inputs>>

OnPointCloud(i, c) ==
  /\ clouds' = [clouds EXCEPT ![i] = c]
  /\ transforms' = IF CloudsInTolerance(clouds') THEN TransformsAfterLookup ELSE transforms
  /\ out' = IF Ready(clouds') THEN Combined(clouds', transforms') ELSE None
  /\ sent' = IF out' = None THEN sent ELSE out'.stamp
  /\ imuOut' = None
  /\ UNCHANGED <<imus, inputs>>

-----------------------------------------------------------------------------
(* try_publish_combined_imu                                                *)

\* transform_imu_vector takes the cached transform of the cloud with the same
\* index, and gives up when there is none.
ImuTransformed == \A j \in Imu : j \in Cam /\ transforms[j] # None

OnImu(i, s) ==
  /\ imus' = [imus EXCEPT ![i] = s]
  /\ imuOut' = IF InTolerance({imus'[j] : j \in Imu}, IMU_SYNC_TOLERANCE_MS) /\ ImuTransformed
               THEN [stamp |-> imus'[1], of |-> imus', transforms |-> transforms]
               ELSE None
  /\ out' = None
  /\ UNCHANGED <<clouds, transforms, sent, inputs>>

-----------------------------------------------------------------------------
(* The cameras: messages of one topic arrive in the order of their stamps, *)
(* best-effort delivery may drop any of them.  A driver that connects      *)
(* announces its extrinsics, and may be restarted with others.             *)

CloudArrives(i) ==
  \E c \in Cloud :
    /\ clouds[i] # None => c.stamp > clouds[i].stamp
    /\ layout[i] = "XYZ" => c.rings # {}
    /\ OnPointCloud(i, c)

ImuArrives(i) ==
  \E s \in ImuStamp :
    /\ imus[i] # None => s > imus[i]
    /\ OnImu(i, s)

Announce(i) ==
  /\ \E c \in Calibration : tree' = [tree EXCEPT ![i] = c]
  /\ out' = None /\ imuOut' = None
  /\ UNCHANGED <<clouds, imus, transforms, layout, sent>>

Next ==
  \/ \E i \in Cam : CloudArrives(i) \/ Announce(i)
  \/ \E i \in Imu : ImuArrives(i)

Spec == Init /\ [][Next]_vars

-----------------------------------------------------------------------------
(* Properties                                                              *)

(* Whatever was dropped or delayed, the clouds of a combination were taken *)
(* within the tolerance of each other, and so were the samples of a fused  *)
(* IMU message: comparing with the newest bounds every pair.               *)
InStep ==
  /\ out # None =>
       \A i, j \in Cam : out.of[i].stamp <= out.of[j].stamp + SYNC_TOLERANCE_MS
  /\ imuOut # None =>
       \A i, j \in Imu : imuOut.of[i] <= imuOut.of[j] + IMU_SYNC_TOLERANCE_MS

(* Rings of different cameras stay apart in a combined cloud: no number is *)
(* used by two of them, also when a cloud in between is empty or left out. *)
(* The rings of all cameras have to fit the field, which takes 2730        *)
(* cameras of 24 rings in the code; after that the numbers start again.    *)
RingsFit(cs) == \A i \in Cam : RingOffset(cs)[i] + RingCount(i, cs) <= 2^RingWidth
RingsApart ==
  out # None /\ layout[1] = "XYZITR" /\ RingsFit(out.of) =>
    \A i, j \in out.parts : i # j => out.rings[i] \cap out.rings[j] = {}

(* The fused IMU sample is rotated by the very transform that the clouds   *)
(* of that camera were and will be combined with: once a cloud has used    *)
(* one, a changed TF tree changes neither stream.                          *)
SameTransforms ==
  [][ /\ out' # None => \A i \in Cam : transforms[i] # None => out'.transforms[i] = transforms[i]
      /\ imuOut' # None => \A i \in Imu : imuOut'.transforms[i] \in Calibration /\
                                          imuOut'.transforms[i] = transforms'[i] ]_vars

(* With cameras whose stamps increase, so do those of the combined cloud,  *)
(* although every arrival may publish again and mix old and new clouds.    *)
StampsInOrder == [][out' # None /\ sent # None => out'.stamp >= sent]_vars

(* A combination is never missed: an arrival that leaves all cameras       *)
(* announced and within tolerance, with a point to show, publishes.        *)
CombinesWhenReady ==
  [][ /\ clouds' # clouds
      /\ \A i, j \in Cam : clouds'[i] # None /\ clouds'[j] # None
           /\ tree[i] # None /\ clouds'[i].stamp <= clouds'[j].stamp + SYNC_TOLERANCE_MS
      /\ \E i \in Parts : clouds'[i].rings # {}
      => out' # None ]_vars
=============================================================================
