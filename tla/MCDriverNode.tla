---------------------------- MODULE MCDriverNode ----------------------------
(***************************************************************************)
(* Two nodes in one process and two cameras.  The first node was given a   *)
(* serial number and publishes XYZITR, the second takes any camera.        *)
(***************************************************************************)
EXTENDS DriverNode

CONSTANTS n1, n2, a, b, p1, p2, empty, absent, own, poseA, poseB

MCPorts == <<p1, p2>>
MCWant == n1 :> a @@ n2 :> Nobody
\* The number of b begins that of a as well.
MCAlike == a :> {a} @@ b :> {a, b}
MCFormat == n1 :> "XYZITR" @@ n2 :> "XYZ"
MCFileOf == n1 :> "f1" @@ n2 :> "f2"

Entry(id, ok, fr, inner, pose) ==
  [id |-> id, ok |-> ok, frame |-> fr, inner |-> inner, pose |-> pose]
\* The first file has the camera a twice and b not at all, the second has an
\* entry for a that is skipped, and one for b with an empty frame id inside.
MCFile ==
  "f1" :> <<Entry(a, TRUE, empty, own, poseA), Entry(a, TRUE, empty, absent, poseB)>> @@
  "f2" :> <<Entry(a, FALSE, own, absent, poseA), Entry(b, TRUE, own, empty, poseB)>>

\* Valid and invalid values, rates of 0 and of 2^IntWidth + 1, lists of one and
\* of two, with the invalid value in front and behind.
MCInitParams ==
  {Defaults, [mode |-> "?", rate |-> 60, sync |-> "?"],
   [mode |-> "30m30f", rate |-> 1, sync |-> "slave"]}
MCParamLists ==
  {<<<<"mode", m>>>> : m \in {"20m", "30m15f"}}
  \cup {<<<<"framerate", r>>>> : r \in {0, 1}}
  \cup {<<<<"sync_mode", s>>>> : s \in {"master"}}
  \cup {<<<<"serial_number", 1>>>>,
        <<<<"mode", "20m">>, <<"framerate", 31>>>>, <<<<"framerate", 31>>, <<"mode", "20m">>>>,
        <<<<"sync_mode", "master">>, <<"mode", "?">>>>,
        <<<<"framerate", 129>>, <<"output_format", "XYZ">>>>}

\* z just below and above each threshold, no peak with the low exposure, and
\* none of it that is far enough with the high one either.
Dot(z, h) == [err |-> FALSE, z |-> z, high |-> h]
MCDots ==
  {Dot(800, 2001), Dot(801, 2001), Dot(2001, 2000), Dot(2001, 2001), Dot(65536, 800),
   [err |-> TRUE, z |-> 2001, high |-> 2001]}

\* Frames that end before their exposure time and after it.
MCEndTimes == {20, 100}
MCSampleLists ==
  {<<>>, <<0>>, <<40>>, <<-1, 0, -1>>, <<0, -1, 40, -1>>, <<12, -1>>}

\* With both nodes in the process their settings are the default, there is no
\* IMU data and nothing but cameras on the ttys.  With one node settings and IMU
\* data vary while there is one tty; IMU data and XYZITR clouds come in every
\* mode, with the default rate and sync mode, which they do not depend on.
\* After a list was applied in part no property speaks of the settings.  A cloud
\* changes nothing but out: what follows it follows from the state before it, so
\* it is followed up in the simplest states only.
Plain(n) == param[n].rate = 30 /\ param[n].sync = "none"
Simple == \A n \in Node : param[n] = Defaults /\ imu[n] = NoImu
Focus ==
  /\ Plain(n2) /\ \A n \in Node : ~mixed[n]
  /\ \/ /\ Cardinality(made) <= 1 /\ plugged[p2] = Nobody
        /\ (imu[n1] = NoImu /\ ~synced[n1]) \/ Plain(n1)
     \/ Simple /\ (Cardinality(made) <= 1 \/ \A p \in PortSet : plugged[p] # Other)
  /\ out.kind = "cloud" => Simple /\ Cardinality(made) = 1
=============================================================================
