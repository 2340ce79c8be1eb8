----------------------------- MODULE DriverNode -----------------------------
(***************************************************************************)
(* Driver nodes, possibly several in one process, among several cameras:   *)
(* which camera a node finds, which calibration it uses for it, which      *)
(* settings its device has, what it publishes.  A session is reduced to    *)
(* four steps; Dt1Device has the rest.                                     *)
(***************************************************************************)
EXTENDS Frames, FiniteSets

CONSTANTS
  Node, Camera,  \* the nodes of the process; the cameras that exist
  Other,         \* a device on a tty that is no AS-DT1
  Nobody,        \* no device
  Ports,         \* the ttys in the order list_ports finds them, a sequence
  Want,          \* of each node: the camera of serial_number, or Nobody
  Alike,         \* of each camera: those that a search by its number finds
  Format,        \* of each node: XYZ or XYZITR
  FileOf,        \* of each node: its calibration file
  File,          \* of each file: its entries, [id, ok, frame, inner, pose]
  Default,       \* the frame DEPTH_FRAME_ID
  Identity,      \* the pose of a camera without calibration
  Empty, Absent, \* an empty frame id; no frame id
  InitParams,    \* the parameters a node may be launched with
  ParamLists,    \* the lists of parameters a user may set
  Dots,          \* what a dot of a frame may be
  EndTimes, SampleLists, HostAhead, \* see ReadImu
  IntWidth       \* the width of an int, 32 in the code

IsSequence(s) == s \in Seq(Range(s))

ASSUME NodeAssumption ==
  /\ Other \notin Camera /\ Nobody \notin Camera \cup {Other}
  /\ Want \in [Node -> Camera \cup {Nobody}] /\ Alike \in [Camera -> SUBSET Camera]
  /\ Format \in [Node -> {"XYZ", "XYZITR"}]
  /\ IsSequence(Ports) /\ Ports # <<>>
ASSUME FileAssumption ==
  /\ FileOf \in [Node -> DOMAIN File] /\ Default # Empty
  /\ \A f \in DOMAIN File : IsSequence(File[f])
ASSUME ParamAssumption ==
  /\ \A p \in InitParams : p = [mode |-> p.mode, rate |-> p.rate, sync |-> p.sync]
  /\ \A list \in ParamLists : IsSequence(list)
\* The last conjunct follows, as in Frames.
ASSUME IntAssumption ==
  2^(IntWidth - 1) \in Nat /\ 2^(IntWidth - 1) > 30 /\ 2^IntWidth = 2 * 2^(IntWidth - 1)
ASSUME ImuAssumption ==
  /\ EndTimes \subseteq Nat /\ HostAhead \in Nat
  /\ SampleLists \subseteq Seq(Nat \cup {-1})
\* Frames, samples and the host's clock stay below half of the width of the times,
\* which is 292 years in the code.
ASSUME TimesAssumption ==
  /\ HostAhead <= 2^(Width - 1) /\ \A m \in Modes : Exposure(m) <= 2^(Width - 1)
  /\ \A end \in EndTimes, samples \in SampleLists : \A i \in DOMAIN samples :
       end + samples[i] + SamplePeriod * Len(samples) < 2^(Width - 1)

VARIABLES
  alive,    \* of the process
  calib,    \* the calibration_parser singleton: its entries, or Nobody
  plugged,  \* what is on each tty
  made,     \* the nodes that exist
  param,    \* of each node: the values of its parameters
  device,   \* of each node: the settings of its dt1_device
  mixed,    \* of each node: a refused list was applied in part
  phase,    \* of each node: off, search, found (a port), up, lost
  serial,   \* of each node: _serial is not null
  port, cam,\* of each node: the tty it uses, the camera it is connected to
  moved,    \* of each node: the tty changed after it was found
  swapped,  \* of each node: so it was with the camera that connected last
  frame,    \* of each node: _depth_frame_id
  tf,       \* the static transform of each frame
  imu,      \* of each node: _latest_imu_sample_ts, and the true times
  synced,   \* of each XYZITR node: _clock_offset is set
  out       \* what the last step published

nodes == <<made, param, device, mixed>>
session == <<phase, serial, port, cam, moved, swapped, frame>>
vars == <<alive, calib, plugged, nodes, session, tf, imu, synced, out>>

PortSet == {Ports[i] : i \in DOMAIN Ports}
Frame == {Default} \cup {e.frame : e \in UNION {Range(File[f]) : f \in DOMAIN File}}
          \cup {e.inner : e \in UNION {Range(File[f]) : f \in DOMAIN File}}
Silence == [kind |-> "none"]
NoImu == [latest |-> 0, now |-> 0, end |-> 0]
Defaults == [mode |-> "30mstd", rate |-> 30, sync |-> "none"]

Init ==
  /\ alive = TRUE /\ calib = Nobody
  /\ plugged = [p \in PortSet |-> Nobody]
  /\ made = {} /\ mixed = [n \in Node |-> FALSE]
  /\ param = [n \in Node |-> Defaults] /\ device = [n \in Node |-> Defaults]
  /\ phase = [n \in Node |-> "off"] /\ serial = [n \in Node |-> FALSE]
  /\ port = [n \in Node |-> Ports[1]] /\ cam = [n \in Node |-> Nobody]
  /\ moved = [n \in Node |-> FALSE] /\ swapped = [n \in Node |-> FALSE]
  /\ frame = [n \in Node |-> Default]
  /\ tf = [f \in Frame |-> Nobody]
  /\ imu = [n \in Node |-> NoImu] /\ synced = [n \in Node |-> FALSE]
  /\ out = Silence

-----------------------------------------------------------------------------
(* calibration_parser                                                      *)

\* Entries that lack a field or have a matrix of another size are skipped;
\* a frame id inside of the extrinsics, though empty, goes before one outside.
AddEntry(cameras, e) ==
  IF ~e.ok THEN cameras
  ELSE Append(cameras, [id |-> e.id, pose |-> e.pose,
                        frame |-> IF e.inner # Absent THEN e.inner ELSE e.frame])
Load(entries) == FoldLeft(AddEntry, <<>>, entries)
ASSUME LoadAssumption == \A f \in DOMAIN File : Load(File[f]) # Nobody

\* The first entry of the camera among those that were loaded.
GetCalibration(k, c) ==
  LET hits == {i \in DOMAIN k : k[i].id = c}
  IN IF hits = {} THEN [id |-> c, frame |-> Empty, pose |-> Identity] ELSE k[Min(hits)]

FrameFor(k, c) ==
  IF GetCalibration(k, c).frame = Empty THEN Default ELSE GetCalibration(k, c).frame

-----------------------------------------------------------------------------
(* The settings of the device.                                             *)

ValidRate(r) == r \in 0 .. 30
SyncModes == {"none", "master", "slave"}

SetMode(d, m) == IF m \in Modes THEN [d EXCEPT !.mode = m] ELSE d
\* Variant: the rate is not tested.
SetFrameRateAny(d, r) == [d EXCEPT !.rate = r]
\* Variant: the slowest rate is ignored as well.
SetFrameRateAboveOne(d, r) == IF r \in 2 .. 30 THEN [d EXCEPT !.rate = r] ELSE d
SetFrameRate(d, r) == IF r \in 1 .. 30 THEN [d EXCEPT !.rate = r] ELSE d
SetSyncMode(d, s) == [d EXCEPT !.sync = s]

\* Integer parameters have 64 bits, what they are cast to has IntWidth.
ToInt(r) == ((r + 2^(IntWidth - 1)) % 2^IntWidth) - 2^(IntWidth - 1)

\* The constructor replaces values that are not valid.
Launched(p) ==
  LET d == SetSyncMode(SetFrameRate(Defaults, ToInt(p.rate)),
                       IF p.sync \in SyncModes THEN p.sync ELSE "none")
  IN SetMode(d, IF p.mode \in Modes THEN p.mode ELSE "30mstd")

\* One turn of the loop in on_parameters_set.  Entries are <<name, value>>.
ApplyParameter(acc, e) ==
  LET refused == [acc EXCEPT !.ok = FALSE]
  IN CASE ~acc.ok -> acc
       [] acc.ok /\ e[1] \in {"calibration_file", "serial_number"} -> refused
       [] acc.ok /\ e[1] = "mode" ->
            IF e[2] \in Modes
            THEN [acc EXCEPT !.device = SetMode(@, e[2]), !.param.mode = e[2],
                             !.stop = TRUE, !.reboot = TRUE]
            ELSE refused
       [] acc.ok /\ e[1] = "framerate" ->
            IF e[2] \in Int /\ ValidRate(ToInt(e[2]))
            THEN [acc EXCEPT !.device = SetFrameRate(@, ToInt(e[2])), !.param.rate = e[2],
                             !.reboot = TRUE]
            ELSE refused
       [] acc.ok /\ e[1] = "sync_mode" ->
            IF e[2] \in SyncModes
            THEN [acc EXCEPT !.device = SetSyncMode(@, e[2]), !.param.sync = e[2],
                             !.reboot = TRUE]
            ELSE refused
       [] OTHER -> acc

-----------------------------------------------------------------------------
(* Sessions.                                                               *)

Alter(f, n, v) == [f EXCEPT ![n] = v]

\* Variant: start() does not reset _latest_imu_sample_ts.
StartedKeepsTime(n) == [imu EXCEPT ![n] = [NoImu EXCEPT !.latest = imu[n].latest]]
Started(n) == Alter(imu, n, NoImu)

\* The phases when n goes to ph; start() is going to "search".
To(n, ph) ==
  /\ phase' = Alter(phase, n, ph)
  /\ cam' = Alter(cam, n, IF ph = "up" THEN plugged[port[n]] ELSE Nobody)
  /\ moved' = Alter(moved, n, FALSE)
  /\ imu' = (IF ph = "search" THEN Started(n) ELSE imu)
  /\ out' = Silence

Construct(n) ==
  /\ alive /\ n \notin made
  /\ made' = made \cup {n}
  /\ calib' = (IF calib = Nobody THEN Load(File[FileOf[n]]) ELSE calib)
  /\ \E p \in InitParams : param' = Alter(param, n, p) /\ device' = Alter(device, n, Launched(p))
  /\ To(n, "search")
  /\ UNCHANGED <<alive, plugged, mixed, serial, port, swapped, frame, tf, synced>>

\* Variant: the serial number is not compared.
MatchesAny(n, p) == plugged[p] \in Camera
\* The description that sysfs gives for the tty is that of a Sony AS-DT1.  If a
\* serial number is wanted, as many characters of it are compared as the number
\* has, but seven at least: a number may begin that of another camera, and a short
\* one finds none.
Matches(n, p) ==
  /\ plugged[p] \in Camera
  /\ Want[n] # Nobody => plugged[p] \in Alike[Want[n]]

FindPort(n) ==
  /\ alive /\ phase[n] = "search"
  /\ \E i \in DOMAIN Ports :
       /\ Matches(n, Ports[i]) /\ \A j \in 1 .. i - 1 : ~Matches(n, Ports[j])
       /\ port' = Alter(port, n, Ports[i])
  /\ To(n, "found")
  /\ UNCHANGED <<alive, calib, plugged, nodes, serial, swapped, frame, tf, synced>>

\* Variant: the frame is left alone if there is no calibration.
FrameOnConnectionKept(n, c) ==
  IF GetCalibration(calib, c).frame = Empty THEN frame[n] ELSE GetCalibration(calib, c).frame
FrameOnConnection(n, c) == FrameFor(calib, c)

\* Variant: the transform is sent for a calibration with a frame id only.
TransformOnConnectionNamed(c) ==
  IF GetCalibration(calib, c).frame = Empty THEN tf
  ELSE [tf EXCEPT ![FrameFor(calib, c)] = GetCalibration(calib, c).pose]
TransformOnConnection(c) ==
  [tf EXCEPT ![FrameFor(calib, c)] = GetCalibration(calib, c).pose]

\* connect(), and on_cam_connection once the device has told who it is.
Connect(n) ==
  /\ alive /\ phase[n] = "found" /\ plugged[port[n]] \in Camera
  /\ To(n, "up")
  /\ serial' = Alter(serial, n, TRUE) /\ swapped' = Alter(swapped, n, moved[n])
  /\ frame' = Alter(frame, n, FrameOnConnection(n, plugged[port[n]]))
  /\ tf' = TransformOnConnection(plugged[port[n]])
  /\ UNCHANGED <<alive, calib, plugged, nodes, port, synced>>

\* Another device does not know its start mode: the search begins again.
ConnectOther(n) ==
  /\ alive /\ phase[n] = "found" /\ plugged[port[n]] = Other
  /\ To(n, "search")
  /\ serial' = Alter(serial, n, TRUE)
  /\ UNCHANGED <<alive, calib, plugged, nodes, port, swapped, frame, tf, synced>>

\* The tty throws, which ends the session.
SessionEnds(n) ==
  /\ alive /\ phase[n] = "lost"
  /\ To(n, "off")
  /\ UNCHANGED <<alive, calib, plugged, nodes, serial, port, swapped, frame, tf, synced>>

StartStreaming(n) ==
  /\ alive /\ n \in made /\ phase[n] = "off"
  /\ To(n, "search")
  /\ UNCHANGED <<alive, calib, plugged, nodes, serial, port, swapped, frame, tf, synced>>

StopStreaming(n) ==
  /\ alive /\ n \in made /\ phase[n] # "off"
  /\ To(n, "off")
  /\ UNCHANGED <<alive, calib, plugged, nodes, serial, port, swapped, frame, tf, synced>>

\* What leaves the tty p takes with it: the sessions on it, and the result of
\* a search that found it.
Lost(p, ph) == [m \in Node |-> IF ph[m] = "up" /\ port[m] = p THEN "lost" ELSE ph[m]]
Moved(p, ph) == [m \in Node |-> moved[m] \/ (ph[m] = "found" /\ port[m] = p)]

\* reboot() of a device that was connected once: the port is opened again,
\* and a camera that is there leaves the bus.
Reboots(n) ==
  LET p == port[n]
      others == Alter(phase, n, "search")
  IN /\ plugged[p] # Nobody
     /\ plugged' = (IF plugged[p] = Other THEN plugged ELSE Alter(plugged, p, Nobody))
     /\ phase' = Lost(p, others) /\ moved' = Moved(p, others)
     /\ cam' = Alter(cam, n, Nobody)
     /\ imu' = Started(n) /\ out' = Silence

RebootService(n) ==
  /\ alive /\ n \in made /\ serial[n]
  /\ \/ Reboots(n)
     \/ plugged[port[n]] = Nobody /\ To(n, "off") /\ UNCHANGED plugged
  /\ UNCHANGED <<alive, calib, nodes, serial, port, swapped, frame, tf, synced>>

Undisturbed == out' = Silence /\ UNCHANGED <<phase, cam, moved, imu>>

\* on_parameters_set.  rclcpp stores the values of a list that is accepted.
SetParameters(n) ==
  /\ alive /\ n \in made
  /\ \E list \in ParamLists :
       LET r == FoldLeft(ApplyParameter,
                  [device |-> device[n], param |-> param[n],
                   stop |-> FALSE, reboot |-> FALSE, ok |-> TRUE], list)
       IN /\ device' = Alter(device, n, r.device)
          /\ param' = (IF r.ok THEN Alter(param, n, r.param) ELSE param)
          /\ mixed' = Alter(mixed, n, mixed[n] \/ (~r.ok /\ r.device # device[n]))
          /\ IF r.ok /\ r.reboot /\ serial[n]
             THEN \/ Reboots(n) /\ alive' = alive
                  \/ plugged[port[n]] = Nobody /\ alive' = FALSE /\ Undisturbed /\ UNCHANGED plugged
             ELSE (IF r.stop THEN To(n, "off") ELSE Undisturbed) /\ UNCHANGED <<plugged, alive>>
  /\ UNCHANGED <<calib, made, serial, port, swapped, frame, tf, synced>>

-----------------------------------------------------------------------------
(* What is published.                                                      *)

\* The camera of the clouds: that of the tty, but with XYZITR the one whose
\* video node was found, by its whole serial number or as the first AS-DT1.
VideoOf(n) ==
  IF Format[n] = "XYZ" THEN {cam[n]}
  ELSE {c \in Camera : Want[n] \in {c, Nobody} /\ \E p \in PortSet : plugged[p] = c}

\* XYZITR clouds come from a thread of their own: they need no tty but the clock
\* offset, which is kept from an earlier session.
Streams(n) ==
  IF Format[n] = "XYZ" THEN phase[n] = "up" ELSE phase[n] # "off" /\ synced[n]

\* The same dots in every bank; the banks do not touch each other's.
CdcPoints == [m \in Modes |-> UnpackCdcFrame(m)]
HistPoints ==
  [m \in Modes |-> [dots \in [0 .. 2 * RowSize - 1 -> Dots] |->
     UnpackHistFrame(m, [b \in 0 .. 11 |-> dots])]]

PublishCloud(n) ==
  /\ alive /\ Streams(n)
  /\ \E c \in VideoOf(n) :
       \/ /\ Format[n] = "XYZ"
          /\ out' = [kind |-> "cloud", node |-> n, cam |-> c, frame |-> frame[n],
                     mode |-> device[n].mode, points |-> CdcPoints[device[n].mode]]
       \/ /\ Format[n] = "XYZITR"
          /\ \E dots \in [0 .. 2 * RowSize - 1 -> Dots] :
               out' = [kind |-> "cloud", node |-> n, cam |-> c, frame |-> frame[n],
                       mode |-> device[n].mode,
                       points |-> HistPoints[device[n].mode][dots]]
  /\ UNCHANGED <<alive, calib, plugged, nodes, session, tf, imu, synced>>

\* When the samples of a frame were taken, by the device's clock and in plain
\* integers: 10 ms apart, the one before the first at now, and from a reset on
\* at the time it tells.  A second reset and what follows is dropped, and so is
\* what follows a time that is not positive.
Resets(samples) == {i \in DOMAIN samples : samples[i] >= 0}
FirstReset(samples) ==
  IF Resets(samples) = {} THEN Len(samples) + 1 ELSE Min(Resets(samples))
LastSample(samples) ==
  LET later == Resets(samples) \ {FirstReset(samples)}
  IN IF later = {} THEN Len(samples) ELSE Min(later) - 1
Ticks(t, k) == IF t > 0 THEN [i \in 1 .. k |-> t + SamplePeriod * (i - 1)] ELSE <<>>
TrueTimes(now, begin, samples) ==
  LET first == FirstReset(samples)
      reset == first <= Len(samples)
  IN [before |-> IF now > 0 THEN Ticks(now + SamplePeriod, first - 1) ELSE <<>>,
      after |-> IF reset THEN Ticks(begin + samples[first], LastSample(samples) - first + 1)
                ELSE <<>>,
      reset |-> reset]

TrueNow(now, t) ==
  CASE t.after # <<>> -> Last(t.after)
    [] t.after = <<>> /\ t.reset -> 0
    [] OTHER -> IF t.before # <<>> THEN Last(t.before) ELSE now

\* XYZ frames begin with their own timestamp; for XYZITR it is calculated.
FrameTime(n, end) == Unsigned(end - Exposure(device[n].mode))

\* The IMU part of a frame that ends at end.  The host's clock is HostAhead
\* of the device's.
ReadImu(n) ==
  /\ alive /\ phase[n] = "up"
  /\ \E end \in EndTimes, samples \in SampleLists :
       LET begin == end - Exposure(device[n].mode)
           r == UnpackImuData(imu[n].latest, FrameTime(n, end), HostAhead, samples)
           t == TrueTimes(imu[n].now, begin, samples)
           due == t.before \o t.after
       IN /\ end > imu[n].end /\ (Format[n] = "XYZ" => begin >= 0)
          \* the bound of the running time
          /\ imu[n].latest + SamplePeriod * Len(samples) < 2^(Width - 1)
          /\ imu' = Alter(imu, n, [latest |-> r.latest, now |-> TrueNow(imu[n].now, t), end |-> end])
          /\ out' = [kind |-> "imu", node |-> n, cam |-> cam[n], frame |-> frame[n],
                     stamps |-> r.stamps, due |-> due]
  /\ synced' = Alter(synced, n, Format[n] = "XYZITR")
  /\ UNCHANGED <<alive, calib, plugged, nodes, session, tf>>

-----------------------------------------------------------------------------
(* The cables.                                                             *)

Plug(p, d) ==
  /\ plugged[p] = Nobody /\ \A q \in PortSet : plugged[q] # d
  /\ plugged' = Alter(plugged, p, d)
  /\ moved' = Moved(p, phase)
  /\ out' = Silence
  /\ UNCHANGED <<alive, calib, nodes, phase, serial, port, cam, swapped, frame, tf, imu, synced>>

Unplug(p) ==
  /\ plugged[p] # Nobody
  /\ plugged' = Alter(plugged, p, Nobody)
  /\ phase' = Lost(p, phase) /\ moved' = Moved(p, phase)
  /\ out' = Silence
  /\ UNCHANGED <<alive, calib, nodes, serial, port, cam, swapped, frame, tf, imu, synced>>

-----------------------------------------------------------------------------
Next ==
  \/ \E n \in Node :
       \/ Construct(n) \/ FindPort(n) \/ Connect(n) \/ ConnectOther(n) \/ SessionEnds(n)
       \/ StartStreaming(n) \/ StopStreaming(n) \/ RebootService(n) \/ SetParameters(n)
       \/ PublishCloud(n) \/ ReadImu(n)
  \/ \E p \in PortSet : Unplug(p) \/ \E d \in Camera \cup {Other} : Plug(p, d)

Spec == Init /\ [][Next]_vars

-----------------------------------------------------------------------------
(* Properties                                                              *)

(* Every variable has its type; the device has valid settings, whatever    *)
(* the node was launched with and whatever was set.                        *)
TypeOK ==
  /\ alive \in BOOLEAN /\ plugged \in [PortSet -> Camera \cup {Other, Nobody}]
  /\ calib = Nobody <=> made = {}
  /\ made \subseteq Node /\ mixed \in [Node -> BOOLEAN]
  /\ device \in [Node -> [mode : Modes, rate : 1 .. 30, sync : SyncModes]]
  /\ phase \in [Node -> {"off", "search", "found", "up", "lost"}]
  /\ {serial, moved, swapped, synced} \subseteq [Node -> BOOLEAN]
  /\ port \in [Node -> PortSet] /\ cam \in [Node -> Camera \cup {Nobody}]
  /\ frame \in [Node -> Frame \ {Empty}]
  /\ \A n \in Node : imu[n].latest \in -(2^(Width - 1)) .. 2^(Width - 1) - 1

(* A node that was given a serial number is connected to a camera with it, *)
(* which is the wanted one if the number begins that of no other camera,   *)
(* unless cameras changed places between the search and open(): the        *)
(* identity that the device then tells is not compared with the number.    *)
Unique(n) == Want[n] # Nobody /\ Alike[Want[n]] = {Want[n]}
WantedCamera ==
  \A n \in Node : phase[n] = "up" /\ ~swapped[n] /\ Want[n] # Nobody =>
    cam[n] \in Alike[Want[n]] /\ (Unique(n) => cam[n] = Want[n])

(* What is published has the frame id that the node's own calibration file *)
(* gives for the camera it comes from, over sessions with one camera after *)
(* the other and with several nodes, given that the process has loaded     *)
(* that file.  With XYZITR this needs a serial number: the tty and the     *)
(* video node are searched for separately.                                 *)
Published == out.kind # "none"
SameSource(n) == Format[n] = "XYZ" \/ out.kind = "imu" \/ (Unique(n) /\ ~swapped[n])
OwnFile(n) == Load(File[FileOf[n]])
FrameOfOwnCamera ==
  Published /\ SameSource(out.node) /\ calib = OwnFile(out.node)
    => out.frame = FrameFor(OwnFile(out.node), out.cam)

(* Whoever gets a message can look up its frame: the transform there is    *)
(* the pose that the node's own calibration file gives for that camera,    *)
(* given that the process has loaded that file, and unless it makes two    *)
(* cameras of different poses share a frame id.                            *)
Shared(k, c) ==
  \E d \in Camera : /\ FrameFor(k, d) = FrameFor(k, c)
                    /\ GetCalibration(k, d).pose # GetCalibration(k, c).pose
TransformOfCamera ==
  Published /\ SameSource(out.node) /\ calib = OwnFile(out.node)
    /\ ~Shared(OwnFile(out.node), out.cam)
    => tf[out.frame] = GetCalibration(OwnFile(out.node), out.cam).pose

(* The device has the settings that the node's parameters show, however    *)
(* they were set, except that invalid values at launch are replaced, that  *)
(* a rate of 0 is shown but not used, and that a list of parameters which  *)
(* is refused leaves those before the refused one in the device.           *)
SettingsAsReported ==
  \A n \in made : ~mixed[n] =>
    LET p == param[n]  d == device[n]
    IN /\ d.mode = (IF p.mode \in Modes THEN p.mode ELSE "30mstd")
       /\ d.sync = (IF p.sync \in SyncModes THEN p.sync ELSE "none")
       /\ p.rate \in 1 .. 30 => d.rate = p.rate

(* Both formats publish the dots in the same order, row by row, although   *)
(* one takes it from line_order and the other from bank_to_ring: the ring  *)
(* of a point is the row that the other format has there.  A cloud has     *)
(* each place at most once, and fits the vector that is sized for the mode.*)
RowsAgree ==
  out.kind = "cloud" =>
    /\ {Offset(out.mode, i) : i \in Places(out.mode)} = Places(out.mode)
    /\ \A i \in DOMAIN out.points :
         LET q == out.points[i]
         IN /\ q.place \in Places(out.mode) /\ (i > 1 => out.points[i - 1].place < q.place)
            /\ q.ring = Offset(out.mode, q.place) \div RowSize

(* The time of a point is that of the bank that measured it, which with    *)
(* the high exposure of the 20 m mode is another one than that of the      *)
(* point's place.  The low exposure of that mode: see TimeOfEveryDot.      *)
BankOf(q) == q.place \div (2 * RowSize) + (IF q.high THEN 12 ELSE 0)
SixFields == out.kind = "cloud" /\ Format[out.node] = "XYZITR"
TimeWithinBank ==
  SixFields => \A i \in DOMAIN out.points :
    LET q == out.points[i] IN out.mode # "20m" \/ q.high => q.time = BankOf(q)

(* IMU samples are stamped with the time at which they were taken, and     *)
(* nothing is published whose time would be negative, although frame times *)
(* wrap around shortly after the device has booted and the running time is *)
(* carried from frame to frame and from session to session.                *)
ImuTimesTrue ==
  out.kind = "imu" => out.stamps = [i \in DOMAIN out.due |-> out.due[i] + HostAhead]

-----------------------------------------------------------------------------
(* Properties that the repository states and the code does not have.       *)

(* "Frame ID comes from calibration file if available", and that is the    *)
(* file of the parameter calibration_file: each node of a process has its  *)
(* own, and the calibration_parser is loaded from that of the first.       *)
FrameOfOwnFile ==
  Published /\ SameSource(out.node) => out.frame = FrameFor(OwnFile(out.node), out.cam)

(* "Time offset from start of frame timestamp in ms for every dot": in the *)
(* 20 m mode a dot of the low exposure has the time that is left over from *)
(* a dot of the high exposure before it in the bank.                       *)
TimeOfEveryDot ==
  SixFields => \A i \in DOMAIN out.points : out.points[i].time = BankOf(out.points[i])
=============================================================================
