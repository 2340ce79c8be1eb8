--------------------------- MODULE Dt1DeviceHist ----------------------------
(***************************************************************************)
(* The driver with output_format XYZITR: dt1_device and its subclass       *)
(* dt1_device_hist (src/device/dt1_device_hist.cpp).  The serial thread    *)
(* reads IMU samples and the clock offset; a second thread, run_v4l2(),    *)
(* takes the clouds from a V4L2 capture node.  Both threads clear _running *)
(* when they end, each may outlive the other, and the executor joins them  *)
(* separately.                                                             *)
(***************************************************************************)
EXTENDS Dt1Device

VARIABLES
  vpc,     \* the v4l2 thread; "none": _v4l2_thread is not joinable
  fd,      \* _fd: -1, open, streaming, or open on a lost device
  leaked,  \* a streaming descriptor was overwritten and still holds the node
  clock    \* _clock_offset: zero, of the device's present boot, of an older one

hist == <<vpc, fd, leaked, clock>>
vars == <<baseVars, hist>>

V4l2Pcs == {"open", "opened", "streamOn", "loop", "unpack", "emit", "fin"}

TypeOK ==
  /\ BaseTypeOK
  /\ vpc \in V4l2Pcs \cup NoThread
  /\ fd \in {"none", "open", "on", "lost"}
  /\ leaked \in BOOLEAN
  /\ clock \in {"unset", "fresh", "stale"}
  /\ fd \in {"open", "on"} => devPort # NoPort

Init ==
  /\ BaseInit
  /\ vpc = "none" /\ fd = "none" /\ leaked = FALSE /\ clock = "unset"

\* What a step of the common part means for the capture node and the clock:
\* when the device leaves the bus, descriptors are lost and its clock restarts.
LeavesBus == devPort # NoPort /\ devPort' = NoPort
Common(A) ==
  /\ A
  /\ vpc' = vpc
  /\ fd' = IF LeavesBus /\ fd # "none" THEN "lost" ELSE fd
  /\ leaked' = (leaked /\ ~LeavesBus)
  /\ clock' = IF LeavesBus /\ clock = "fresh" THEN "stale" ELSE clock

-----------------------------------------------------------------------------
(* process_serial_data                                                     *)

BeginFrame ==
  /\ Thread("stream", "imu")
  /\ running
  /\ torn' = FALSE
  /\ UNCHANGED <<running, handle, port, announced, device, hist>>

\* read_timestamp, and the clock offset computed from whatever it returned.
ReadEndStamp ==
  /\ ReadPart("endStamp", "publishImu")
  /\ clock' = IF torn' THEN "stale" ELSE "fresh"
  /\ UNCHANGED <<vpc, fd, leaked>>

PublishImu == Callback("publishImu", "emitImu", "stream") \/ Emit("publishImu", "stream")
EmitImu == Emit("emitImu", "stream")

ProcessSerialData ==
  \/ BeginFrame \/ ReadEndStamp
  \/ (ReadImuHeader \/ ReadImuLines \/ PublishImu \/ EmitImu) /\ UNCHANGED hist

-----------------------------------------------------------------------------
(* run_v4l2                                                                *)

V4l2(l, m) == Alive /\ vpc = l /\ vpc' = m
           /\ UNCHANGED <<handle, port, spc, frame, executor, crashed, device>>

\* Variant: the result of open is not tested.
OpenVideoUntested ==
  /\ V4l2("open", "opened")
  /\ running
  /\ fd' = "open" /\ leaked' = (leaked \/ fd = "on")
  /\ UNCHANGED <<running, clock>>

\* The node is opened over whatever _fd held before.
OpenVideo ==
  /\ V4l2("open", "opened")
  /\ running /\ devPort # NoPort
  /\ fd' = "open" /\ leaked' = (leaked \/ fd = "on")
  /\ UNCHANGED <<running, clock>>

OpenVideoFails ==
  /\ V4l2("open", "open")
  /\ running /\ devPort = NoPort
  /\ fd' = "none"
  /\ UNCHANGED <<running, leaked, clock>>

\* The loop and the early return each test _running, which a start() may set
\* between the two: the thread then goes on without a descriptor.
OpenVideoStops ==
  /\ V4l2("open", "opened")
  /\ ~running
  /\ UNCHANGED <<running, fd, leaked, clock>>

\* The early return does not write _running.
V4l2Returns ==
  /\ V4l2("opened", "done")
  /\ ~running
  /\ UNCHANGED <<running, fd, leaked, clock>>

V4l2Proceeds ==
  /\ V4l2("opened", "streamOn")
  /\ running
  /\ UNCHANGED <<running, fd, leaked, clock>>

StreamOn ==
  /\ V4l2("streamOn", "loop")
  /\ fd = "open" /\ ~leaked
  /\ fd' = "on"
  /\ UNCHANGED <<running, leaked, clock>>

\* There is no node, or it streams already: VIDIOC_S_FMT or REQBUFS fail.
StreamOnFails ==
  /\ V4l2("streamOn", "loop")
  /\ fd # "open" \/ leaked
  /\ running' = FALSE
  /\ UNCHANGED <<fd, leaked, clock>>

VideoFrames == fd = "on" /\ ~mute
            /\ ("fsync" \in stream \/ ("trgin" \in stream /\ trigger))

DequeueFrame ==
  /\ V4l2("loop", "unpack")
  /\ running /\ VideoFrames
  /\ UNCHANGED <<running, fd, leaked, clock>>

\* select times out after 10 s without a frame, or the node is gone.
SelectFails ==
  /\ V4l2("loop", "fin")
  /\ running /\ ~VideoFrames
  /\ UNCHANGED <<running, fd, leaked, clock>>

V4l2LoopExits ==
  /\ V4l2("loop", "fin")
  /\ ~running
  /\ UNCHANGED <<running, fd, leaked, clock>>

\* if (_running && _point_cloud_cb && _clock_offset > 0)
UnpackHistFrame ==
  /\ V4l2("unpack", IF running /\ clock # "unset" THEN "emit" ELSE "loop")
  /\ UNCHANGED <<running, fd, leaked, clock>>

\* The callback, then VIDIOC_QBUF, which fails on a lost node.
EmitCloud ==
  /\ V4l2("emit", IF fd = "lost" THEN "fin" ELSE "loop")
  /\ UNCHANGED <<running, fd, leaked, clock>>

V4l2Finishes ==
  /\ V4l2("fin", "done")
  /\ running' = FALSE
  /\ UNCHANGED <<fd, leaked, clock>>

V4l2Thread ==
  \/ OpenVideo \/ OpenVideoFails \/ OpenVideoStops \/ V4l2Returns \/ V4l2Proceeds
  \/ StreamOn \/ StreamOnFails \/ DequeueFrame \/ SelectFails
  \/ V4l2LoopExits \/ UnpackHistFrame \/ EmitCloud \/ V4l2Finishes

-----------------------------------------------------------------------------
(* The hooks and the destructor.                                           *)

\* start_impl joins the previous thread; _running is already TRUE.
StartImpl ==
  /\ Exec("startImpl", "idle")
  /\ vpc \in NoThread
  /\ vpc' = "open" /\ op' = "none"
  /\ UNCHANGED <<running, handle, spc, sync, device, fd, leaked, clock>>

\* Variants: the thread is not joined; _fd is not closed and reset.
StopImplNoJoin ==
  /\ Exec("stopImpl", "stopJoin")
  /\ fd' = "none"
  /\ UNCHANGED <<running, handle, spc, op, sync, device, vpc, leaked, clock>>
StopImplKeepsFd ==
  /\ Exec("stopImpl", "stopJoin")
  /\ vpc \in NoThread
  /\ vpc' = "none"
  /\ UNCHANGED <<running, handle, spc, op, sync, device, fd, leaked, clock>>

\* stop_impl joins the thread and closes the descriptor.
StopImpl ==
  /\ Exec("stopImpl", "stopJoin")
  /\ vpc \in NoThread
  /\ vpc' = "none" /\ fd' = "none"
  /\ UNCHANGED <<running, handle, spc, op, sync, device, leaked, clock>>

\* The members die before the base class destructor runs; destroying a
\* joinable std::thread ends the process.
DtorMembers ==
  /\ Alive /\ mpc = "dtorMembers"
  /\ IF vpc = "none"
     THEN mpc' = "dtorJoin" /\ crashed' = crashed
     ELSE crashed' = "terminate" /\ mpc' = mpc
  /\ UNCHANGED <<running, handle, port, spc, frame, op, sync, device, hist>>

-----------------------------------------------------------------------------
SerialThread == Common(RunStep) \/ ProcessSerialData
Executor == Common(ExecStep) \/ StartImpl \/ StopImpl \/ DtorMembers

Next == SerialThread \/ V4l2Thread \/ Executor \/ Common(CallStep) \/ Common(Environment)

Spec == Init /\ [][Next]_vars

Fairness == WF_vars(SerialThread) /\ WF_vars(V4l2Thread) /\ WF_vars(Executor)
FairSpec == Spec /\ Fairness

-----------------------------------------------------------------------------
(* Properties                                                              *)

(* stop_impl closes _fd and unmaps its buffers only when the v4l2 thread   *)
(* has ended: the thread never selects, dequeues or unpacks on a closed    *)
(* descriptor, not even when a start() between the two tests of _running   *)
(* lets it pass without having opened one.                                 *)
DescriptorInUse ==
  Alive /\ (vpc \in {"unpack", "emit"} \/ (vpc = "loop" /\ running)) => fd # "none"

(* A stop() that did its work, and did not return early, has joined both   *)
(* threads and released the capture node before anything else happens.     *)
JoinedStopIsQuiet ==
  Alive /\ spc = "none" /\ mpc \in {"idle", "setMode", "gone"} \cup RebootPcs
    => vpc = "none" /\ fd = "none"

(* The v4l2 thread may clear _running in the middle of a read, and a       *)
(* start() may set it again: the IMU samples of which a read was given up  *)
(* are not published nevertheless.                                         *)
NoTornFrame == spc = "emitImu" => ~torn

(* Although stop() may return early, and set_mode and reboot then use the  *)
(* port while the serial thread still reads it, a device that does not     *)
(* stream by itself is never left streaming without a thread to stop it.   *)
NoOrphanStream ==
  Alive /\ flstream = {} /\ stream # {}
    => spc \in {"arm", "skip", "wrapup", "wrapup2"} \cup FramePcs

(* When the v4l2 thread fails it only clears _running; the serial thread   *)
(* then ends by itself wherever it is, also in its search for the device.  *)
SerialSessionEnds ==
  <>[]~mute => [](~running /\ spc \notin NoThread => <>(spc \in NoThread \/ ~Alive))

-----------------------------------------------------------------------------
(* A property that the repository states and the code does not have.       *)

(* "stop -> start cycle should work reliably": every call returns.         *)
(* start() sets _running before start_impl joins the previous v4l2 thread, *)
(* which then goes on as if nothing had happened, and streams for as long  *)
(* as frames arrive.  The device answers and stays on the bus.             *)
CallsReturn ==
  <>[](~mute /\ devPort # NoPort)
    => [](mpc # "idle" => <>(mpc \in {"idle", "gone"} \/ ~Alive))
=============================================================================
