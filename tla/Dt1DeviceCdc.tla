---------------------------- MODULE Dt1DeviceCdc ----------------------------
(***************************************************************************)
(* The driver with output_format XYZ: dt1_device and its subclass          *)
(* dt1_device_cdc (src/device/dt1_device_cdc.cpp), which reads clouds and  *)
(* IMU samples from the serial port and has no thread of its own.          *)
(***************************************************************************)
EXTENDS Dt1Device

vars == baseVars

-----------------------------------------------------------------------------
(* process_serial_data                                                     *)

BeginFrame ==
  /\ Thread("stream", "stamp")
  /\ running
  /\ torn' = FALSE
  /\ UNCHANGED <<running, handle, port, announced, device>>

\* A timestamp line, or the return once _running is FALSE.
ReadStamp ==
  \/ running /\ Frames /\ ReadPart("stamp", "cloud")
  \/ ~running /\ ReadPart("stamp", "stream")

ReadSerialPointCloud == ReadPart("cloud", "imu")
ReadEndStamp == ReadPart("endStamp", "publish")

PublishCloud == Callback("publish", "emit", "publishImu")
EmitCloud == Emit("emit", "publishImu")
\* With no sample in the frame there is nothing to publish.
PublishImu == Callback("publishImu", "emitImu", "stream") \/ Emit("publishImu", "stream")
EmitImu == Emit("emitImu", "stream")

ProcessSerialData ==
  \/ BeginFrame \/ ReadStamp \/ ReadSerialPointCloud \/ ReadImuHeader
  \/ ReadImuLines \/ ReadEndStamp \/ PublishCloud \/ EmitCloud
  \/ PublishImu \/ EmitImu

-----------------------------------------------------------------------------
(* The hooks, which only size the buffers, and the destructor.             *)

Hook(l, m) == Exec(l, m) /\ UNCHANGED <<running, handle, spc, op, sync, device>>

StartImpl ==
  /\ Exec("startImpl", "idle")
  /\ op' = "none"
  /\ UNCHANGED <<running, handle, spc, sync, device>>
StopImpl == Hook("stopImpl", "stopJoin")
DtorMembers == Hook("dtorMembers", "dtorJoin")

-----------------------------------------------------------------------------
SerialThread == RunStep \/ ProcessSerialData
Executor == ExecStep \/ StartImpl \/ StopImpl \/ DtorMembers

Init == BaseInit
Next == SerialThread \/ Executor \/ CallStep \/ Environment

Spec == Init /\ [][Next]_vars

(* The operating system schedules both threads; the executor completes the *)
(* call it is in.  Nothing makes a user call, or a cable move.             *)
Fairness == WF_vars(SerialThread) /\ WF_vars(Executor)
FairSpec == Spec /\ Fairness

(* A device that left the bus comes back, and one that is booting answers. *)
DeviceReturns == WF_vars(Replug) /\ WF_vars(Recover)
ServiceSpec == FairSpec /\ DeviceReturns

-----------------------------------------------------------------------------
(* Properties                                                              *)

(* Every variable has its type; a serial::Serial object has a port name,   *)
(* and an open one is on the port where the device is enumerated.          *)
TypeOK == BaseTypeOK

(* The commands of reboot(), set_mode() and the spawn of a new thread use  *)
(* _serial, _mode and _serial_thread without a lock: the serial thread has *)
(* ended by then, however stop() was answered.  (The test of _serial for   *)
(* null with which reboot() begins comes before its stop() and may race.)  *)
SerialExclusive ==
  Alive /\ mpc \in RebootPcs \cup {"setMode", "startJoin", "startSpawn", "gone"}
    => spc \in NoThread

(* stop() trusts _running: it returns at once when it is FALSE.  Outside   *)
(* of a stop() in progress, _running = FALSE does mean that the thread has *)
(* ended, so nothing is published after stop_streaming has answered.       *)
StoppedIsQuiet ==
  Alive /\ ~running /\ mpc \notin {"stopImpl", "stopJoin"} => spc \in NoThread

(* The reads of a frame give up when _running turns FALSE and leave old    *)
(* bytes in _receive_buf and _imu_data; such a frame is never published.   *)
NoTornFrame == spc \in {"emit", "emitImu"} => ~torn

(* What is published comes from a supported device that was announced to   *)
(* the node and has the requested start mode and sensor mode in its flash, *)
(* although replies read during a stop() may be garbage; and no device     *)
(* whose flash this driver has changed streams before it has started from  *)
(* it.  The driver asks for the flash only: a device that an earlier run   *)
(* of it left between flmode and reboot streams in its old mode.           *)
FrameAsRequested ==
  spc \in {"emit", "emitImu"}
    => announced /\ fwOk /\ startOk /\ modeOk /\ boot # "written"

(* A device whose flash does not make it stream streams only while a       *)
(* session of this driver is reading it: every way a session ends, also    *)
(* through exceptions, lost devices and reboots, leaves it silent.         *)
NoOrphanStream ==
  Alive /\ flstream = {} /\ stream # {}
    => spc \in {"arm", "skip", "wrapup", "wrapup2"} \cup FramePcs

(* The driver implements the session its users see.  The session is that   *)
(* of the serial thread: connected between the two calls of connect_cb,    *)
(* publishing inside the other callbacks.  In particular each session ends *)
(* with the node being told so, and none begins before the last has ended. *)
SessionPhase ==
  CASE ~Alive -> "dead"
    [] Alive /\ spc \in NoThread -> "none"
    [] Alive /\ spc \in {"close", "clear"} -> "closing"
    [] OTHER -> IF announced THEN "connected" ELSE "searching"
Session ==
  INSTANCE StreamSession WITH
    enabled <- running, session <- SessionPhase,
    publishing <- Alive /\ spc \in {"emit", "emitImu"}
ImplementsSession == Session!Spec

(* A service call or parameter change returns, even when no frame arrives  *)
(* for the thread that stop() joins, provided that the device does not     *)
(* stay mute (read_to_prompt and read_imu wait for it without a limit).    *)
CallsReturn ==
  <>[]~mute => [](mpc # "idle" => <>(mpc \in {"idle", "gone"} \/ ~Alive))

(* While _running stays TRUE and the device is neither unplugged nor       *)
(* hangs, the search and the flash negotiation with its reboots end in a   *)
(* streaming session.  This holds where the device keeps its port name.    *)
KeepsLooking ==
  <>[][~(Unplug \/ Hang)]_vars /\ <>[](Alive /\ running)
    => <>[](spc \in SetupPcs \cup FramePcs)

-----------------------------------------------------------------------------
(* Properties that the repository states and the code does not have.       *)

(* "stop -> start cycle should work reliably three times in a row": no     *)
(* sequence of service calls ends the process.  run() talks to the device  *)
(* once more after its try block, on a port that may be closed or lost.    *)
NeverTerminates == crashed # "terminate"

(* "it will continue looking for an AS-DT1 until it is connected": a mode  *)
(* parameter whose stop() interrupts the search (it had to join the        *)
(* thread, and no port was ever opened) is followed by a search again.     *)
SearchGoesOn ==
  (mpc = "stopJoin" /\ op = "mode" /\ serial = "null") ~> (running \/ ~Alive)
=============================================================================
