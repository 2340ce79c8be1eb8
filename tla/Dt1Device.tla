----------------------------- MODULE Dt1Device -----------------------------
(***************************************************************************)
(* The session protocol of the AS-DT1 driver, class dt1_device             *)
(* (src/device/dt1_device.cpp): one serial thread, which runs run(), and   *)
(* the ROS executor, which runs start(), stop(), reboot(), set_mode(), the *)
(* parameter callback and the destructor.  They share _running, _serial    *)
(* and the std::thread object.  The device at the other end of the USB     *)
(* cable, and the serial library, are part of the environment.             *)
(*                                                                         *)
(* A program counter stands before the code its action executes.  A retry  *)
(* that changes nothing (no port found, port refused, read timeout) is a   *)
(* stuttering step.  The virtual hooks start_impl, stop_impl and           *)
(* process_serial_data, and Next, belong to the modules Dt1DeviceCdc and   *)
(* Dt1DeviceHist, which extend this one.                                   *)
(***************************************************************************)
EXTENDS Naturals

CONSTANTS Port,     \* the tty names under which the device can be enumerated
          NoPort,   \* the device is not enumerated; find_port returned ""
          SyncMode  \* the sync modes the node is configured with

ASSUME PortAssumption == NoPort \notin Port
ASSUME SyncAssumption == SyncMode \subseteq {"master", "slave"}

VARIABLES
  running,     \* _running
  serial,      \* _serial: nullptr, closed, open, or open on a lost device
  serialPort,  \* the port name kept by the serial::Serial object
  port,        \* run()'s local variable
  spc,         \* the serial thread; "none": _serial_thread is not joinable
  torn,        \* a read of the current frame was abandoned half-way
  announced,   \* the node was last told connect_cb({true, ..})
  sync,        \* _sync_mode (none behaves as master)
  mpc,         \* the executor thread; "gone": the device object is destroyed
  op,          \* the call the executor is serving
  crashed,     \* how the process ended, or "no"
  devPort,     \* where the device is enumerated
  mute,        \* the device is enumerated but does not answer
  startOk,     \* its flash start mode is expected_flstart_mode()
  modeOk,      \* the sensor mode in its flash is the one _mode asks for
  boot,        \* does what is in force come from this flash: see Boots
  fwOk,        \* its firmware passes is_supported_device()
  stream,      \* what makes it stream now: frame sync, trigger input
  flstream,    \* what makes it stream after a power-up
  trigger      \* trigger pulses arrive from a master

handle == <<serial, serialPort>>
frame == <<torn, announced>>
flash == <<startOk, modeOk, boot>>
device == <<devPort, mute, flash, fwOk, stream, flstream, trigger>>
executor == <<mpc, op, sync>>
baseVars == <<running, handle, port, spc, frame, executor, crashed, device>>

\* Program counters of the serial thread.
ConnectPcs == {"find", "connect", "opened", "verify", "fixStart", "info", "fixMode",
               "fixBoot"}
SetupPcs == {"ready", "setup", "arm", "skip"}
FramePcs == {"stream", "stamp", "cloud", "imu", "imuLine", "endStamp",
             "publish", "emit", "publishImu", "emitImu"}
WrapupPcs == {"wrapup", "wrapup2", "notify", "close", "clear"}
NoThread == {"none", "done"}          \* join() would not block
\* Where the thread is inside a call on _serial.
IoPcs == {"opened", "verify", "fixStart", "info", "fixMode", "fixBoot", "setup", "arm", "skip",
          "stamp", "cloud", "imu", "imuLine", "endStamp"}

\* Program counters of the executor.
RebootPcs == {"rebootOpen", "rebootSend", "rebootClose"}
ExecPcs == {"idle", "start", "startJoin", "startSpawn", "startImpl",
            "stop", "stopImpl", "stopJoin", "setMode", "reboot",
            "dtorMembers", "dtorJoin", "gone"} \cup RebootPcs
Ops == {"none", "start", "stop", "reboot", "param", "mode", "dtor"}
Sources == {"fsync", "trgin"}
\* The device has started from the settings in its flash; this driver has
\* changed them since; a run of the driver that is over had changed them.
Boots == {"current", "written", "left"}

FlagsOK ==
  /\ running \in BOOLEAN /\ torn \in BOOLEAN /\ announced \in BOOLEAN
  /\ mute \in BOOLEAN /\ startOk \in BOOLEAN /\ modeOk \in BOOLEAN
  /\ fwOk \in BOOLEAN /\ trigger \in BOOLEAN

ControlOK ==
  /\ spc \in ConnectPcs \cup SetupPcs \cup FramePcs \cup WrapupPcs \cup NoThread
  /\ mpc \in ExecPcs
  /\ op \in Ops
  /\ sync \in SyncMode
  /\ crashed \in {"no", "terminate", "executor"}

DeviceOK ==
  /\ serial \in {"null", "closed", "open", "dead"}
  /\ serialPort \in Port \cup {NoPort}
  /\ port \in Port \cup {NoPort}
  /\ devPort \in Port \cup {NoPort}
  /\ stream \in SUBSET Sources
  /\ flstream \in SUBSET Sources
  /\ boot \in Boots

\* A serial::Serial object has a port name; an open one is on the port where
\* the device is enumerated; connect() and reboot() hold what they need.
HandleOK ==
  /\ serial # "null" => serialPort \in Port
  /\ serial = "open" => devPort = serialPort
  /\ spc = "connect" => port \in Port
  /\ mpc \in {"rebootSend", "rebootClose"} => serial # "null"

BaseTypeOK == FlagsOK /\ ControlOK /\ DeviceOK /\ HandleOK

Alive == crashed = "no"

(* The node's constructor ends with start(); the device may or may not be  *)
(* there, in any flash configuration, and may be streaming from power-up.  *)
(* A driver that was killed may have left it with a flash that is not in   *)
(* force yet.                                                              *)
BaseInit ==
  /\ running = FALSE
  /\ serial = "null" /\ serialPort = NoPort /\ port = NoPort
  /\ spc = "none"
  /\ torn = FALSE /\ announced = FALSE
  /\ sync \in SyncMode
  /\ mpc = "start" /\ op = "start"
  /\ crashed = "no"
  /\ devPort \in Port \cup {NoPort}
  /\ mute = FALSE
  /\ startOk \in BOOLEAN /\ modeOk \in BOOLEAN /\ fwOk \in BOOLEAN
  /\ boot = "current" \/ (devPort # NoPort /\ boot = "left")
  /\ flstream \in SUBSET Sources
  /\ stream = IF devPort = NoPort THEN {} ELSE flstream
  /\ trigger \in BOOLEAN

-----------------------------------------------------------------------------
(* The device and the serial library.                                      *)

\* A command is answered with its echo and a prompt.
Answers == serial = "open" /\ ~mute

\* Frames arrive.
Frames == Answers /\ ("fsync" \in stream \/ ("trgin" \in stream /\ trigger))

\* The "reboot" command: the device leaves the bus.
DeviceReboots == devPort' = NoPort /\ mute' = FALSE /\ stream' = {}

Unplug ==
  /\ devPort # NoPort
  /\ devPort' = NoPort /\ mute' = FALSE /\ stream' = {}
  /\ serial' = IF serial = "open" THEN "dead" ELSE serial
  /\ UNCHANGED <<running, serialPort, port, spc, frame, executor, crashed,
                 flash, fwOk, flstream, trigger>>

PlugIn(p) ==
  /\ devPort = NoPort
  /\ devPort' = p /\ stream' = flstream /\ boot' = "current"
  /\ UNCHANGED <<running, handle, port, spc, frame, executor, crashed,
                 mute, startOk, modeOk, fwOk, flstream, trigger>>

Hang ==
  /\ devPort # NoPort /\ ~mute
  /\ mute' = TRUE
  /\ UNCHANGED <<running, handle, port, spc, frame, executor, crashed,
                 devPort, flash, fwOk, stream, flstream, trigger>>

Recover ==
  /\ mute
  /\ mute' = FALSE
  /\ UNCHANGED <<running, handle, port, spc, frame, executor, crashed,
                 devPort, flash, fwOk, stream, flstream, trigger>>

\* Another camera, the master, starts or stops sending trigger pulses.
Trigger ==
  /\ "slave" \in SyncMode
  /\ trigger' = ~trigger
  /\ UNCHANGED <<running, handle, port, spc, frame, executor, crashed,
                 devPort, mute, flash, fwOk, stream, flstream>>

Replug == \E p \in Port : PlugIn(p)
Environment == Unplug \/ Hang \/ Recover \/ Trigger \/ Replug

-----------------------------------------------------------------------------
(* The serial thread: run().                                               *)

\* The thread moves from l to m and leaves the executor's variables alone.
Thread(l, m) == Alive /\ spc = l /\ spc' = m /\ UNCHANGED <<executor, crashed>>

\* find_port: the port whose description names the device, or the empty name.
FoundPort == devPort

\* Variant: the empty port name is not tested.
FindPortUntested ==
  /\ Thread("find", "connect")
  /\ running
  /\ port' = FoundPort
  /\ UNCHANGED <<running, handle, frame, device>>

FindPort ==
  /\ Thread("find", "connect")
  /\ running /\ FoundPort # NoPort
  /\ port' = FoundPort
  /\ UNCHANGED <<running, handle, frame, device>>

\* connect() in its retry loop: the port found before is never looked up again.
Connect ==
  /\ Thread("connect", "opened")
  /\ running /\ devPort = port
  /\ serial' = "open" /\ serialPort' = port
  /\ UNCHANGED <<running, port, frame, device>>

\* Variant: the connect loop does not test _running.
LoopExitsButConnect ==
  /\ spc \in {"find", "opened", "ready", "skip", "stream"}
  /\ Thread(spc, "wrapup")
  /\ ~running
  /\ UNCHANGED <<running, handle, port, frame, device>>

\* The loops and ifs on _running that lead to the wrap-up once it is FALSE.
LoopExits ==
  /\ spc \in {"find", "connect", "opened", "ready", "skip", "stream"}
  /\ Thread(spc, "wrapup")
  /\ ~running
  /\ UNCHANGED <<running, handle, port, frame, device>>

\* A read or write on a lost device, or on a port that the executor closed,
\* throws; run() catches it.
SerialThrows ==
  /\ spc \in IoPcs
  /\ Thread(spc, "wrapup")
  /\ serial \in {"closed", "dead"}
  /\ UNCHANGED <<running, handle, port, frame, device>>

\* Only the internal frame sync is stopped here, not the trigger input.
StopIfStreaming ==
  /\ Thread("opened", "verify")
  /\ running /\ serial = "open"
  /\ stream' = IF mute THEN stream ELSE stream \ {"fsync"}
  /\ UNCHANGED <<running, handle, port, frame, devPort, mute, flash,
                 fwOk, flstream, trigger>>

\* Variant: the reply to flstart is not looked at.
VerifyNothing ==
  /\ Answers
  /\ Thread("verify", "info")
  /\ UNCHANGED <<running, handle, port, frame, device>>

\* read_line_until gives up once _running is FALSE, and the reply is then
\* whatever line came first.
VerifyDeviceMode ==
  /\ Answers
  /\ \/ Thread("verify", IF startOk THEN "info" ELSE "fixStart")
     \/ ~running /\ Thread("verify", "fixStart")
  /\ UNCHANGED <<running, handle, port, frame, device>>

\* Variant: the flash setting is not written.
WriteFlashIgnored(l) ==
  /\ Thread(l, "fixBoot")
  /\ Answers
  /\ UNCHANGED <<running, handle, port, frame, device>>

\* A flash setting is written, and is not in force before the device starts
\* again.  A mute device that nobody waits for any more ignores the command.
WriteFlash(l) ==
  /\ Thread(l, "fixBoot")
  /\ serial = "open"
  /\ \/ /\ ~mute
        /\ startOk' = (startOk \/ l = "fixStart")
        /\ modeOk' = (modeOk \/ l = "fixMode")
        /\ boot' = IF startOk' = startOk /\ modeOk' = modeOk THEN boot ELSE "written"
     \/ mute /\ ~running /\ UNCHANGED flash
  /\ UNCHANGED <<running, handle, port, frame, devPort, mute, fwOk, stream,
                 flstream, trigger>>

FixStart == WriteFlash("fixStart")
FixMode == WriteFlash("fixMode")

\* Variant: the port is closed and the device is not rebooted.
FixBootForgotten ==
  /\ Thread("fixBoot", "find")
  /\ serial = "open" /\ serial' = "closed"
  /\ UNCHANGED <<running, serialPort, port, frame, device>>

\* The reboot, a command of its own, and the close of the port.
FixBoot ==
  /\ Thread("fixBoot", "find")
  /\ serial = "open" /\ serial' = "closed"
  /\ \/ ~mute /\ DeviceReboots
     \/ mute /\ ~running /\ UNCHANGED <<devPort, mute, stream>>
  /\ UNCHANGED <<running, serialPort, port, frame, flash, fwOk, flstream, trigger>>

\* Unsupported firmware and an unknown mode throw; both may also be read from
\* the wrong line once _running is FALSE.
GetDeviceInfo ==
  /\ Answers
  /\ \/ (~fwOk \/ ~running) /\ Thread("info", "wrapup")
     \/ (fwOk \/ ~running) /\ Thread("info", IF modeOk THEN "ready" ELSE "fixMode")
  /\ UNCHANGED <<running, handle, port, frame, device>>

AnnounceConnected ==
  /\ Thread("ready", "setup")
  /\ running
  /\ announced' = TRUE
  /\ UNCHANGED <<running, handle, port, torn, device>>

\* fltrgin disable, flfsync 0: the device does not stream after a power-up.
SetFlashDefaults ==
  /\ Thread("setup", "arm")
  /\ Answers
  /\ flstream' = {}
  /\ UNCHANGED <<running, handle, port, frame, devPort, mute, flash,
                 fwOk, stream, trigger>>

\* trgin and fsync by the sync mode.
Arm ==
  /\ Thread("arm", "skip")
  /\ Answers
  /\ stream' = IF sync = "slave" THEN {"trgin"} ELSE {"fsync"}
  /\ UNCHANGED <<running, handle, port, frame, devPort, mute, flash,
                 fwOk, flstream, trigger>>

SkipFrames ==
  /\ Thread("skip", "stream")
  /\ Frames
  /\ UNCHANGED <<running, handle, port, frame, device>>

\* Variant: the read waits for its data whatever _running says.
ReadPartForever(l, m) ==
  /\ Thread(l, m)
  /\ Frames /\ torn' = torn
  /\ UNCHANGED <<running, handle, port, announced, device>>

\* A read of the frame at l: the data arrives, or _running turns FALSE first.
ReadPart(l, m) ==
  /\ Thread(l, m)
  /\ serial = "open"
  /\ \/ Frames /\ torn' = torn
     \/ ~running /\ torn' = TRUE
  /\ UNCHANGED <<running, handle, port, announced, device>>

\* read_imu: the header is waited for while _running; a sample line that has
\* begun is read to its end whatever _running says.
ReadImuHeader ==
  /\ serial = "open"
  /\ \/ running /\ Frames /\ Thread("imu", "imuLine") /\ torn' = torn
     \/ ~running /\ Thread("imu", "endStamp") /\ torn' = TRUE
  /\ UNCHANGED <<running, handle, port, announced, device>>

ReadImuLines ==
  /\ Thread("imuLine", "endStamp")
  /\ Answers
  /\ torn' = (torn \/ ~running)
  /\ UNCHANGED <<running, handle, port, announced, device>>

\* Variant: the callback is not guarded by _running.
CallbackAlways(l, m, n) ==
  /\ Thread(l, m)
  /\ UNCHANGED <<running, handle, port, frame, device>>

\* if (_running && cb) at l: the callback follows at m, or is passed over to n.
Callback(l, m, n) ==
  /\ \/ running /\ Thread(l, m)
     \/ ~running /\ Thread(l, n)
  /\ UNCHANGED <<running, handle, port, frame, device>>

\* The callback itself, which publishes a message.
Emit(l, m) ==
  /\ Thread(l, m)
  /\ UNCHANGED <<running, handle, port, frame, device>>

\* The wrap-up stands after the try block: an exception here ends the process.
WrapupThrows ==
  /\ Alive
  /\ \/ spc = "wrapup" /\ ~running /\ serial \in {"closed", "dead"}
     \/ spc = "wrapup2" /\ serial \in {"closed", "dead"}
  /\ crashed' = "terminate"
  /\ UNCHANGED <<running, handle, port, spc, frame, executor, device>>

WrapupSkipped ==
  /\ Thread("wrapup", "notify")
  /\ running \/ serial = "null"
  /\ UNCHANGED <<running, handle, port, frame, device>>

StopFsync ==
  /\ Thread("wrapup", "wrapup2")
  /\ ~running /\ Answers
  /\ stream' = stream \ {"fsync"}
  /\ UNCHANGED <<running, handle, port, frame, devPort, mute, flash,
                 fwOk, flstream, trigger>>

\* Variant: the trigger input is left enabled.
StopTriggerForgotten ==
  /\ Thread("wrapup2", "notify")
  /\ Answers
  /\ UNCHANGED <<running, handle, port, frame, device>>

StopTrigger ==
  /\ Thread("wrapup2", "notify")
  /\ Answers
  /\ stream' = stream \ {"trgin"}
  /\ UNCHANGED <<running, handle, port, frame, devPort, mute, flash,
                 fwOk, flstream, trigger>>

\* Variant: the node is not told.
AnnounceNothing ==
  /\ Thread("notify", "close")
  /\ UNCHANGED <<running, handle, port, frame, device>>

AnnounceDisconnected ==
  /\ Thread("notify", "close")
  /\ announced' = FALSE
  /\ UNCHANGED <<running, handle, port, torn, device>>

\* Variant: _running is cleared before the port is closed.
CloseSerialCleared ==
  /\ Thread("close", "clear")
  /\ serial' = IF serial = "null" THEN "null" ELSE "closed"
  /\ running' = FALSE
  /\ UNCHANGED <<serialPort, port, frame, device>>

CloseSerial ==
  /\ Thread("close", "clear")
  /\ serial' = IF serial = "null" THEN "null" ELSE "closed"
  /\ UNCHANGED <<running, serialPort, port, frame, device>>

ClearRunning ==
  /\ Thread("clear", "done")
  /\ running' = FALSE
  /\ port' = NoPort /\ torn' = FALSE
  /\ UNCHANGED <<handle, announced, device>>

RunStep ==
  \/ FindPort \/ Connect \/ LoopExits \/ SerialThrows \/ StopIfStreaming
  \/ VerifyDeviceMode \/ FixStart \/ FixMode \/ FixBoot \/ GetDeviceInfo
  \/ AnnounceConnected \/ SetFlashDefaults \/ Arm \/ SkipFrames
  \/ WrapupThrows \/ WrapupSkipped \/ StopFsync \/ StopTrigger
  \/ AnnounceDisconnected \/ CloseSerial \/ ClearRunning

-----------------------------------------------------------------------------
(* The executor: the calls the node makes on the device object.            *)

\* The executor moves from l to m and leaves the serial thread alone.
Exec(l, m) == Alive /\ mpc = l /\ mpc' = m /\ UNCHANGED <<port, frame, crashed>>

Call(o, l) ==
  /\ Exec("idle", l)
  /\ op' = o
  /\ UNCHANGED <<running, handle, spc, device>>

CallStart == Call("start", "start") /\ UNCHANGED sync      \* on_start_streaming
CallStop == Call("stop", "stop") /\ UNCHANGED sync        \* on_stop_streaming
CallReboot == Call("reboot", "reboot") /\ UNCHANGED sync \* on_reboot
\* on_parameters_set: a list with a frame rate or a sync mode, one with a mode,
\* and one that is refused at an entry behind the sync mode it has already set.
CallParam == Call("param", "reboot") /\ sync' \in SyncMode
CallMode == Call("mode", "stop") /\ sync' \in SyncMode
CallRefused == Call("none", "idle") /\ sync' \in SyncMode
Destroy == Call("dtor", "stop") /\ UNCHANGED sync

\* The call is over.
Return(l) == Exec(l, "idle") /\ op' = "none" /\ UNCHANGED sync

StartReturns ==
  /\ Return("start")
  /\ running
  /\ UNCHANGED <<running, handle, spc, device>>

StartChecks ==
  /\ Exec("start", "startJoin")
  /\ ~running
  /\ UNCHANGED <<running, handle, spc, op, sync, device>>

\* Variant: start() goes on without the join.
StartJoinsNothing ==
  /\ Exec("startJoin", "startSpawn")
  /\ running' = TRUE
  /\ UNCHANGED <<handle, spc, op, sync, device>>

\* The join of a finished thread, and _running = true.
StartJoins ==
  /\ Exec("startJoin", "startSpawn")
  /\ spc \in NoThread
  /\ spc' = "none" /\ running' = TRUE
  /\ UNCHANGED <<handle, op, sync, device>>

StartSpawns ==
  /\ Exec("startSpawn", "startImpl")
  /\ spc' = "find"
  /\ UNCHANGED <<running, handle, op, sync, device>>

\* Where the executor goes when stop() returns to its caller.
AfterStop ==
  CASE op = "dtor" -> "dtorMembers"
    [] op = "mode" -> "setMode"
    [] op \in {"reboot", "param"} -> "rebootOpen"
    [] OTHER -> "idle"
StopReturns(l) ==
  /\ Exec(l, AfterStop)
  /\ op' = IF op = "stop" THEN "none" ELSE op
  /\ UNCHANGED sync

StopReturnsEarly ==
  /\ StopReturns("stop")
  /\ ~running
  /\ UNCHANGED <<running, handle, spc, device>>

StopClears ==
  /\ Exec("stop", "stopImpl")
  /\ running /\ running' = FALSE
  /\ UNCHANGED <<handle, spc, op, sync, device>>

\* Variant: stop() returns without the join.
StopJoinsNothing ==
  /\ StopReturns("stopJoin")
  /\ UNCHANGED <<running, handle, spc, device>>

StopJoins ==
  /\ StopReturns("stopJoin")
  /\ spc \in NoThread
  /\ spc' = "none"
  /\ UNCHANGED <<running, handle, device>>

\* set_mode, the rest of the list, and the reboot() at the end of
\* on_parameters_set, which an invalid entry in that rest passes over.
SetMode ==
  /\ \/ Exec("setMode", "reboot") /\ op' = "param"
     \/ Exec("setMode", "idle") /\ op' = "none"
  /\ modeOk' \in BOOLEAN /\ sync' \in SyncMode
  /\ UNCHANGED <<running, handle, spc, devPort, mute, startOk,
                 boot, fwOk, stream, flstream, trigger>>

RebootNotConnected ==
  /\ Return("reboot")
  /\ serial = "null"
  /\ UNCHANGED <<running, handle, spc, device>>

RebootStops ==
  /\ Exec("reboot", "stop")
  /\ serial # "null"
  /\ UNCHANGED <<running, handle, spc, op, sync, device>>

RebootOpens ==
  /\ Exec("rebootOpen", "rebootSend")
  /\ serial = "closed" /\ serialPort = devPort
  /\ serial' = "open"
  /\ UNCHANGED <<running, serialPort, spc, op, sync, device>>

\* send_and_receive does not wait for a mute device: _running is FALSE.
RebootSends ==
  /\ Exec("rebootSend", "rebootClose")
  /\ serial = "open"
  /\ IF mute
     THEN UNCHANGED <<serial, devPort, mute, stream>>
     ELSE DeviceReboots /\ serial' = "dead"
  /\ UNCHANGED <<running, serialPort, spc, op, sync, flash,
                 fwOk, flstream, trigger>>

RebootCloses ==
  /\ Exec("rebootClose", "start")
  /\ serial' = "closed"
  /\ UNCHANGED <<running, serialPort, spc, op, sync, device>>

\* open() on an open handle or a vanished port, write() on a lost or closed one.
\* on_reboot catches the exception, on_parameters_set does not.
RebootThrows ==
  /\ Alive
  /\ \/ mpc = "rebootOpen" /\ (serial # "closed" \/ serialPort # devPort)
     \/ mpc = "rebootSend" /\ serial # "open"
  /\ IF op = "reboot"
     THEN mpc' = "idle" /\ op' = "none" /\ crashed' = crashed
     ELSE crashed' = "executor" /\ UNCHANGED <<mpc, op>>
  /\ UNCHANGED <<running, handle, port, spc, frame, sync, device>>

\* The base class destructor joins what its stop() did not.
DtorJoins ==
  /\ Exec("dtorJoin", "gone")
  /\ spc \in NoThread
  /\ spc' = "none" /\ op' = "none"
  /\ UNCHANGED <<running, handle, sync, device>>

CallStep ==
  CallStart \/ CallStop \/ CallReboot \/ CallParam \/ CallMode \/ CallRefused \/ Destroy
ExecStep ==
  \/ StartReturns \/ StartChecks \/ StartJoins \/ StartSpawns
  \/ StopReturnsEarly \/ StopClears \/ StopJoins \/ SetMode
  \/ RebootNotConnected \/ RebootStops \/ RebootOpens \/ RebootSends
  \/ RebootCloses \/ RebootThrows \/ DtorJoins
=============================================================================
