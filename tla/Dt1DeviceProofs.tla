--------------------------- MODULE Dt1DeviceProofs ---------------------------
(***************************************************************************)
(* Lemmas about the steps of Dt1Device that the proofs for both subclasses *)
(* need: each step of the serial thread, of the executor and of the device *)
(* preserves the types, and what it may do to the control state.           *)
(***************************************************************************)
EXTENDS Dt1Device, TLAPS

(* Every step of run() preserves the types, and what the serial handle and *)
(* the port names have to do with each other.                              *)
LEMMA RunTypes == BaseTypeOK /\ RunStep => BaseTypeOK'
<1> USE PortAssumption, SyncAssumption
<1> USE DEF BaseTypeOK, FlagsOK, ControlOK, DeviceOK, HandleOK, ConnectPcs, SetupPcs,
           FramePcs, WrapupPcs, NoThread, IoPcs, RebootPcs, ExecPcs, Ops, Sources, Boots,
           handle, frame, flash, device, executor, Thread, Exec, Alive, Answers, Frames
<1> SUFFICES ASSUME BaseTypeOK, RunStep PROVE BaseTypeOK'
  OBVIOUS
<1>1. CASE FindPort BY <1>1 DEF FindPort, FoundPort
<1>2. CASE Connect BY <1>2 DEF Connect
<1>3. CASE LoopExits BY <1>3 DEF LoopExits
<1>4. CASE SerialThrows BY <1>4 DEF SerialThrows
<1>5. CASE StopIfStreaming BY <1>5 DEF StopIfStreaming
<1>6. CASE VerifyDeviceMode BY <1>6 DEF VerifyDeviceMode
<1>7. CASE FixStart
  <2>1. startOk' \in BOOLEAN /\ modeOk' \in BOOLEAN
    BY <1>7, Zenon DEF FixStart, WriteFlash
  <2>2. ControlOK' BY <1>7 DEF FixStart, WriteFlash
  <2>3. DeviceOK' BY <1>7 DEF FixStart, WriteFlash
  <2>4. HandleOK' BY <1>7 DEF FixStart, WriteFlash
  <2>5. FlagsOK' BY <1>7, <2>1, Zenon DEF FixStart, WriteFlash
  <2> QED BY <2>2, <2>3, <2>4, <2>5
<1>8. CASE FixMode
  <2>1. startOk' \in BOOLEAN /\ modeOk' \in BOOLEAN
    BY <1>8, Zenon DEF FixMode, WriteFlash
  <2>2. ControlOK' BY <1>8 DEF FixMode, WriteFlash
  <2>3. DeviceOK' BY <1>8 DEF FixMode, WriteFlash
  <2>4. HandleOK' BY <1>8 DEF FixMode, WriteFlash
  <2>5. FlagsOK' BY <1>8, <2>1, Zenon DEF FixMode, WriteFlash
  <2> QED BY <2>2, <2>3, <2>4, <2>5
<1>9. CASE GetDeviceInfo BY <1>9 DEF GetDeviceInfo
<1>10. CASE AnnounceConnected BY <1>10 DEF AnnounceConnected
<1>11. CASE SetFlashDefaults BY <1>11 DEF SetFlashDefaults
<1>12. CASE Arm BY <1>12 DEF Arm
<1>13. CASE SkipFrames BY <1>13 DEF SkipFrames
<1>14. CASE WrapupThrows BY <1>14 DEF WrapupThrows
<1>15. CASE WrapupSkipped BY <1>15 DEF WrapupSkipped
<1>16. CASE StopFsync BY <1>16 DEF StopFsync
<1>17. CASE StopTrigger BY <1>17 DEF StopTrigger
<1>18. CASE AnnounceDisconnected
  <2>1. announced' \in BOOLEAN
    BY <1>18, Zenon DEF AnnounceDisconnected
  <2> QED BY <1>18, <2>1 DEF AnnounceDisconnected
<1>19. CASE CloseSerial BY <1>19 DEF CloseSerial
<1>20. CASE ClearRunning
  <2>1. running' \in BOOLEAN /\ torn' \in BOOLEAN
    BY <1>20, Zenon DEF ClearRunning
  <2> QED BY <1>20, <2>1 DEF ClearRunning
<1>21. CASE FixBoot
  <2>1. mute' \in BOOLEAN
    BY <1>21, Zenon DEF FixBoot, DeviceReboots
  <2>2. ControlOK' BY <1>21 DEF FixBoot, DeviceReboots
  <2>3. DeviceOK' BY <1>21 DEF FixBoot, DeviceReboots
  <2>4. HandleOK' BY <1>21 DEF FixBoot, DeviceReboots
  <2>5. FlagsOK' BY <1>21, <2>1, Zenon DEF FixBoot, DeviceReboots
  <2> QED BY <2>2, <2>3, <2>4, <2>5
<1> QED
  BY <1>1, <1>2, <1>3, <1>4, <1>5, <1>6, <1>7, <1>8, <1>9, <1>10, <1>11,
     <1>12, <1>13, <1>14, <1>15, <1>16, <1>17, <1>18, <1>19, <1>20, <1>21
  DEF RunStep


(* So does every step of start(), stop(), reboot() and the destructor.     *)
LEMMA ExecTypes == BaseTypeOK /\ ExecStep => BaseTypeOK'
<1> USE PortAssumption, SyncAssumption
<1> USE DEF BaseTypeOK, FlagsOK, ControlOK, DeviceOK, HandleOK, ConnectPcs, SetupPcs,
           FramePcs, WrapupPcs, NoThread, IoPcs, RebootPcs, ExecPcs, Ops, Sources, Boots,
           handle, frame, flash, device, executor, Thread, Exec, Alive, Answers, Frames
<1> SUFFICES ASSUME BaseTypeOK, ExecStep PROVE BaseTypeOK'
  OBVIOUS
<1>1. CASE StartReturns BY <1>1 DEF StartReturns, Return
<1>2. CASE StartChecks BY <1>2 DEF StartChecks
<1>3. CASE StartJoins BY <1>3 DEF StartJoins
<1>4. CASE StartSpawns BY <1>4 DEF StartSpawns
<1>5. CASE StopReturnsEarly BY <1>5 DEF StopReturnsEarly, StopReturns, AfterStop
<1>6. CASE StopClears
  <2>1. running' \in BOOLEAN
    BY <1>6, Zenon DEF StopClears
  <2> QED BY <1>6, <2>1 DEF StopClears
<1>7. CASE StopJoins BY <1>7 DEF StopJoins, StopReturns, AfterStop
<1>8. CASE SetMode BY <1>8 DEF SetMode
<1>9. CASE RebootNotConnected BY <1>9 DEF RebootNotConnected, Return
<1>10. CASE RebootStops BY <1>10 DEF RebootStops
<1>11. CASE RebootOpens BY <1>11 DEF RebootOpens
<1>12. CASE RebootSends
  <2>1. mute' \in BOOLEAN
    BY <1>12, Zenon DEF RebootSends, DeviceReboots
  <2>2. ControlOK' BY <1>12 DEF RebootSends, DeviceReboots
  <2>3. DeviceOK' BY <1>12 DEF RebootSends, DeviceReboots
  <2>4. HandleOK' BY <1>12 DEF RebootSends, DeviceReboots
  <2>5. FlagsOK' BY <1>12, <2>1, Zenon DEF RebootSends, DeviceReboots
  <2> QED BY <2>2, <2>3, <2>4, <2>5
<1>13. CASE RebootCloses BY <1>13 DEF RebootCloses
<1>14. CASE RebootThrows BY <1>14 DEF RebootThrows
<1>15. CASE DtorJoins BY <1>15 DEF DtorJoins
<1> QED
  BY <1>1, <1>2, <1>3, <1>4, <1>5, <1>6, <1>7, <1>8, <1>9, <1>10, <1>11,
     <1>12, <1>13, <1>14, <1>15
  DEF ExecStep


(* So does every call that the node makes.                                 *)
LEMMA CallTypes == BaseTypeOK /\ CallStep => BaseTypeOK'
<1> USE PortAssumption, SyncAssumption
<1> USE DEF BaseTypeOK, FlagsOK, ControlOK, DeviceOK, HandleOK, ConnectPcs, SetupPcs,
           FramePcs, WrapupPcs, NoThread, IoPcs, RebootPcs, ExecPcs, Ops, Sources, Boots,
           handle, frame, flash, device, executor, Thread, Exec, Alive, Answers, Frames
<1> SUFFICES ASSUME BaseTypeOK, CallStep PROVE BaseTypeOK'
  OBVIOUS
<1>1. CASE CallStart BY <1>1 DEF CallStart, Call
<1>2. CASE CallStop BY <1>2 DEF CallStop, Call
<1>3. CASE CallReboot BY <1>3 DEF CallReboot, Call
<1>4. CASE CallParam BY <1>4 DEF CallParam, Call
<1>5. CASE CallMode BY <1>5 DEF CallMode, Call
<1>6. CASE CallRefused BY <1>6 DEF CallRefused, Call
<1>7. CASE Destroy BY <1>7 DEF Destroy, Call
<1> QED
  BY <1>1, <1>2, <1>3, <1>4, <1>5, <1>6, <1>7
  DEF CallStep


(* So do the device and its cable.                                         *)
LEMMA EnvironmentTypes == BaseTypeOK /\ Environment => BaseTypeOK'
<1> USE PortAssumption, SyncAssumption
<1> USE DEF BaseTypeOK, FlagsOK, ControlOK, DeviceOK, HandleOK, ConnectPcs, SetupPcs,
           FramePcs, WrapupPcs, NoThread, IoPcs, RebootPcs, ExecPcs, Ops, Sources, Boots,
           handle, frame, flash, device, executor, Thread, Exec, Alive, Answers, Frames
<1> SUFFICES ASSUME BaseTypeOK, Environment PROVE BaseTypeOK'
  OBVIOUS
<1>1. CASE Unplug
  <2>1. mute' \in BOOLEAN
    BY <1>1, Zenon DEF Unplug
  <2> QED BY <1>1, <2>1 DEF Unplug
<1>2. CASE Hang BY <1>2 DEF Hang
<1>3. CASE Recover
  <2>1. mute' \in BOOLEAN
    BY <1>3, Zenon DEF Recover
  <2> QED BY <1>3, <2>1 DEF Recover
<1>4. CASE Trigger BY <1>4 DEF Trigger
<1>5. CASE Replug BY <1>5 DEF Replug, PlugIn
<1> QED
  BY <1>1, <1>2, <1>3, <1>4, <1>5
  DEF Environment

(* So does every step of process_serial_data, whatever its subclass, which *)
(* changes nothing but the program counter and whether the frame is torn.  *)
LEMMA FrameTypes ==
  ASSUME BaseTypeOK, NEW l, NEW m \in FramePcs, Thread(l, m),
         torn' \in BOOLEAN, UNCHANGED <<running, handle, port, announced, device>>
  PROVE  BaseTypeOK'
BY DEF BaseTypeOK, FlagsOK, ControlOK, DeviceOK, HandleOK, FramePcs, handle, frame,
       flash, device, executor, Thread

LEMMA ReadTypes ==
  ASSUME BaseTypeOK, NEW l, NEW m \in FramePcs, ReadPart(l, m)
  PROVE  BaseTypeOK'
<1>1. torn' \in BOOLEAN BY Zenon DEF ReadPart, BaseTypeOK, FlagsOK
<1> QED BY <1>1, FrameTypes DEF ReadPart

LEMMA ImuTypes == BaseTypeOK /\ (ReadImuHeader \/ ReadImuLines) => BaseTypeOK'
<1> SUFFICES ASSUME BaseTypeOK, ReadImuHeader \/ ReadImuLines PROVE BaseTypeOK'
  OBVIOUS
<1>1. torn' \in BOOLEAN BY Zenon DEF ReadImuHeader, ReadImuLines, BaseTypeOK, FlagsOK
<1>2. CASE ReadImuHeader BY <1>1, <1>2, FrameTypes DEF ReadImuHeader, FramePcs
<1>3. CASE ReadImuLines BY <1>1, <1>3, FrameTypes DEF ReadImuLines, FramePcs
<1> QED BY <1>2, <1>3

LEMMA CallbackTypes ==
  ASSUME BaseTypeOK, NEW l, NEW m \in FramePcs, NEW n \in FramePcs,
         Callback(l, m, n) \/ Emit(l, m)
  PROVE  BaseTypeOK'
<1>1. torn' \in BOOLEAN BY Zenon DEF Callback, Emit, BaseTypeOK, FlagsOK, frame
<1>2. CASE Callback(l, m, n) BY <1>1, <1>2, FrameTypes DEF Callback, frame
<1>3. CASE Emit(l, m) BY <1>1, <1>3, FrameTypes DEF Emit, frame
<1> QED BY <1>2, <1>3

-----------------------------------------------------------------------------
(* run() leaves the executor alone, never sets _running, and never becomes *)
(* joined or spawned by itself.                                            *)
LEMMA RunControl ==
  RunStep => UNCHANGED <<mpc, op>> /\ (running' => running) /\ spc # "none" /\ spc' # "none"
BY DEF RunStep, FindPort, Connect, LoopExits, SerialThrows, StopIfStreaming,
   VerifyDeviceMode, FixStart, FixMode, WriteFlash, FixBoot, DeviceReboots, GetDeviceInfo, AnnounceConnected,
   SetFlashDefaults, Arm, SkipFrames, WrapupThrows, WrapupSkipped, StopFsync, StopTrigger,
   AnnounceDisconnected, CloseSerial, ClearRunning, Thread, executor, IoPcs

(* The device and its cable leave both threads where they are.             *)
LEMMA EnvironmentControl == Environment => UNCHANGED <<running, spc, mpc, crashed>>
BY DEF Environment, Unplug, Hang, Recover, Trigger, Replug, PlugIn, executor

(* A call begins only where the executor is idle, and changes nothing but  *)
(* what the executor is to do next.                                        *)
LEMMA CallControl ==
  CallStep => /\ mpc = "idle" /\ mpc' \in {"start", "stop", "reboot", "idle"}
              /\ UNCHANGED <<running, spc, crashed>>
BY DEF CallStep, CallStart, CallStop, CallReboot, CallParam, CallMode, CallRefused, Destroy,
   Call, Exec
=============================================================================
