------------------------ MODULE Dt1DeviceHistProofs -------------------------
(***************************************************************************)
(* Proofs of the safety properties of Dt1DeviceHist for every set of ports *)
(* and of sync modes.  The inductive invariant has six parts; that a step  *)
(* preserves a part is a lemma.  Where a part is about the control state   *)
(* only, the lemmas of Dt1DeviceProofs cover the steps of the base class.  *)
(***************************************************************************)
EXTENDS Dt1DeviceHist, Dt1DeviceProofs

(* Where start() has set _running and has not yet joined the v4l2 thread.  *)
Starting == {"startSpawn", "startImpl"}

(* Without a descriptor the v4l2 thread may pass the early return only     *)
(* when a start() set _running behind its back; that start() waits for the *)
(* thread to end, and nobody else sets _running, so that the failing       *)
(* VIDIOC_STREAMON keeps the thread out of its loop.                       *)
DescriptorInv ==
  /\ vpc = "none" => fd = "none"
  /\ fd = "none" =>
       /\ vpc \notin {"unpack", "emit"}
       /\ vpc = "opened" /\ running => mpc \in Starting
       /\ vpc = "streamOn" => mpc \in Starting
       /\ vpc = "loop" => mpc \in Starting /\ ~running

(* A serial thread that is not joinable was joined by a stop() that had    *)
(* joined the v4l2 thread before, except in the middle of start().         *)
JoinInv ==
  /\ mpc \in {"stopJoin", "dtorJoin"} => vpc = "none"
  /\ spc = "none" /\ mpc # "startSpawn" => vpc = "none"
  /\ mpc = "startImpl" => spc # "none"

(* start() alone sets _running, after a join of the serial thread; what    *)
(* follows a stop() finds it FALSE, whichever way stop() returned.         *)
FlagInv ==
  /\ mpc \in RebootPcs \cup {"setMode", "startJoin", "stopImpl", "stopJoin",
                             "dtorMembers", "dtorJoin", "gone"} => ~running
  /\ mpc = "startSpawn" => spc = "none"

(* A torn frame is only ever held by a thread that has seen _running FALSE.*)
TornInv ==
  /\ torn => ~running /\ spc \notin NoThread
  /\ spc = "emitImu" => ~torn

(* A device that streams because of this driver has a thread that has not  *)
(* yet sent both commands of the wrap-up.  Its port may have been closed   *)
(* by a reboot(), but only when _running is FALSE: the wrap-up then does   *)
(* not skip the commands but throws.                                       *)
StreamInv ==
  flstream = {} /\ stream # {} =>
    /\ serial = "open" \/ (serial # "null" /\ ~running)
    /\ spc \in {"arm", "skip", "wrapup", "wrapup2"} \cup FramePcs
    /\ spc = "wrapup" => ~running
    /\ spc = "wrapup2" => "fsync" \notin stream

-----------------------------------------------------------------------------
(* The steps that this driver has in common with the XYZ driver.           *)
BaseStep == Common(RunStep) \/ Common(ExecStep) \/ Common(CallStep) \/ Common(Environment)

(* What TypeOK says of the variables of the subclass.                      *)
HistTypes ==
  /\ vpc \in V4l2Pcs \cup NoThread
  /\ fd \in {"none", "open", "on", "lost"}
  /\ leaked \in BOOLEAN
  /\ clock \in {"unset", "fresh", "stale"}
  /\ fd \in {"open", "on"} => devPort # NoPort

(* The v4l2 thread changes nothing of the base class but _running, which   *)
(* it only clears.                                                         *)
LEMMA V4l2Base ==
  V4l2Thread => /\ UNCHANGED <<handle, port, spc, frame, executor, crashed, device>>
                /\ (running' = running \/ running' = FALSE)
BY DEF V4l2Thread, OpenVideo, OpenVideoFails, OpenVideoStops, V4l2Returns, V4l2Proceeds,
   StreamOn, StreamOnFails, DequeueFrame, SelectFails, V4l2LoopExits, UnpackHistFrame,
   EmitCloud, V4l2Finishes, V4l2

(* The hooks move the executor, and change nothing else of the base class. *)
LEMMA HookBase ==
  StartImpl \/ StopImpl \/ DtorMembers =>
    /\ UNCHANGED <<running, handle, port, spc, frame, sync, device>>
    /\ mpc' \in {mpc, "idle", "stopJoin", "dtorJoin"} /\ op' \in {op, "none"}
    /\ crashed' \in {crashed, "terminate"}
BY DEF StartImpl, StopImpl, DtorMembers, Exec, frame

(* process_serial_data moves the serial thread from one of its steps to    *)
(* the next.                                                               *)
LEMMA FrameControl ==
  ProcessSerialData => /\ UNCHANGED <<running, handle, port, announced, executor, crashed, device>>
                       /\ spc \in FramePcs /\ spc' \in FramePcs
BY DEF ProcessSerialData, BeginFrame, ReadEndStamp, ReadPart, ReadImuHeader, ReadImuLines,
   PublishImu, EmitImu, Callback, Emit, Thread, FramePcs, frame

-----------------------------------------------------------------------------
(* Every action preserves the types: what leaves the bus takes the         *)
(* descriptor with it, and only a device on the bus can be opened.         *)
LEMMA TypeStep == TypeOK /\ [Next]_vars => TypeOK'
<1> SUFFICES ASSUME TypeOK, [Next]_vars PROVE TypeOK'
  OBVIOUS
<1>1. BaseTypeOK BY DEF TypeOK
<1>2. BaseTypeOK'
  <2>1. CASE RunStep BY <1>1, <2>1, RunTypes
  <2>2. CASE ProcessSerialData
    <3> USE DEF FramePcs
    <3>1. CASE BeginFrame BY <1>1, <3>1, FrameTypes DEF BeginFrame
    <3>2. CASE ReadEndStamp BY <1>1, <3>2, ReadTypes DEF ReadEndStamp
    <3>3. CASE ReadImuHeader \/ ReadImuLines BY <1>1, <3>3, ImuTypes
    <3>4. CASE PublishImu BY <1>1, <3>4, CallbackTypes DEF PublishImu
    <3>5. CASE EmitImu BY <1>1, <3>5, CallbackTypes DEF EmitImu
    <3> QED BY <2>2, <3>1, <3>2, <3>3, <3>4, <3>5 DEF ProcessSerialData
  <2>3. CASE ExecStep BY <1>1, <2>3, ExecTypes
  <2>4. CASE CallStep BY <1>1, <2>4, CallTypes
  <2>5. CASE Environment BY <1>1, <2>5, EnvironmentTypes
  <2> USE DEF BaseTypeOK, FlagsOK, ControlOK, DeviceOK, HandleOK, RebootPcs, ExecPcs, Ops,
             handle, frame, flash, device, executor
  <2>6. CASE V4l2Thread
    <3>1. running' \in BOOLEAN BY <1>1, <2>6, V4l2Base, Zenon
    <3> QED BY <1>1, <2>6, <3>1, V4l2Base
  <2>7. CASE StartImpl \/ StopImpl \/ DtorMembers BY <1>1, <2>7, HookBase
  <2>8. CASE UNCHANGED vars BY <1>1, <2>8 DEF vars, baseVars
  <2> QED BY <2>1, <2>2, <2>3, <2>4, <2>5, <2>6, <2>7, <2>8
          DEF Next, SerialThread, Executor, Common
<1>3. HistTypes'
  <2> USE DEF TypeOK, HistTypes, V4l2Pcs, NoThread, handle, frame, flash, device, executor
  <2>1. CASE BaseStep
    <3>1. leaked' \in BOOLEAN BY <2>1, Zenon DEF BaseStep, Common
    <3>2. <<vpc, fd, clock>>' \in (V4l2Pcs \cup NoThread) \X {"none", "open", "on", "lost"}
                                   \X {"unset", "fresh", "stale"}
      BY <2>1 DEF BaseStep, Common
    <3>3. (fd \in {"open", "on"} => devPort # NoPort)'
      BY <2>1 DEF BaseStep, Common, LeavesBus
    <3> QED BY <3>1, <3>2, <3>3
  <2>2. CASE ProcessSerialData
    <3>1. UNCHANGED <<vpc, fd, leaked, devPort>> /\ clock' \in {clock, "stale", "fresh"}
      BY <2>2 DEF ProcessSerialData, BeginFrame, ReadEndStamp, ReadImuHeader, ReadImuLines,
         PublishImu, EmitImu, ReadPart, Callback, Emit, hist
    <3> QED BY <3>1
  <2>3. CASE V4l2Thread
    <3>1. leaked' \in BOOLEAN
      BY <2>3, Zenon DEF V4l2Thread, OpenVideo, OpenVideoFails, OpenVideoStops, V4l2Returns,
         V4l2Proceeds, StreamOn, StreamOnFails, DequeueFrame, SelectFails, V4l2LoopExits,
         UnpackHistFrame, EmitCloud, V4l2Finishes
    <3>2. /\ (vpc \in V4l2Pcs \cup NoThread)' /\ (fd \in {"none", "open", "on", "lost"})'
          /\ clock' = clock /\ (fd \in {"open", "on"} => devPort # NoPort)'
      BY <2>3 DEF V4l2Thread, V4l2, OpenVideo, OpenVideoFails, OpenVideoStops, V4l2Returns,
         V4l2Proceeds, StreamOn, StreamOnFails, DequeueFrame, SelectFails, V4l2LoopExits,
         UnpackHistFrame, EmitCloud, V4l2Finishes
    <3> QED BY <3>1, <3>2
  <2>4. CASE StartImpl \/ StopImpl \/ DtorMembers
    BY <2>4 DEF StartImpl, StopImpl, DtorMembers, hist
  <2>5. CASE UNCHANGED vars BY <2>5 DEF vars, baseVars, hist
  <2> QED BY <2>1, <2>2, <2>3, <2>4, <2>5 DEF Next, SerialThread, Executor, BaseStep
<1> QED BY <1>2, <1>3 DEF TypeOK, HistTypes
(* A step of the base class does to the descriptor only what the loss of   *)
(* the device does to it.                                                  *)
LEMMA CommonHist ==
  BaseStep => vpc' = vpc /\ (fd' = "none" <=> fd = "none")
BY DEF BaseStep, Common, LeavesBus

(* Every action preserves DescriptorInv.                                   *)
LEMMA DescriptorStep == TypeOK /\ DescriptorInv /\ [Next]_vars => DescriptorInv'
<1> USE DEF DescriptorInv, Starting, Alive
<1> SUFFICES ASSUME TypeOK, DescriptorInv, [Next]_vars PROVE DescriptorInv'
  OBVIOUS
<1>1. CASE Common(RunStep) BY <1>1, RunControl, CommonHist DEF BaseStep, Common
<1>2. CASE Common(Environment) BY <1>2, EnvironmentControl, CommonHist DEF BaseStep, Common
<1>3. CASE Common(CallStep) BY <1>3, CallControl, CommonHist DEF BaseStep, Common
<1>4. CASE Common(ExecStep)
  <2> USE CommonHist DEF BaseStep, Exec
  <2>0. ExecStep BY <1>4 DEF Common
  <2>1. CASE StartReturns BY <1>4, <2>1 DEF StartReturns, Return
  <2>2. CASE StartChecks BY <1>4, <2>2 DEF StartChecks
  <2>3. CASE StartJoins BY <1>4, <2>3 DEF StartJoins
  <2>4. CASE StartSpawns BY <1>4, <2>4 DEF StartSpawns
  <2>5. CASE StopReturnsEarly BY <1>4, <2>5 DEF StopReturnsEarly, StopReturns, AfterStop
  <2>6. CASE StopClears BY <1>4, <2>6 DEF StopClears
  <2>7. CASE StopJoins BY <1>4, <2>7 DEF StopJoins, StopReturns, AfterStop
  <2>8. CASE SetMode BY <1>4, <2>8 DEF SetMode
  <2>9. CASE RebootNotConnected BY <1>4, <2>9 DEF RebootNotConnected, Return
  <2>10. CASE RebootStops BY <1>4, <2>10 DEF RebootStops
  <2>11. CASE RebootOpens BY <1>4, <2>11 DEF RebootOpens
  <2>12. CASE RebootSends BY <1>4, <2>12 DEF RebootSends, DeviceReboots
  <2>13. CASE RebootCloses BY <1>4, <2>13 DEF RebootCloses
  <2>14. CASE RebootThrows BY <1>4, <2>14 DEF RebootThrows
  <2>15. CASE DtorJoins BY <1>4, <2>15 DEF DtorJoins
  <2> QED
    BY <2>0, <2>1, <2>2, <2>3, <2>4, <2>5, <2>6, <2>7, <2>8, <2>9, <2>10,
       <2>11, <2>12, <2>13, <2>14, <2>15 DEF ExecStep
<1>5. CASE ProcessSerialData
  <2>1. UNCHANGED <<running, mpc, vpc, fd>>
    BY <1>5, FrameControl DEF ProcessSerialData, BeginFrame, ReadEndStamp, executor, hist
  <2> QED BY <2>1
<1>6. CASE V4l2Thread
  <2> USE DEF V4l2, executor
  <2>1. CASE OpenVideo BY <1>6, <2>1 DEF OpenVideo
  <2>2. CASE OpenVideoFails BY <1>6, <2>2 DEF OpenVideoFails
  <2>3. CASE OpenVideoStops BY <1>6, <2>3 DEF OpenVideoStops
  <2>4. CASE V4l2Returns BY <1>6, <2>4 DEF V4l2Returns
  <2>5. CASE V4l2Proceeds BY <1>6, <2>5 DEF V4l2Proceeds
  <2>6. CASE StreamOn BY <1>6, <2>6 DEF StreamOn
  <2>7. CASE StreamOnFails BY <1>6, <2>7 DEF StreamOnFails
  <2>8. CASE DequeueFrame BY <1>6, <2>8 DEF DequeueFrame
  <2>9. CASE SelectFails BY <1>6, <2>9 DEF SelectFails
  <2>10. CASE V4l2LoopExits BY <1>6, <2>10 DEF V4l2LoopExits
  <2>11. CASE UnpackHistFrame BY <1>6, <2>11 DEF UnpackHistFrame
  <2>12. CASE EmitCloud BY <1>6, <2>12 DEF EmitCloud
  <2>13. CASE V4l2Finishes BY <1>6, <2>13 DEF V4l2Finishes
  <2> QED
    BY <1>6, <2>1, <2>2, <2>3, <2>4, <2>5, <2>6, <2>7, <2>8, <2>9, <2>10,
       <2>11, <2>12, <2>13 DEF V4l2Thread
<1>7. CASE StartImpl BY <1>7 DEF StartImpl, Exec, NoThread
<1>8. CASE StopImpl BY <1>8 DEF StopImpl, Exec
<1>9. CASE DtorMembers BY <1>9 DEF DtorMembers, hist
<1>10. CASE UNCHANGED vars BY <1>10 DEF vars, baseVars, hist, executor
<1> QED
  BY <1>1, <1>2, <1>3, <1>4, <1>5, <1>6, <1>7, <1>8, <1>9, <1>10
  DEF Next, SerialThread, Executor

(* Every action preserves JoinInv: stop_impl joins before stop() does, and *)
(* the destructor goes on only when it finds the thread joined.            *)
LEMMA JoinStep == TypeOK /\ JoinInv /\ [Next]_vars => JoinInv'
<1> USE DEF JoinInv, Alive
<1> SUFFICES ASSUME TypeOK, JoinInv, [Next]_vars PROVE JoinInv'
  OBVIOUS
<1>1. CASE Common(RunStep) BY <1>1, RunControl, CommonHist DEF BaseStep, Common
<1>2. CASE Common(Environment) BY <1>2, EnvironmentControl, CommonHist DEF BaseStep, Common
<1>3. CASE Common(CallStep) BY <1>3, CallControl, CommonHist DEF BaseStep, Common
<1>4. CASE Common(ExecStep)
  <2> USE CommonHist DEF BaseStep, Exec
  <2>0. ExecStep BY <1>4 DEF Common
  <2>1. CASE StartReturns BY <1>4, <2>1 DEF StartReturns, Return
  <2>2. CASE StartChecks BY <1>4, <2>2 DEF StartChecks
  <2>3. CASE StartJoins BY <1>4, <2>3 DEF StartJoins
  <2>4. CASE StartSpawns BY <1>4, <2>4 DEF StartSpawns
  <2>5. CASE StopReturnsEarly BY <1>4, <2>5 DEF StopReturnsEarly, StopReturns, AfterStop
  <2>6. CASE StopClears BY <1>4, <2>6 DEF StopClears
  <2>7. CASE StopJoins BY <1>4, <2>7 DEF StopJoins, StopReturns, AfterStop
  <2>8. CASE SetMode BY <1>4, <2>8 DEF SetMode
  <2>9. CASE RebootNotConnected BY <1>4, <2>9 DEF RebootNotConnected, Return
  <2>10. CASE RebootStops BY <1>4, <2>10 DEF RebootStops
  <2>11. CASE RebootOpens BY <1>4, <2>11 DEF RebootOpens
  <2>12. CASE RebootSends BY <1>4, <2>12 DEF RebootSends, DeviceReboots
  <2>13. CASE RebootCloses BY <1>4, <2>13 DEF RebootCloses
  <2>14. CASE RebootThrows BY <1>4, <2>14 DEF RebootThrows
  <2>15. CASE DtorJoins BY <1>4, <2>15 DEF DtorJoins
  <2> QED
    BY <2>0, <2>1, <2>2, <2>3, <2>4, <2>5, <2>6, <2>7, <2>8, <2>9, <2>10,
       <2>11, <2>12, <2>13, <2>14, <2>15 DEF ExecStep
<1>5. CASE ProcessSerialData
  <2>1. UNCHANGED <<mpc, vpc>>
    BY <1>5, FrameControl DEF ProcessSerialData, BeginFrame, ReadEndStamp, executor, hist
  <2> QED BY <1>5, <2>1, FrameControl DEF FramePcs
<1>6. CASE V4l2Thread
  <2>1. vpc # "none" /\ UNCHANGED <<spc, mpc>>
    BY <1>6 DEF V4l2Thread, OpenVideo, OpenVideoFails, OpenVideoStops, V4l2Returns, V4l2Proceeds,
     StreamOn, StreamOnFails, DequeueFrame, SelectFails,
     V4l2LoopExits, UnpackHistFrame, EmitCloud, V4l2Finishes, V4l2, executor
  <2> QED BY <2>1
<1>7. CASE StartImpl BY <1>7 DEF StartImpl, Exec
<1>8. CASE StopImpl BY <1>8 DEF StopImpl, Exec
<1>9. CASE DtorMembers BY <1>9 DEF DtorMembers, hist
<1>10. CASE UNCHANGED vars BY <1>10 DEF vars, baseVars, hist, executor
<1> QED
  BY <1>1, <1>2, <1>3, <1>4, <1>5, <1>6, <1>7, <1>8, <1>9, <1>10
  DEF Next, SerialThread, Executor

(* Every action preserves FlagInv.                                         *)
LEMMA FlagStep == TypeOK /\ FlagInv /\ [Next]_vars => FlagInv'
<1> USE DEF FlagInv, RebootPcs
<1> SUFFICES ASSUME TypeOK, FlagInv, [Next]_vars PROVE FlagInv'
  OBVIOUS
<1>1. CASE RunStep BY <1>1, RunControl
<1>2. CASE ProcessSerialData BY <1>2, FrameControl DEF executor, FramePcs
<1>3. CASE ExecStep
  <2> USE DEF Exec, Alive
  <2>1. CASE StartReturns BY <1>3, <2>1 DEF StartReturns, Return
  <2>2. CASE StartChecks BY <1>3, <2>2 DEF StartChecks
  <2>3. CASE StartJoins BY <1>3, <2>3 DEF StartJoins
  <2>4. CASE StartSpawns BY <1>3, <2>4 DEF StartSpawns
  <2>5. CASE StopReturnsEarly BY <1>3, <2>5 DEF StopReturnsEarly, StopReturns, AfterStop
  <2>6. CASE StopClears BY <1>3, <2>6 DEF StopClears
  <2>7. CASE StopJoins BY <1>3, <2>7 DEF StopJoins, StopReturns, AfterStop
  <2>8. CASE SetMode BY <1>3, <2>8 DEF SetMode
  <2>9. CASE RebootNotConnected BY <1>3, <2>9 DEF RebootNotConnected, Return
  <2>10. CASE RebootStops BY <1>3, <2>10 DEF RebootStops
  <2>11. CASE RebootOpens BY <1>3, <2>11 DEF RebootOpens
  <2>12. CASE RebootSends BY <1>3, <2>12 DEF RebootSends, DeviceReboots
  <2>13. CASE RebootCloses BY <1>3, <2>13 DEF RebootCloses
  <2>14. CASE RebootThrows BY <1>3, <2>14 DEF RebootThrows
  <2>15. CASE DtorJoins BY <1>3, <2>15 DEF DtorJoins
  <2> QED
    BY <1>3, <2>1, <2>2, <2>3, <2>4, <2>5, <2>6, <2>7, <2>8, <2>9, <2>10,
       <2>11, <2>12, <2>13, <2>14, <2>15 DEF ExecStep
<1>4. CASE CallStep BY <1>4, CallControl
<1>5. CASE Environment BY <1>5, EnvironmentControl
<1>6. CASE V4l2Thread BY <1>6, V4l2Base DEF executor
<1>7. CASE StartImpl \/ StopImpl \/ DtorMembers
  BY <1>7 DEF StartImpl, StopImpl, DtorMembers, Exec
<1>8. CASE UNCHANGED vars BY <1>8 DEF vars, baseVars, executor
<1> QED
  BY <1>1, <1>2, <1>3, <1>4, <1>5, <1>6, <1>7, <1>8
  DEF Next, SerialThread, Executor, Common

(* Every action preserves TornInv: _running turns TRUE again only after    *)
(* the join of the thread that held the torn frame.                        *)
LEMMA TornStep == TypeOK /\ TornInv /\ [Next]_vars => TornInv'
<1> USE DEF TornInv, TypeOK, BaseTypeOK, ControlOK, NoThread, IoPcs, RebootPcs, FramePcs,
           handle, frame, flash, device, executor, Thread, Exec, Alive, Answers, Frames
<1> SUFFICES ASSUME TypeOK, TornInv, [Next]_vars PROVE TornInv'
  OBVIOUS
<1>1. CASE RunStep
  <2>1. CASE FindPort BY <1>1, <2>1 DEF FindPort, FoundPort
  <2>2. CASE Connect BY <1>1, <2>2 DEF Connect
  <2>3. CASE LoopExits BY <1>1, <2>3 DEF LoopExits
  <2>4. CASE SerialThrows BY <1>1, <2>4 DEF SerialThrows
  <2>5. CASE StopIfStreaming BY <1>1, <2>5 DEF StopIfStreaming
  <2>6. CASE VerifyDeviceMode BY <1>1, <2>6 DEF VerifyDeviceMode
  <2>7. CASE FixStart BY <1>1, <2>7 DEF FixStart, WriteFlash
  <2>8. CASE FixMode BY <1>1, <2>8 DEF FixMode, WriteFlash
  <2>9. CASE GetDeviceInfo BY <1>1, <2>9 DEF GetDeviceInfo
  <2>10. CASE AnnounceConnected BY <1>1, <2>10 DEF AnnounceConnected
  <2>11. CASE SetFlashDefaults BY <1>1, <2>11 DEF SetFlashDefaults
  <2>12. CASE Arm BY <1>1, <2>12 DEF Arm
  <2>13. CASE SkipFrames BY <1>1, <2>13 DEF SkipFrames
  <2>14. CASE WrapupThrows BY <1>1, <2>14 DEF WrapupThrows
  <2>15. CASE WrapupSkipped BY <1>1, <2>15 DEF WrapupSkipped
  <2>16. CASE StopFsync BY <1>1, <2>16 DEF StopFsync
  <2>17. CASE StopTrigger BY <1>1, <2>17 DEF StopTrigger
  <2>18. CASE AnnounceDisconnected BY <1>1, <2>18 DEF AnnounceDisconnected
  <2>19. CASE CloseSerial BY <1>1, <2>19 DEF CloseSerial
  <2>20. CASE ClearRunning BY <1>1, <2>20 DEF ClearRunning
  <2>21. CASE FixBoot BY <1>1, <2>21 DEF FixBoot, DeviceReboots
  <2> QED
    BY <1>1, <2>1, <2>2, <2>3, <2>4, <2>5, <2>6, <2>7, <2>8, <2>9, <2>10,
       <2>11, <2>12, <2>13, <2>14, <2>15, <2>16, <2>17, <2>18, <2>19, <2>20, <2>21
    DEF RunStep
<1>2. CASE ProcessSerialData
  <2>1. CASE BeginFrame BY <1>2, <2>1 DEF BeginFrame
  <2>2. CASE ReadEndStamp BY <1>2, <2>2 DEF ReadEndStamp, ReadPart
  <2>3. CASE ReadImuHeader BY <1>2, <2>3 DEF ReadImuHeader
  <2>4. CASE ReadImuLines BY <1>2, <2>4 DEF ReadImuLines
  <2>5. CASE PublishImu BY <1>2, <2>5 DEF PublishImu, Callback, Emit
  <2>6. CASE EmitImu BY <1>2, <2>6 DEF EmitImu, Emit
  <2> QED
    BY <1>2, <2>1, <2>2, <2>3, <2>4, <2>5, <2>6 DEF ProcessSerialData
<1>3. CASE ExecStep
  <2>1. CASE StartReturns BY <1>3, <2>1 DEF StartReturns, Return
  <2>2. CASE StartChecks BY <1>3, <2>2 DEF StartChecks
  <2>3. CASE StartJoins BY <1>3, <2>3 DEF StartJoins
  <2>4. CASE StartSpawns BY <1>3, <2>4 DEF StartSpawns
  <2>5. CASE StopReturnsEarly BY <1>3, <2>5 DEF StopReturnsEarly, StopReturns, AfterStop
  <2>6. CASE StopClears BY <1>3, <2>6 DEF StopClears
  <2>7. CASE StopJoins BY <1>3, <2>7 DEF StopJoins, StopReturns, AfterStop
  <2>8. CASE SetMode BY <1>3, <2>8 DEF SetMode
  <2>9. CASE RebootNotConnected BY <1>3, <2>9 DEF RebootNotConnected, Return
  <2>10. CASE RebootStops BY <1>3, <2>10 DEF RebootStops
  <2>11. CASE RebootOpens BY <1>3, <2>11 DEF RebootOpens
  <2>12. CASE RebootSends BY <1>3, <2>12 DEF RebootSends, DeviceReboots
  <2>13. CASE RebootCloses BY <1>3, <2>13 DEF RebootCloses
  <2>14. CASE RebootThrows BY <1>3, <2>14 DEF RebootThrows
  <2>15. CASE DtorJoins BY <1>3, <2>15 DEF DtorJoins
  <2> QED
    BY <1>3, <2>1, <2>2, <2>3, <2>4, <2>5, <2>6, <2>7, <2>8, <2>9, <2>10,
       <2>11, <2>12, <2>13, <2>14, <2>15 DEF ExecStep
<1>4. CASE CallStep
  <2>1. CASE CallStart BY <1>4, <2>1 DEF CallStart, Call
  <2>2. CASE CallStop BY <1>4, <2>2 DEF CallStop, Call
  <2>3. CASE CallReboot BY <1>4, <2>3 DEF CallReboot, Call
  <2>4. CASE CallParam BY <1>4, <2>4 DEF CallParam, Call
  <2>5. CASE CallMode BY <1>4, <2>5 DEF CallMode, Call
  <2>6. CASE CallRefused BY <1>4, <2>6 DEF CallRefused, Call
  <2>7. CASE Destroy BY <1>4, <2>7 DEF Destroy, Call
  <2> QED
    BY <1>4, <2>1, <2>2, <2>3, <2>4, <2>5, <2>6, <2>7 DEF CallStep
<1>5. CASE Environment
  <2>1. CASE Unplug BY <1>5, <2>1 DEF Unplug
  <2>2. CASE Hang BY <1>5, <2>2 DEF Hang
  <2>3. CASE Recover BY <1>5, <2>3 DEF Recover
  <2>4. CASE Trigger BY <1>5, <2>4 DEF Trigger
  <2>5. CASE Replug BY <1>5, <2>5 DEF Replug, PlugIn
  <2> QED
    BY <1>5, <2>1, <2>2, <2>3, <2>4, <2>5 DEF Environment
<1>6. CASE V4l2Thread BY <1>6, V4l2Base
<1>7. CASE StartImpl \/ StopImpl \/ DtorMembers
  BY <1>7 DEF StartImpl, StopImpl, DtorMembers
<1>8. CASE UNCHANGED vars BY <1>8 DEF vars, baseVars
<1> QED
  BY <1>1, <1>2, <1>3, <1>4, <1>5, <1>6, <1>7, <1>8
  DEF Next, SerialThread, Executor, Common

(* Every action preserves StreamInv: however a session ends, the device    *)
(* was told to stop, or lost its power, or was rebooted.                   *)
LEMMA StreamStep == TypeOK /\ FlagInv /\ StreamInv /\ [Next]_vars => StreamInv'
<1> USE DEF StreamInv, FlagInv, DeviceOK, Sources, TypeOK, BaseTypeOK, ControlOK, NoThread, IoPcs, RebootPcs, FramePcs,
           handle, frame, flash, device, executor, Thread, Exec, Alive, Answers, Frames
<1> SUFFICES ASSUME TypeOK, FlagInv, StreamInv, [Next]_vars PROVE StreamInv'
  OBVIOUS
<1>1. CASE RunStep
  <2>1. CASE FindPort BY <1>1, <2>1 DEF FindPort, FoundPort
  <2>2. CASE Connect BY <1>1, <2>2 DEF Connect
  <2>3. CASE LoopExits BY <1>1, <2>3 DEF LoopExits
  <2>4. CASE SerialThrows BY <1>1, <2>4 DEF SerialThrows
  <2>5. CASE StopIfStreaming BY <1>1, <2>5 DEF StopIfStreaming
  <2>6. CASE VerifyDeviceMode BY <1>1, <2>6 DEF VerifyDeviceMode
  <2>7. CASE FixStart BY <1>1, <2>7 DEF FixStart, WriteFlash
  <2>8. CASE FixMode BY <1>1, <2>8 DEF FixMode, WriteFlash
  <2>9. CASE GetDeviceInfo BY <1>1, <2>9 DEF GetDeviceInfo
  <2>10. CASE AnnounceConnected BY <1>1, <2>10 DEF AnnounceConnected
  <2>11. CASE SetFlashDefaults BY <1>1, <2>11 DEF SetFlashDefaults
  <2>12. CASE Arm BY <1>1, <2>12 DEF Arm
  <2>13. CASE SkipFrames BY <1>1, <2>13 DEF SkipFrames
  <2>14. CASE WrapupThrows BY <1>1, <2>14 DEF WrapupThrows
  <2>15. CASE WrapupSkipped BY <1>1, <2>15 DEF WrapupSkipped
  <2>16. CASE StopFsync BY <1>1, <2>16 DEF StopFsync
  <2>17. CASE StopTrigger BY <1>1, <2>17 DEF StopTrigger
  <2>18. CASE AnnounceDisconnected BY <1>1, <2>18 DEF AnnounceDisconnected
  <2>19. CASE CloseSerial BY <1>1, <2>19 DEF CloseSerial
  <2>20. CASE ClearRunning BY <1>1, <2>20 DEF ClearRunning
  <2>21. CASE FixBoot BY <1>1, <2>21 DEF FixBoot, DeviceReboots
  <2> QED
    BY <1>1, <2>1, <2>2, <2>3, <2>4, <2>5, <2>6, <2>7, <2>8, <2>9, <2>10,
       <2>11, <2>12, <2>13, <2>14, <2>15, <2>16, <2>17, <2>18, <2>19, <2>20, <2>21
    DEF RunStep
<1>2. CASE ProcessSerialData
  <2>1. CASE BeginFrame BY <1>2, <2>1 DEF BeginFrame
  <2>2. CASE ReadEndStamp BY <1>2, <2>2 DEF ReadEndStamp, ReadPart
  <2>3. CASE ReadImuHeader BY <1>2, <2>3 DEF ReadImuHeader
  <2>4. CASE ReadImuLines BY <1>2, <2>4 DEF ReadImuLines
  <2>5. CASE PublishImu BY <1>2, <2>5 DEF PublishImu, Callback, Emit
  <2>6. CASE EmitImu BY <1>2, <2>6 DEF EmitImu, Emit
  <2> QED
    BY <1>2, <2>1, <2>2, <2>3, <2>4, <2>5, <2>6 DEF ProcessSerialData
<1>3. CASE ExecStep
  <2>1. CASE StartReturns BY <1>3, <2>1 DEF StartReturns, Return
  <2>2. CASE StartChecks BY <1>3, <2>2 DEF StartChecks
  <2>3. CASE StartJoins BY <1>3, <2>3 DEF StartJoins
  <2>4. CASE StartSpawns BY <1>3, <2>4 DEF StartSpawns
  <2>5. CASE StopReturnsEarly BY <1>3, <2>5 DEF StopReturnsEarly, StopReturns, AfterStop
  <2>6. CASE StopClears BY <1>3, <2>6 DEF StopClears
  <2>7. CASE StopJoins BY <1>3, <2>7 DEF StopJoins, StopReturns, AfterStop
  <2>8. CASE SetMode BY <1>3, <2>8 DEF SetMode
  <2>9. CASE RebootNotConnected BY <1>3, <2>9 DEF RebootNotConnected, Return
  <2>10. CASE RebootStops BY <1>3, <2>10 DEF RebootStops
  <2>11. CASE RebootOpens BY <1>3, <2>11 DEF RebootOpens
  <2>12. CASE RebootSends BY <1>3, <2>12 DEF RebootSends, DeviceReboots
  <2>13. CASE RebootCloses BY <1>3, <2>13 DEF RebootCloses
  <2>14. CASE RebootThrows BY <1>3, <2>14 DEF RebootThrows
  <2>15. CASE DtorJoins BY <1>3, <2>15 DEF DtorJoins
  <2> QED
    BY <1>3, <2>1, <2>2, <2>3, <2>4, <2>5, <2>6, <2>7, <2>8, <2>9, <2>10,
       <2>11, <2>12, <2>13, <2>14, <2>15 DEF ExecStep
<1>4. CASE CallStep
  <2>1. CASE CallStart BY <1>4, <2>1 DEF CallStart, Call
  <2>2. CASE CallStop BY <1>4, <2>2 DEF CallStop, Call
  <2>3. CASE CallReboot BY <1>4, <2>3 DEF CallReboot, Call
  <2>4. CASE CallParam BY <1>4, <2>4 DEF CallParam, Call
  <2>5. CASE CallMode BY <1>4, <2>5 DEF CallMode, Call
  <2>6. CASE CallRefused BY <1>4, <2>6 DEF CallRefused, Call
  <2>7. CASE Destroy BY <1>4, <2>7 DEF Destroy, Call
  <2> QED
    BY <1>4, <2>1, <2>2, <2>3, <2>4, <2>5, <2>6, <2>7 DEF CallStep
<1>5. CASE Environment
  <2>1. CASE Unplug BY <1>5, <2>1 DEF Unplug
  <2>2. CASE Hang BY <1>5, <2>2 DEF Hang
  <2>3. CASE Recover BY <1>5, <2>3 DEF Recover
  <2>4. CASE Trigger BY <1>5, <2>4 DEF Trigger
  <2>5. CASE Replug BY <1>5, <2>5 DEF Replug, PlugIn
  <2> QED
    BY <1>5, <2>1, <2>2, <2>3, <2>4, <2>5 DEF Environment
<1>6. CASE V4l2Thread BY <1>6, V4l2Base
<1>7. CASE StartImpl \/ StopImpl \/ DtorMembers
  BY <1>7 DEF StartImpl, StopImpl, DtorMembers
<1>8. CASE UNCHANGED vars BY <1>8 DEF vars, baseVars
<1> QED
  BY <1>1, <1>2, <1>3, <1>4, <1>5, <1>6, <1>7, <1>8
  DEF Next, SerialThread, Executor, Common

-----------------------------------------------------------------------------
IInv == TypeOK /\ DescriptorInv /\ JoinInv /\ FlagInv /\ TornInv /\ StreamInv

(* The conjunction of the six parts is an invariant of the specification.  *)
THEOREM Invariance == Spec => []IInv
<1>1. Init => IInv
  <2> SUFFICES ASSUME Init PROVE IInv
    OBVIOUS
  <2> USE PortAssumption, SyncAssumption
  <2> USE DEF Init, BaseInit, NoThread, FramePcs, RebootPcs
  <2>1. TypeOK
    BY DEF TypeOK, BaseTypeOK, FlagsOK, ControlOK, DeviceOK, HandleOK, ExecPcs, Ops, Sources,
           Boots
  <2>2. DescriptorInv BY DEF DescriptorInv
  <2>3. JoinInv BY DEF JoinInv
  <2>4. FlagInv BY DEF FlagInv
  <2>5. TornInv BY DEF TornInv
  <2>6. StreamInv BY DEF StreamInv
  <2> QED BY <2>1, <2>2, <2>3, <2>4, <2>5, <2>6 DEF IInv
<1>2. IInv /\ [Next]_vars => IInv'
  BY TypeStep, DescriptorStep, JoinStep, FlagStep, TornStep, StreamStep DEF IInv
<1> QED BY <1>1, <1>2, PTL DEF Spec

(* Every variable has its type in every reachable state, and a descriptor  *)
(* that is not lost belongs to a device on the bus.                        *)
THEOREM TypeCorrect == Spec => []TypeOK
<1>1. IInv => TypeOK BY DEF IInv
<1> QED BY <1>1, Invariance, PTL

(* The v4l2 thread never uses a closed descriptor, however start(), stop() *)
(* and both threads' writes of _running interleave.                        *)
THEOREM DescriptorsInUse == Spec => []DescriptorInUse
<1>1. IInv => DescriptorInUse BY DEF IInv, DescriptorInv, DescriptorInUse
<1> QED BY <1>1, Invariance, PTL

(* A stop() that joined has joined both threads and closed the descriptor. *)
THEOREM JoinedStopsAreQuiet == Spec => []JoinedStopIsQuiet
<1>1. IInv => JoinedStopIsQuiet
  BY DEF IInv, JoinInv, DescriptorInv, JoinedStopIsQuiet, RebootPcs
<1> QED BY <1>1, Invariance, PTL

(* IMU samples of which a read was given up are never published.           *)
THEOREM TornFramesDropped == Spec => []NoTornFrame
<1>1. IInv => NoTornFrame BY DEF IInv, TornInv, NoTornFrame
<1> QED BY <1>1, Invariance, PTL

(* The driver never leaves behind a device that it made stream.            *)
THEOREM SessionsEndSilent == Spec => []NoOrphanStream
<1>1. IInv => NoOrphanStream BY DEF IInv, StreamInv, NoOrphanStream
<1> QED BY <1>1, Invariance, PTL
=============================================================================
