------------------------- MODULE Dt1DeviceCdcProofs -------------------------
(***************************************************************************)
(* Proofs of the safety properties of Dt1DeviceCdc, and of its refinement  *)
(* of StreamSession, for every set of ports and of sync modes.  The        *)
(* inductive invariant has six parts; each has a lemma saying that a step  *)
(* preserves it, with one case per action.                                 *)
(***************************************************************************)
EXTENDS Dt1DeviceCdc, Dt1DeviceProofs

(* _running is what the executor goes by: FALSE outside of a stop() means  *)
(* that the serial thread has ended, and it is FALSE in every part of the  *)
(* executor that relies on that.                                           *)
QuietInv ==
  /\ ~running /\ mpc \notin {"stopImpl", "stopJoin"} => spc \in NoThread
  /\ mpc \in RebootPcs \cup {"setMode", "startJoin", "stopImpl", "stopJoin",
                             "dtorMembers", "dtorJoin", "gone"} => ~running
  /\ mpc = "startSpawn" => running /\ spc = "none"

(* A torn frame is only ever held by a thread that has been told to stop.  *)
TornInv ==
  /\ torn => ~running /\ spc \notin NoThread
  /\ spc \in {"emit", "emitImu"} => ~torn

(* What the negotiation established stays true for the session: start mode *)
(* and sensor mode are written by this thread, or after its join; a reply  *)
(* misread during a stop() is never acted on by announcing the device.     *)
NegotiatedInv ==
  /\ spc \in {"info", "fixMode"} => startOk
  /\ spc = "ready" => startOk /\ modeOk /\ (fwOk \/ ~running)
  /\ spc \in {"setup", "arm", "skip"} \cup FramePcs => announced /\ fwOk /\ startOk /\ modeOk

(* A device whose flash this driver has changed is about to be rebooted,   *)
(* off the bus, or held by a thread that is to stop and has closed the     *)
(* port, so that its wrap-up ends the process.                             *)
BootInv ==
  boot = "written" =>
    /\ spc \in {"fixBoot", "find", "wrapup", "notify", "close", "clear"} \cup NoThread
    /\ devPort # NoPort =>
         \/ spc = "fixBoot" /\ serial = "open"
         \/ spc \in {"find", "wrapup"} /\ serial = "closed" /\ ~running

(* A device that streams because of this driver has its port open and a    *)
(* thread that has not yet sent both commands of the wrap-up; a wrap-up    *)
(* that skips them (_running still TRUE) has no such device.               *)
StreamInv ==
  flstream = {} /\ stream # {} =>
    /\ serial = "open"
    /\ spc \in {"arm", "skip", "wrapup", "wrapup2"} \cup FramePcs
    /\ spc = "wrapup" => ~running
    /\ spc = "wrapup2" => "fsync" \notin stream

-----------------------------------------------------------------------------
(* Every action preserves the types: most of them by the lemmas about the  *)
(* steps of Dt1Device.                                                     *)
LEMMA TypeStep == TypeOK /\ [Next]_vars => TypeOK'
<1> USE DEF TypeOK
<1> SUFFICES ASSUME TypeOK, [Next]_vars PROVE TypeOK'
  OBVIOUS
<1>1. CASE RunStep BY <1>1, RunTypes
<1>2. CASE ProcessSerialData
  <2> USE DEF FramePcs
  <2>1. CASE BeginFrame BY <2>1, FrameTypes DEF BeginFrame
  <2>2. CASE ReadStamp BY <2>2, ReadTypes DEF ReadStamp
  <2>3. CASE ReadSerialPointCloud BY <2>3, ReadTypes DEF ReadSerialPointCloud
  <2>4. CASE ReadImuHeader \/ ReadImuLines BY <2>4, ImuTypes
  <2>5. CASE ReadEndStamp BY <2>5, ReadTypes DEF ReadEndStamp
  <2>6. CASE PublishCloud BY <2>6, CallbackTypes DEF PublishCloud
  <2>7. CASE EmitCloud BY <2>7, CallbackTypes DEF EmitCloud
  <2>8. CASE PublishImu BY <2>8, CallbackTypes DEF PublishImu
  <2>9. CASE EmitImu BY <2>9, CallbackTypes DEF EmitImu
  <2> QED
    BY <1>2, <2>1, <2>2, <2>3, <2>4, <2>5, <2>6, <2>7, <2>8, <2>9 DEF ProcessSerialData
<1>3. CASE Executor
  <2>1. CASE ExecStep BY <2>1, ExecTypes
  <2> USE DEF BaseTypeOK, FlagsOK, ControlOK, DeviceOK, HandleOK, RebootPcs, ExecPcs, Ops,
             handle, frame, flash, device, Exec
  <2>2. CASE StartImpl BY <2>2 DEF StartImpl
  <2>3. CASE StopImpl BY <2>3 DEF StopImpl, Hook
  <2>4. CASE DtorMembers BY <2>4 DEF DtorMembers, Hook
  <2> QED BY <1>3, <2>1, <2>2, <2>3, <2>4 DEF Executor
<1>4. CASE CallStep BY <1>4, CallTypes
<1>5. CASE Environment BY <1>5, EnvironmentTypes
<1>6. CASE UNCHANGED vars
  BY <1>6 DEF vars, baseVars, BaseTypeOK, FlagsOK, ControlOK, DeviceOK, HandleOK, RebootPcs,
     handle, frame, flash, device, executor
<1> QED BY <1>1, <1>2, <1>3, <1>4, <1>5, <1>6 DEF Next, SerialThread

(* Every action preserves QuietInv: only StopClears and ClearRunning clear *)
(* _running, and what relies on it being FALSE comes after a join.         *)
LEMMA QuietStep == TypeOK /\ QuietInv /\ [Next]_vars => QuietInv'
<1> USE DEF TypeOK, BaseTypeOK, ControlOK, ConnectPcs, SetupPcs, FramePcs, WrapupPcs,
           NoThread, IoPcs, RebootPcs, ExecPcs, vars, baseVars, handle, frame,
           flash, device, executor, Thread, Exec, Alive, Answers, Frames
<1> USE DEF QuietInv
<1> SUFFICES ASSUME TypeOK, QuietInv, [Next]_vars PROVE QuietInv'
  OBVIOUS
<1>1. CASE FindPort BY <1>1 DEF FindPort, FoundPort
<1>2. CASE Connect BY <1>2 DEF Connect
<1>3. CASE LoopExits BY <1>3 DEF LoopExits
<1>4. CASE SerialThrows BY <1>4 DEF SerialThrows
<1>5. CASE StopIfStreaming BY <1>5 DEF StopIfStreaming
<1>6. CASE VerifyDeviceMode BY <1>6 DEF VerifyDeviceMode
<1>7. CASE FixStart BY <1>7 DEF FixStart, WriteFlash
<1>8. CASE FixMode BY <1>8 DEF FixMode, WriteFlash
<1>9. CASE GetDeviceInfo BY <1>9 DEF GetDeviceInfo
<1>10. CASE AnnounceConnected BY <1>10 DEF AnnounceConnected
<1>11. CASE SetFlashDefaults BY <1>11 DEF SetFlashDefaults
<1>12. CASE Arm BY <1>12 DEF Arm
<1>13. CASE SkipFrames BY <1>13 DEF SkipFrames
<1>14. CASE WrapupThrows BY <1>14 DEF WrapupThrows
<1>15. CASE WrapupSkipped BY <1>15 DEF WrapupSkipped
<1>16. CASE StopFsync BY <1>16 DEF StopFsync
<1>17. CASE StopTrigger BY <1>17 DEF StopTrigger
<1>18. CASE AnnounceDisconnected BY <1>18 DEF AnnounceDisconnected
<1>19. CASE CloseSerial BY <1>19 DEF CloseSerial
<1>20. CASE ClearRunning BY <1>20 DEF ClearRunning
<1>21. CASE BeginFrame BY <1>21 DEF BeginFrame
<1>22. CASE ReadStamp BY <1>22 DEF ReadStamp, ReadPart
<1>23. CASE ReadSerialPointCloud BY <1>23 DEF ReadSerialPointCloud, ReadPart
<1>24. CASE ReadImuHeader BY <1>24 DEF ReadImuHeader
<1>25. CASE ReadImuLines BY <1>25 DEF ReadImuLines
<1>26. CASE ReadEndStamp BY <1>26 DEF ReadEndStamp, ReadPart
<1>27. CASE PublishCloud BY <1>27 DEF PublishCloud, Callback
<1>28. CASE EmitCloud BY <1>28 DEF EmitCloud, Emit
<1>29. CASE PublishImu BY <1>29 DEF PublishImu, Callback, Emit
<1>30. CASE EmitImu BY <1>30 DEF EmitImu, Emit
<1>31. CASE StartReturns BY <1>31 DEF StartReturns, Return
<1>32. CASE StartChecks BY <1>32 DEF StartChecks
<1>33. CASE StartJoins BY <1>33 DEF StartJoins
<1>34. CASE StartSpawns BY <1>34 DEF StartSpawns
<1>35. CASE StopReturnsEarly BY <1>35 DEF StopReturnsEarly, StopReturns, AfterStop
<1>36. CASE StopClears BY <1>36 DEF StopClears
<1>37. CASE StopJoins BY <1>37 DEF StopJoins, StopReturns, AfterStop
<1>38. CASE SetMode BY <1>38 DEF SetMode
<1>39. CASE RebootNotConnected BY <1>39 DEF RebootNotConnected, Return
<1>40. CASE RebootStops BY <1>40 DEF RebootStops
<1>41. CASE RebootOpens BY <1>41 DEF RebootOpens
<1>42. CASE RebootSends BY <1>42 DEF RebootSends, DeviceReboots
<1>43. CASE RebootCloses BY <1>43 DEF RebootCloses
<1>44. CASE RebootThrows BY <1>44 DEF RebootThrows
<1>45. CASE DtorJoins BY <1>45 DEF DtorJoins
<1>46. CASE StartImpl BY <1>46 DEF StartImpl
<1>47. CASE StopImpl BY <1>47 DEF StopImpl, Hook
<1>48. CASE DtorMembers BY <1>48 DEF DtorMembers, Hook
<1>49. CASE CallStart BY <1>49 DEF CallStart, Call
<1>50. CASE CallStop BY <1>50 DEF CallStop, Call
<1>51. CASE CallReboot BY <1>51 DEF CallReboot, Call
<1>52. CASE CallParam BY <1>52 DEF CallParam, Call
<1>53. CASE CallMode BY <1>53 DEF CallMode, Call
<1>54. CASE Destroy BY <1>54 DEF Destroy, Call
<1>55. CASE Unplug BY <1>55 DEF Unplug
<1>56. CASE Hang BY <1>56 DEF Hang
<1>57. CASE Recover BY <1>57 DEF Recover
<1>58. CASE Trigger BY <1>58 DEF Trigger
<1>59. CASE Replug BY <1>59 DEF Replug, PlugIn
<1>60. CASE UNCHANGED vars BY <1>60
<1>61. CASE CallRefused BY <1>61 DEF CallRefused, Call
<1>62. CASE FixBoot BY <1>62 DEF FixBoot, DeviceReboots
<1> QED
    BY <1>1, <1>2, <1>3, <1>4, <1>5, <1>6, <1>7, <1>8, <1>9, <1>10, <1>11, <1>12,
     <1>13, <1>14, <1>15, <1>16, <1>17, <1>18, <1>19, <1>20, <1>21, <1>22, <1>23, <1>24,
     <1>25, <1>26, <1>27, <1>28, <1>29, <1>30, <1>31, <1>32, <1>33, <1>34, <1>35, <1>36,
     <1>37, <1>38, <1>39, <1>40, <1>41, <1>42, <1>43, <1>44, <1>45, <1>46, <1>47, <1>48,
     <1>49, <1>50, <1>51, <1>52, <1>53, <1>54, <1>55, <1>56, <1>57, <1>58, <1>59, <1>60,
       <1>61, <1>62
    DEF Next, SerialThread, RunStep, ProcessSerialData, Executor, ExecStep, CallStep, Environment

(* Every action preserves TornInv: _running turns TRUE again only after    *)
(* the join of the thread that held the torn frame.                        *)
LEMMA TornStep == TypeOK /\ QuietInv /\ TornInv /\ [Next]_vars => TornInv'
<1> USE DEF TypeOK, BaseTypeOK, ControlOK, ConnectPcs, SetupPcs, FramePcs, WrapupPcs,
           NoThread, IoPcs, RebootPcs, ExecPcs, vars, baseVars, handle, frame,
           flash, device, executor, Thread, Exec, Alive, Answers, Frames
<1> USE DEF TornInv, QuietInv
<1> SUFFICES ASSUME TypeOK, QuietInv, TornInv, [Next]_vars PROVE TornInv'
  OBVIOUS
<1>1. CASE FindPort BY <1>1 DEF FindPort, FoundPort
<1>2. CASE Connect BY <1>2 DEF Connect
<1>3. CASE LoopExits BY <1>3 DEF LoopExits
<1>4. CASE SerialThrows BY <1>4 DEF SerialThrows
<1>5. CASE StopIfStreaming BY <1>5 DEF StopIfStreaming
<1>6. CASE VerifyDeviceMode BY <1>6 DEF VerifyDeviceMode
<1>7. CASE FixStart BY <1>7 DEF FixStart, WriteFlash
<1>8. CASE FixMode BY <1>8 DEF FixMode, WriteFlash
<1>9. CASE GetDeviceInfo BY <1>9 DEF GetDeviceInfo
<1>10. CASE AnnounceConnected BY <1>10 DEF AnnounceConnected
<1>11. CASE SetFlashDefaults BY <1>11 DEF SetFlashDefaults
<1>12. CASE Arm BY <1>12 DEF Arm
<1>13. CASE SkipFrames BY <1>13 DEF SkipFrames
<1>14. CASE WrapupThrows BY <1>14 DEF WrapupThrows
<1>15. CASE WrapupSkipped BY <1>15 DEF WrapupSkipped
<1>16. CASE StopFsync BY <1>16 DEF StopFsync
<1>17. CASE StopTrigger BY <1>17 DEF StopTrigger
<1>18. CASE AnnounceDisconnected BY <1>18 DEF AnnounceDisconnected
<1>19. CASE CloseSerial BY <1>19 DEF CloseSerial
<1>20. CASE ClearRunning BY <1>20 DEF ClearRunning
<1>21. CASE BeginFrame BY <1>21 DEF BeginFrame
<1>22. CASE ReadStamp BY <1>22 DEF ReadStamp, ReadPart
<1>23. CASE ReadSerialPointCloud BY <1>23 DEF ReadSerialPointCloud, ReadPart
<1>24. CASE ReadImuHeader BY <1>24 DEF ReadImuHeader
<1>25. CASE ReadImuLines BY <1>25 DEF ReadImuLines
<1>26. CASE ReadEndStamp BY <1>26 DEF ReadEndStamp, ReadPart
<1>27. CASE PublishCloud BY <1>27 DEF PublishCloud, Callback
<1>28. CASE EmitCloud BY <1>28 DEF EmitCloud, Emit
<1>29. CASE PublishImu BY <1>29 DEF PublishImu, Callback, Emit
<1>30. CASE EmitImu BY <1>30 DEF EmitImu, Emit
<1>31. CASE StartReturns BY <1>31 DEF StartReturns, Return
<1>32. CASE StartChecks BY <1>32 DEF StartChecks
<1>33. CASE StartJoins BY <1>33 DEF StartJoins
<1>34. CASE StartSpawns BY <1>34 DEF StartSpawns
<1>35. CASE StopReturnsEarly BY <1>35 DEF StopReturnsEarly, StopReturns, AfterStop
<1>36. CASE StopClears BY <1>36 DEF StopClears
<1>37. CASE StopJoins BY <1>37 DEF StopJoins, StopReturns, AfterStop
<1>38. CASE SetMode BY <1>38 DEF SetMode
<1>39. CASE RebootNotConnected BY <1>39 DEF RebootNotConnected, Return
<1>40. CASE RebootStops BY <1>40 DEF RebootStops
<1>41. CASE RebootOpens BY <1>41 DEF RebootOpens
<1>42. CASE RebootSends BY <1>42 DEF RebootSends, DeviceReboots
<1>43. CASE RebootCloses BY <1>43 DEF RebootCloses
<1>44. CASE RebootThrows BY <1>44 DEF RebootThrows
<1>45. CASE DtorJoins BY <1>45 DEF DtorJoins
<1>46. CASE StartImpl BY <1>46 DEF StartImpl
<1>47. CASE StopImpl BY <1>47 DEF StopImpl, Hook
<1>48. CASE DtorMembers BY <1>48 DEF DtorMembers, Hook
<1>49. CASE CallStart BY <1>49 DEF CallStart, Call
<1>50. CASE CallStop BY <1>50 DEF CallStop, Call
<1>51. CASE CallReboot BY <1>51 DEF CallReboot, Call
<1>52. CASE CallParam BY <1>52 DEF CallParam, Call
<1>53. CASE CallMode BY <1>53 DEF CallMode, Call
<1>54. CASE Destroy BY <1>54 DEF Destroy, Call
<1>55. CASE Unplug BY <1>55 DEF Unplug
<1>56. CASE Hang BY <1>56 DEF Hang
<1>57. CASE Recover BY <1>57 DEF Recover
<1>58. CASE Trigger BY <1>58 DEF Trigger
<1>59. CASE Replug BY <1>59 DEF Replug, PlugIn
<1>60. CASE UNCHANGED vars BY <1>60
<1>61. CASE CallRefused BY <1>61 DEF CallRefused, Call
<1>62. CASE FixBoot BY <1>62 DEF FixBoot, DeviceReboots
<1> QED
    BY <1>1, <1>2, <1>3, <1>4, <1>5, <1>6, <1>7, <1>8, <1>9, <1>10, <1>11, <1>12,
     <1>13, <1>14, <1>15, <1>16, <1>17, <1>18, <1>19, <1>20, <1>21, <1>22, <1>23, <1>24,
     <1>25, <1>26, <1>27, <1>28, <1>29, <1>30, <1>31, <1>32, <1>33, <1>34, <1>35, <1>36,
     <1>37, <1>38, <1>39, <1>40, <1>41, <1>42, <1>43, <1>44, <1>45, <1>46, <1>47, <1>48,
     <1>49, <1>50, <1>51, <1>52, <1>53, <1>54, <1>55, <1>56, <1>57, <1>58, <1>59, <1>60,
       <1>61, <1>62
    DEF Next, SerialThread, RunStep, ProcessSerialData, Executor, ExecStep, CallStep, Environment

(* Every action preserves NegotiatedInv: set_mode runs when QuietInv says  *)
(* that no thread uses the mode.                                           *)
LEMMA NegotiatedStep == TypeOK /\ QuietInv /\ NegotiatedInv /\ [Next]_vars => NegotiatedInv'
<1> USE DEF TypeOK, BaseTypeOK, ControlOK, ConnectPcs, SetupPcs, FramePcs, WrapupPcs,
           NoThread, IoPcs, RebootPcs, ExecPcs, vars, baseVars, handle, frame,
           flash, device, executor, Thread, Exec, Alive, Answers, Frames
<1> USE DEF NegotiatedInv, QuietInv
<1> SUFFICES ASSUME TypeOK, QuietInv, NegotiatedInv, [Next]_vars PROVE NegotiatedInv'
  OBVIOUS
<1>1. CASE FindPort BY <1>1 DEF FindPort, FoundPort
<1>2. CASE Connect BY <1>2 DEF Connect
<1>3. CASE LoopExits BY <1>3 DEF LoopExits
<1>4. CASE SerialThrows BY <1>4 DEF SerialThrows
<1>5. CASE StopIfStreaming BY <1>5 DEF StopIfStreaming
<1>6. CASE VerifyDeviceMode BY <1>6 DEF VerifyDeviceMode
<1>7. CASE FixStart BY <1>7 DEF FixStart, WriteFlash
<1>8. CASE FixMode BY <1>8 DEF FixMode, WriteFlash
<1>9. CASE GetDeviceInfo BY <1>9 DEF GetDeviceInfo
<1>10. CASE AnnounceConnected BY <1>10 DEF AnnounceConnected
<1>11. CASE SetFlashDefaults BY <1>11 DEF SetFlashDefaults
<1>12. CASE Arm BY <1>12 DEF Arm
<1>13. CASE SkipFrames BY <1>13 DEF SkipFrames
<1>14. CASE WrapupThrows BY <1>14 DEF WrapupThrows
<1>15. CASE WrapupSkipped BY <1>15 DEF WrapupSkipped
<1>16. CASE StopFsync BY <1>16 DEF StopFsync
<1>17. CASE StopTrigger BY <1>17 DEF StopTrigger
<1>18. CASE AnnounceDisconnected BY <1>18 DEF AnnounceDisconnected
<1>19. CASE CloseSerial BY <1>19 DEF CloseSerial
<1>20. CASE ClearRunning BY <1>20 DEF ClearRunning
<1>21. CASE BeginFrame BY <1>21 DEF BeginFrame
<1>22. CASE ReadStamp BY <1>22 DEF ReadStamp, ReadPart
<1>23. CASE ReadSerialPointCloud BY <1>23 DEF ReadSerialPointCloud, ReadPart
<1>24. CASE ReadImuHeader BY <1>24 DEF ReadImuHeader
<1>25. CASE ReadImuLines BY <1>25 DEF ReadImuLines
<1>26. CASE ReadEndStamp BY <1>26 DEF ReadEndStamp, ReadPart
<1>27. CASE PublishCloud BY <1>27 DEF PublishCloud, Callback
<1>28. CASE EmitCloud BY <1>28 DEF EmitCloud, Emit
<1>29. CASE PublishImu BY <1>29 DEF PublishImu, Callback, Emit
<1>30. CASE EmitImu BY <1>30 DEF EmitImu, Emit
<1>31. CASE StartReturns BY <1>31 DEF StartReturns, Return
<1>32. CASE StartChecks BY <1>32 DEF StartChecks
<1>33. CASE StartJoins BY <1>33 DEF StartJoins
<1>34. CASE StartSpawns BY <1>34 DEF StartSpawns
<1>35. CASE StopReturnsEarly BY <1>35 DEF StopReturnsEarly, StopReturns, AfterStop
<1>36. CASE StopClears BY <1>36 DEF StopClears
<1>37. CASE StopJoins BY <1>37 DEF StopJoins, StopReturns, AfterStop
<1>38. CASE SetMode BY <1>38 DEF SetMode
<1>39. CASE RebootNotConnected BY <1>39 DEF RebootNotConnected, Return
<1>40. CASE RebootStops BY <1>40 DEF RebootStops
<1>41. CASE RebootOpens BY <1>41 DEF RebootOpens
<1>42. CASE RebootSends BY <1>42 DEF RebootSends, DeviceReboots
<1>43. CASE RebootCloses BY <1>43 DEF RebootCloses
<1>44. CASE RebootThrows BY <1>44 DEF RebootThrows
<1>45. CASE DtorJoins BY <1>45 DEF DtorJoins
<1>46. CASE StartImpl BY <1>46 DEF StartImpl
<1>47. CASE StopImpl BY <1>47 DEF StopImpl, Hook
<1>48. CASE DtorMembers BY <1>48 DEF DtorMembers, Hook
<1>49. CASE CallStart BY <1>49 DEF CallStart, Call
<1>50. CASE CallStop BY <1>50 DEF CallStop, Call
<1>51. CASE CallReboot BY <1>51 DEF CallReboot, Call
<1>52. CASE CallParam BY <1>52 DEF CallParam, Call
<1>53. CASE CallMode BY <1>53 DEF CallMode, Call
<1>54. CASE Destroy BY <1>54 DEF Destroy, Call
<1>55. CASE Unplug BY <1>55 DEF Unplug
<1>56. CASE Hang BY <1>56 DEF Hang
<1>57. CASE Recover BY <1>57 DEF Recover
<1>58. CASE Trigger BY <1>58 DEF Trigger
<1>59. CASE Replug BY <1>59 DEF Replug, PlugIn
<1>60. CASE UNCHANGED vars BY <1>60
<1>61. CASE CallRefused BY <1>61 DEF CallRefused, Call
<1>62. CASE FixBoot BY <1>62 DEF FixBoot, DeviceReboots
<1> QED
    BY <1>1, <1>2, <1>3, <1>4, <1>5, <1>6, <1>7, <1>8, <1>9, <1>10, <1>11, <1>12,
     <1>13, <1>14, <1>15, <1>16, <1>17, <1>18, <1>19, <1>20, <1>21, <1>22, <1>23, <1>24,
     <1>25, <1>26, <1>27, <1>28, <1>29, <1>30, <1>31, <1>32, <1>33, <1>34, <1>35, <1>36,
     <1>37, <1>38, <1>39, <1>40, <1>41, <1>42, <1>43, <1>44, <1>45, <1>46, <1>47, <1>48,
     <1>49, <1>50, <1>51, <1>52, <1>53, <1>54, <1>55, <1>56, <1>57, <1>58, <1>59, <1>60,
       <1>61, <1>62
    DEF Next, SerialThread, RunStep, ProcessSerialData, Executor, ExecStep, CallStep, Environment

(* Every action preserves BootInv: a thread that goes on after it has      *)
(* written the flash finds a device that has started again, and one that   *)
(* could not make it do so does not come past its wrap-up.                 *)
LEMMA BootStep == TypeOK /\ QuietInv /\ BootInv /\ [Next]_vars => BootInv'
<1> USE DEF TypeOK, BaseTypeOK, ControlOK, ConnectPcs, SetupPcs, FramePcs, WrapupPcs,
           NoThread, IoPcs, RebootPcs, ExecPcs, vars, baseVars, handle, frame,
           flash, device, executor, Thread, Exec, Alive, Answers, Frames
<1> USE DEF BootInv, QuietInv, DeviceOK, HandleOK
<1> USE PortAssumption
<1> SUFFICES ASSUME TypeOK, QuietInv, BootInv, [Next]_vars PROVE BootInv'
  OBVIOUS
<1>1. CASE FindPort BY <1>1 DEF FindPort, FoundPort
<1>2. CASE Connect BY <1>2 DEF Connect
<1>3. CASE LoopExits BY <1>3 DEF LoopExits
<1>4. CASE SerialThrows BY <1>4 DEF SerialThrows
<1>5. CASE StopIfStreaming BY <1>5 DEF StopIfStreaming
<1>6. CASE VerifyDeviceMode BY <1>6 DEF VerifyDeviceMode
<1>7. CASE FixStart BY <1>7 DEF FixStart, WriteFlash
<1>8. CASE FixMode BY <1>8 DEF FixMode, WriteFlash
<1>9. CASE GetDeviceInfo BY <1>9 DEF GetDeviceInfo
<1>10. CASE AnnounceConnected BY <1>10 DEF AnnounceConnected
<1>11. CASE SetFlashDefaults BY <1>11 DEF SetFlashDefaults
<1>12. CASE Arm BY <1>12 DEF Arm
<1>13. CASE SkipFrames BY <1>13 DEF SkipFrames
<1>14. CASE WrapupThrows BY <1>14 DEF WrapupThrows
<1>15. CASE WrapupSkipped BY <1>15 DEF WrapupSkipped
<1>16. CASE StopFsync BY <1>16 DEF StopFsync
<1>17. CASE StopTrigger BY <1>17 DEF StopTrigger
<1>18. CASE AnnounceDisconnected BY <1>18 DEF AnnounceDisconnected
<1>19. CASE CloseSerial BY <1>19 DEF CloseSerial
<1>20. CASE ClearRunning BY <1>20 DEF ClearRunning
<1>21. CASE BeginFrame BY <1>21 DEF BeginFrame
<1>22. CASE ReadStamp BY <1>22 DEF ReadStamp, ReadPart
<1>23. CASE ReadSerialPointCloud BY <1>23 DEF ReadSerialPointCloud, ReadPart
<1>24. CASE ReadImuHeader BY <1>24 DEF ReadImuHeader
<1>25. CASE ReadImuLines BY <1>25 DEF ReadImuLines
<1>26. CASE ReadEndStamp BY <1>26 DEF ReadEndStamp, ReadPart
<1>27. CASE PublishCloud BY <1>27 DEF PublishCloud, Callback
<1>28. CASE EmitCloud BY <1>28 DEF EmitCloud, Emit
<1>29. CASE PublishImu BY <1>29 DEF PublishImu, Callback, Emit
<1>30. CASE EmitImu BY <1>30 DEF EmitImu, Emit
<1>31. CASE StartReturns BY <1>31 DEF StartReturns, Return
<1>32. CASE StartChecks BY <1>32 DEF StartChecks
<1>33. CASE StartJoins BY <1>33 DEF StartJoins
<1>34. CASE StartSpawns BY <1>34 DEF StartSpawns
<1>35. CASE StopReturnsEarly BY <1>35 DEF StopReturnsEarly, StopReturns, AfterStop
<1>36. CASE StopClears BY <1>36 DEF StopClears
<1>37. CASE StopJoins BY <1>37 DEF StopJoins, StopReturns, AfterStop
<1>38. CASE SetMode BY <1>38 DEF SetMode
<1>39. CASE RebootNotConnected BY <1>39 DEF RebootNotConnected, Return
<1>40. CASE RebootStops BY <1>40 DEF RebootStops
<1>41. CASE RebootOpens BY <1>41 DEF RebootOpens
<1>42. CASE RebootSends BY <1>42 DEF RebootSends, DeviceReboots
<1>43. CASE RebootCloses BY <1>43 DEF RebootCloses
<1>44. CASE RebootThrows BY <1>44 DEF RebootThrows
<1>45. CASE DtorJoins BY <1>45 DEF DtorJoins
<1>46. CASE StartImpl BY <1>46 DEF StartImpl
<1>47. CASE StopImpl BY <1>47 DEF StopImpl, Hook
<1>48. CASE DtorMembers BY <1>48 DEF DtorMembers, Hook
<1>49. CASE CallStart BY <1>49 DEF CallStart, Call
<1>50. CASE CallStop BY <1>50 DEF CallStop, Call
<1>51. CASE CallReboot BY <1>51 DEF CallReboot, Call
<1>52. CASE CallParam BY <1>52 DEF CallParam, Call
<1>53. CASE CallMode BY <1>53 DEF CallMode, Call
<1>54. CASE Destroy BY <1>54 DEF Destroy, Call
<1>55. CASE Unplug BY <1>55 DEF Unplug
<1>56. CASE Hang BY <1>56 DEF Hang
<1>57. CASE Recover BY <1>57 DEF Recover
<1>58. CASE Trigger BY <1>58 DEF Trigger
<1>59. CASE Replug BY <1>59 DEF Replug, PlugIn
<1>60. CASE UNCHANGED vars BY <1>60
<1>61. CASE CallRefused BY <1>61 DEF CallRefused, Call
<1>62. CASE FixBoot BY <1>62 DEF FixBoot, DeviceReboots
<1> QED
    BY <1>1, <1>2, <1>3, <1>4, <1>5, <1>6, <1>7, <1>8, <1>9, <1>10, <1>11, <1>12,
     <1>13, <1>14, <1>15, <1>16, <1>17, <1>18, <1>19, <1>20, <1>21, <1>22, <1>23, <1>24,
     <1>25, <1>26, <1>27, <1>28, <1>29, <1>30, <1>31, <1>32, <1>33, <1>34, <1>35, <1>36,
     <1>37, <1>38, <1>39, <1>40, <1>41, <1>42, <1>43, <1>44, <1>45, <1>46, <1>47, <1>48,
     <1>49, <1>50, <1>51, <1>52, <1>53, <1>54, <1>55, <1>56, <1>57, <1>58, <1>59, <1>60,
       <1>61, <1>62
    DEF Next, SerialThread, RunStep, ProcessSerialData, Executor, ExecStep, CallStep, Environment

(* Every action preserves StreamInv: however a session ends, the device    *)
(* was told to stop, or lost its power, or was rebooted.                   *)
LEMMA StreamStep == TypeOK /\ QuietInv /\ StreamInv /\ [Next]_vars => StreamInv'
<1> USE DEF TypeOK, BaseTypeOK, ControlOK, ConnectPcs, SetupPcs, FramePcs, WrapupPcs,
           NoThread, IoPcs, RebootPcs, ExecPcs, vars, baseVars, handle, frame,
           flash, device, executor, Thread, Exec, Alive, Answers, Frames
<1> USE DEF StreamInv, QuietInv, DeviceOK, Sources
<1> SUFFICES ASSUME TypeOK, QuietInv, StreamInv, [Next]_vars PROVE StreamInv'
  OBVIOUS
<1>1. CASE FindPort BY <1>1 DEF FindPort, FoundPort
<1>2. CASE Connect BY <1>2 DEF Connect
<1>3. CASE LoopExits BY <1>3 DEF LoopExits
<1>4. CASE SerialThrows BY <1>4 DEF SerialThrows
<1>5. CASE StopIfStreaming BY <1>5 DEF StopIfStreaming
<1>6. CASE VerifyDeviceMode BY <1>6 DEF VerifyDeviceMode
<1>7. CASE FixStart BY <1>7 DEF FixStart, WriteFlash
<1>8. CASE FixMode BY <1>8 DEF FixMode, WriteFlash
<1>9. CASE GetDeviceInfo BY <1>9 DEF GetDeviceInfo
<1>10. CASE AnnounceConnected BY <1>10 DEF AnnounceConnected
<1>11. CASE SetFlashDefaults BY <1>11 DEF SetFlashDefaults
<1>12. CASE Arm BY <1>12 DEF Arm
<1>13. CASE SkipFrames BY <1>13 DEF SkipFrames
<1>14. CASE WrapupThrows BY <1>14 DEF WrapupThrows
<1>15. CASE WrapupSkipped BY <1>15 DEF WrapupSkipped
<1>16. CASE StopFsync BY <1>16 DEF StopFsync
<1>17. CASE StopTrigger BY <1>17 DEF StopTrigger
<1>18. CASE AnnounceDisconnected BY <1>18 DEF AnnounceDisconnected
<1>19. CASE CloseSerial BY <1>19 DEF CloseSerial
<1>20. CASE ClearRunning BY <1>20 DEF ClearRunning
<1>21. CASE BeginFrame BY <1>21 DEF BeginFrame
<1>22. CASE ReadStamp BY <1>22 DEF ReadStamp, ReadPart
<1>23. CASE ReadSerialPointCloud BY <1>23 DEF ReadSerialPointCloud, ReadPart
<1>24. CASE ReadImuHeader BY <1>24 DEF ReadImuHeader
<1>25. CASE ReadImuLines BY <1>25 DEF ReadImuLines
<1>26. CASE ReadEndStamp BY <1>26 DEF ReadEndStamp, ReadPart
<1>27. CASE PublishCloud BY <1>27 DEF PublishCloud, Callback
<1>28. CASE EmitCloud BY <1>28 DEF EmitCloud, Emit
<1>29. CASE PublishImu BY <1>29 DEF PublishImu, Callback, Emit
<1>30. CASE EmitImu BY <1>30 DEF EmitImu, Emit
<1>31. CASE StartReturns BY <1>31 DEF StartReturns, Return
<1>32. CASE StartChecks BY <1>32 DEF StartChecks
<1>33. CASE StartJoins BY <1>33 DEF StartJoins
<1>34. CASE StartSpawns BY <1>34 DEF StartSpawns
<1>35. CASE StopReturnsEarly BY <1>35 DEF StopReturnsEarly, StopReturns, AfterStop
<1>36. CASE StopClears BY <1>36 DEF StopClears
<1>37. CASE StopJoins BY <1>37 DEF StopJoins, StopReturns, AfterStop
<1>38. CASE SetMode BY <1>38 DEF SetMode
<1>39. CASE RebootNotConnected BY <1>39 DEF RebootNotConnected, Return
<1>40. CASE RebootStops BY <1>40 DEF RebootStops
<1>41. CASE RebootOpens BY <1>41 DEF RebootOpens
<1>42. CASE RebootSends BY <1>42 DEF RebootSends, DeviceReboots
<1>43. CASE RebootCloses BY <1>43 DEF RebootCloses
<1>44. CASE RebootThrows BY <1>44 DEF RebootThrows
<1>45. CASE DtorJoins BY <1>45 DEF DtorJoins
<1>46. CASE StartImpl BY <1>46 DEF StartImpl
<1>47. CASE StopImpl BY <1>47 DEF StopImpl, Hook
<1>48. CASE DtorMembers BY <1>48 DEF DtorMembers, Hook
<1>49. CASE CallStart BY <1>49 DEF CallStart, Call
<1>50. CASE CallStop BY <1>50 DEF CallStop, Call
<1>51. CASE CallReboot BY <1>51 DEF CallReboot, Call
<1>52. CASE CallParam BY <1>52 DEF CallParam, Call
<1>53. CASE CallMode BY <1>53 DEF CallMode, Call
<1>54. CASE Destroy BY <1>54 DEF Destroy, Call
<1>55. CASE Unplug BY <1>55 DEF Unplug
<1>56. CASE Hang BY <1>56 DEF Hang
<1>57. CASE Recover BY <1>57 DEF Recover
<1>58. CASE Trigger BY <1>58 DEF Trigger
<1>59. CASE Replug BY <1>59 DEF Replug, PlugIn
<1>60. CASE UNCHANGED vars BY <1>60
<1>61. CASE CallRefused BY <1>61 DEF CallRefused, Call
<1>62. CASE FixBoot BY <1>62 DEF FixBoot, DeviceReboots
<1> QED
    BY <1>1, <1>2, <1>3, <1>4, <1>5, <1>6, <1>7, <1>8, <1>9, <1>10, <1>11, <1>12,
     <1>13, <1>14, <1>15, <1>16, <1>17, <1>18, <1>19, <1>20, <1>21, <1>22, <1>23, <1>24,
     <1>25, <1>26, <1>27, <1>28, <1>29, <1>30, <1>31, <1>32, <1>33, <1>34, <1>35, <1>36,
     <1>37, <1>38, <1>39, <1>40, <1>41, <1>42, <1>43, <1>44, <1>45, <1>46, <1>47, <1>48,
     <1>49, <1>50, <1>51, <1>52, <1>53, <1>54, <1>55, <1>56, <1>57, <1>58, <1>59, <1>60,
       <1>61, <1>62
    DEF Next, SerialThread, RunStep, ProcessSerialData, Executor, ExecStep, CallStep, Environment

-----------------------------------------------------------------------------
IInv == TypeOK /\ QuietInv /\ TornInv /\ NegotiatedInv /\ BootInv /\ StreamInv

(* The conjunction of the six parts is an invariant of the specification.  *)
THEOREM Invariance == Spec => []IInv
<1>1. Init => IInv
  <2> SUFFICES ASSUME Init PROVE IInv
    OBVIOUS
  <2> USE PortAssumption, SyncAssumption
  <2> USE DEF Init, BaseInit, NoThread, FramePcs, RebootPcs
  <2>1. TypeOK
    BY DEF TypeOK, BaseTypeOK, FlagsOK, ControlOK, DeviceOK, HandleOK, ExecPcs, Ops, Sources,
           Boots
  <2>2. QuietInv BY DEF QuietInv
  <2>3. TornInv BY DEF TornInv
  <2>4. NegotiatedInv BY DEF NegotiatedInv
  <2>5. StreamInv BY DEF StreamInv
  <2>6. BootInv BY DEF BootInv
  <2> QED BY <2>1, <2>2, <2>3, <2>4, <2>5, <2>6 DEF IInv
<1>2. IInv /\ [Next]_vars => IInv'
  BY TypeStep, QuietStep, TornStep, NegotiatedStep, BootStep, StreamStep DEF IInv
<1> QED BY <1>1, <1>2, PTL DEF Spec

(* Every variable has its type in every reachable state, and _serial is    *)
(* open only on the port where the device is.                              *)
THEOREM TypeCorrect == Spec => []TypeOK
<1>1. IInv => TypeOK BY DEF IInv
<1> QED BY <1>1, Invariance, PTL

(* The executor touches _serial, _mode and _serial_thread only when the    *)
(* serial thread has ended: the driver needs no lock for them.             *)
THEOREM ExecutorOwnsSerial == Spec => []SerialExclusive
<1>1. IInv => SerialExclusive BY DEF IInv, QuietInv, SerialExclusive, NoThread, RebootPcs
<1> QED BY <1>1, Invariance, PTL

(* After stop() has returned, early or not, no thread is left to publish.  *)
THEOREM StopLeavesNoThread == Spec => []StoppedIsQuiet
<1>1. IInv => StoppedIsQuiet BY DEF IInv, QuietInv, StoppedIsQuiet
<1> QED BY <1>1, Invariance, PTL

(* A frame of which a read was given up is never published.                *)
THEOREM TornFramesDropped == Spec => []NoTornFrame
<1>1. IInv => NoTornFrame BY DEF IInv, TornInv, NoTornFrame
<1> QED BY <1>1, Invariance, PTL

(* Published frames come from an announced, supported device that has the  *)
(* requested modes in its flash and has started from them, unless they     *)
(* were written by a run of the driver that is over.                       *)
THEOREM FramesAsRequested == Spec => []FrameAsRequested
<1>1. IInv => FrameAsRequested
  BY DEF IInv, NegotiatedInv, BootInv, NoThread, FrameAsRequested, FramePcs
<1> QED BY <1>1, Invariance, PTL

(* The driver never leaves behind a device that it made stream.            *)
THEOREM SessionsEndSilent == Spec => []NoOrphanStream
<1>1. IInv => NoOrphanStream BY DEF IInv, StreamInv, NoOrphanStream
<1> QED BY <1>1, Invariance, PTL

-----------------------------------------------------------------------------
(* The XYZ driver implements StreamSession.  Beyond the invariant this     *)
(* needs to know where announced is TRUE; each action is then shown to be  *)
(* a step of the abstract session or a stuttering step of it.              *)

(* The node knows of a device only between the two calls of connect_cb.    *)
AnnouncedInv ==
  announced => spc \in {"setup", "arm", "skip", "wrapup", "wrapup2", "notify"} \cup FramePcs

-----------------------------------------------------------------------------
(* Every action preserves AnnouncedInv: the session that announced a       *)
(* device passes the disconnect callback before it closes the port.        *)
LEMMA AnnouncedStep == TypeOK /\ QuietInv /\ AnnouncedInv /\ [Next]_vars => AnnouncedInv'
<1> USE DEF TypeOK, BaseTypeOK, ControlOK, ConnectPcs, SetupPcs, FramePcs, WrapupPcs,
           NoThread, IoPcs, RebootPcs, ExecPcs, vars, baseVars, handle, frame,
           flash, device, executor, Thread, Exec, Alive, Answers, Frames
<1> USE DEF AnnouncedInv, QuietInv
<1> SUFFICES ASSUME TypeOK, QuietInv, AnnouncedInv, [Next]_vars PROVE AnnouncedInv'
  OBVIOUS
<1>1. CASE FindPort BY <1>1 DEF FindPort, FoundPort
<1>2. CASE Connect BY <1>2 DEF Connect
<1>3. CASE LoopExits BY <1>3 DEF LoopExits
<1>4. CASE SerialThrows BY <1>4 DEF SerialThrows
<1>5. CASE StopIfStreaming BY <1>5 DEF StopIfStreaming
<1>6. CASE VerifyDeviceMode BY <1>6 DEF VerifyDeviceMode
<1>7. CASE FixStart BY <1>7 DEF FixStart, WriteFlash
<1>8. CASE FixMode BY <1>8 DEF FixMode, WriteFlash
<1>9. CASE GetDeviceInfo BY <1>9 DEF GetDeviceInfo
<1>10. CASE AnnounceConnected BY <1>10 DEF AnnounceConnected
<1>11. CASE SetFlashDefaults BY <1>11 DEF SetFlashDefaults
<1>12. CASE Arm BY <1>12 DEF Arm
<1>13. CASE SkipFrames BY <1>13 DEF SkipFrames
<1>14. CASE WrapupThrows BY <1>14 DEF WrapupThrows
<1>15. CASE WrapupSkipped BY <1>15 DEF WrapupSkipped
<1>16. CASE StopFsync BY <1>16 DEF StopFsync
<1>17. CASE StopTrigger BY <1>17 DEF StopTrigger
<1>18. CASE AnnounceDisconnected BY <1>18 DEF AnnounceDisconnected
<1>19. CASE CloseSerial BY <1>19 DEF CloseSerial
<1>20. CASE ClearRunning BY <1>20 DEF ClearRunning
<1>21. CASE BeginFrame BY <1>21 DEF BeginFrame
<1>22. CASE ReadStamp BY <1>22 DEF ReadStamp, ReadPart
<1>23. CASE ReadSerialPointCloud BY <1>23 DEF ReadSerialPointCloud, ReadPart
<1>24. CASE ReadImuHeader BY <1>24 DEF ReadImuHeader
<1>25. CASE ReadImuLines BY <1>25 DEF ReadImuLines
<1>26. CASE ReadEndStamp BY <1>26 DEF ReadEndStamp, ReadPart
<1>27. CASE PublishCloud BY <1>27 DEF PublishCloud, Callback
<1>28. CASE EmitCloud BY <1>28 DEF EmitCloud, Emit
<1>29. CASE PublishImu BY <1>29 DEF PublishImu, Callback, Emit
<1>30. CASE EmitImu BY <1>30 DEF EmitImu, Emit
<1>31. CASE StartReturns BY <1>31 DEF StartReturns, Return
<1>32. CASE StartChecks BY <1>32 DEF StartChecks
<1>33. CASE StartJoins BY <1>33 DEF StartJoins
<1>34. CASE StartSpawns BY <1>34 DEF StartSpawns
<1>35. CASE StopReturnsEarly BY <1>35 DEF StopReturnsEarly, StopReturns, AfterStop
<1>36. CASE StopClears BY <1>36 DEF StopClears
<1>37. CASE StopJoins BY <1>37 DEF StopJoins, StopReturns, AfterStop
<1>38. CASE SetMode BY <1>38 DEF SetMode
<1>39. CASE RebootNotConnected BY <1>39 DEF RebootNotConnected, Return
<1>40. CASE RebootStops BY <1>40 DEF RebootStops
<1>41. CASE RebootOpens BY <1>41 DEF RebootOpens
<1>42. CASE RebootSends BY <1>42 DEF RebootSends, DeviceReboots
<1>43. CASE RebootCloses BY <1>43 DEF RebootCloses
<1>44. CASE RebootThrows BY <1>44 DEF RebootThrows
<1>45. CASE DtorJoins BY <1>45 DEF DtorJoins
<1>46. CASE StartImpl BY <1>46 DEF StartImpl
<1>47. CASE StopImpl BY <1>47 DEF StopImpl, Hook
<1>48. CASE DtorMembers BY <1>48 DEF DtorMembers, Hook
<1>49. CASE CallStart BY <1>49 DEF CallStart, Call
<1>50. CASE CallStop BY <1>50 DEF CallStop, Call
<1>51. CASE CallReboot BY <1>51 DEF CallReboot, Call
<1>52. CASE CallParam BY <1>52 DEF CallParam, Call
<1>53. CASE CallMode BY <1>53 DEF CallMode, Call
<1>54. CASE Destroy BY <1>54 DEF Destroy, Call
<1>55. CASE Unplug BY <1>55 DEF Unplug
<1>56. CASE Hang BY <1>56 DEF Hang
<1>57. CASE Recover BY <1>57 DEF Recover
<1>58. CASE Trigger BY <1>58 DEF Trigger
<1>59. CASE Replug BY <1>59 DEF Replug, PlugIn
<1>60. CASE UNCHANGED vars BY <1>60
<1>61. CASE CallRefused BY <1>61 DEF CallRefused, Call
<1>62. CASE FixBoot BY <1>62 DEF FixBoot, DeviceReboots
<1> QED
    BY <1>1, <1>2, <1>3, <1>4, <1>5, <1>6, <1>7, <1>8, <1>9, <1>10, <1>11, <1>12,
     <1>13, <1>14, <1>15, <1>16, <1>17, <1>18, <1>19, <1>20, <1>21, <1>22, <1>23, <1>24,
     <1>25, <1>26, <1>27, <1>28, <1>29, <1>30, <1>31, <1>32, <1>33, <1>34, <1>35, <1>36,
     <1>37, <1>38, <1>39, <1>40, <1>41, <1>42, <1>43, <1>44, <1>45, <1>46, <1>47, <1>48,
     <1>49, <1>50, <1>51, <1>52, <1>53, <1>54, <1>55, <1>56, <1>57, <1>58, <1>59, <1>60,
       <1>61, <1>62
    DEF Next, SerialThread, RunStep, ProcessSerialData, Executor, ExecStep, CallStep, Environment

(* Every action is a step of the abstract session, or leaves it alone.     *)
LEMMA SessionStep ==
  IInv /\ AnnouncedInv /\ [Next]_vars => [Session!Next]_(Session!vars)
<1> USE DEF ConnectPcs, SetupPcs, FramePcs, WrapupPcs, NoThread, IoPcs, RebootPcs,
           vars, baseVars, handle, frame, flash, device, executor, Thread, Exec, Alive
<1> USE DEF SessionPhase, Session!vars
<1> SUFFICES ASSUME IInv, AnnouncedInv, [Next]_vars PROVE [Session!Next]_(Session!vars)
  OBVIOUS
<1>a. /\ running \in BOOLEAN /\ announced \in BOOLEAN
      /\ spc \in ConnectPcs \cup SetupPcs \cup FramePcs \cup WrapupPcs \cup NoThread
      /\ crashed \in {"no", "terminate", "executor"}
  BY DEF IInv, TypeOK, BaseTypeOK, FlagsOK, ControlOK
<1>b. QuietInv /\ AnnouncedInv /\ NegotiatedInv BY DEF IInv
<1> USE <1>a
<1>1. CASE FindPort BY <1>1, <1>b DEF FindPort, FoundPort, AnnouncedInv
<1>2. CASE Connect BY <1>2, <1>b DEF Connect, AnnouncedInv
<1>3. CASE LoopExits BY <1>3, <1>b DEF LoopExits, AnnouncedInv
<1>4. CASE SerialThrows BY <1>4, <1>b DEF SerialThrows, AnnouncedInv
<1>5. CASE StopIfStreaming BY <1>5, <1>b DEF StopIfStreaming, AnnouncedInv
<1>6. CASE VerifyDeviceMode BY <1>6, <1>b DEF VerifyDeviceMode, AnnouncedInv
<1>7. CASE FixStart BY <1>7, <1>b DEF FixStart, WriteFlash, AnnouncedInv
<1>8. CASE FixMode BY <1>8, <1>b DEF FixMode, WriteFlash, AnnouncedInv
<1>9. CASE GetDeviceInfo BY <1>9, <1>b DEF GetDeviceInfo, AnnouncedInv
<1>10. CASE AnnounceConnected
  BY <1>10, <1>b DEF AnnounceConnected,
         QuietInv, AnnouncedInv, NegotiatedInv, Session!Next, Session!Connect
<1>11. CASE SetFlashDefaults BY <1>11, <1>b DEF SetFlashDefaults, AnnouncedInv
<1>12. CASE Arm BY <1>12, <1>b DEF Arm, AnnouncedInv
<1>13. CASE SkipFrames BY <1>13, <1>b DEF SkipFrames, AnnouncedInv
<1>14. CASE WrapupThrows
  BY <1>14, <1>b DEF WrapupThrows,
         QuietInv, AnnouncedInv, NegotiatedInv, Session!Next, Session!Die
<1>15. CASE WrapupSkipped BY <1>15, <1>b DEF WrapupSkipped, AnnouncedInv
<1>16. CASE StopFsync BY <1>16, <1>b DEF StopFsync, AnnouncedInv
<1>17. CASE StopTrigger BY <1>17, <1>b DEF StopTrigger, AnnouncedInv
<1>18. CASE AnnounceDisconnected
  BY <1>18, <1>b DEF AnnounceDisconnected,
         QuietInv, AnnouncedInv, NegotiatedInv, Session!Next, Session!Disconnect
<1>19. CASE CloseSerial BY <1>19, <1>b DEF CloseSerial, AnnouncedInv
<1>20. CASE ClearRunning
  BY <1>20, <1>b DEF ClearRunning,
         QuietInv, AnnouncedInv, NegotiatedInv, Session!Next, Session!End
<1>21. CASE BeginFrame BY <1>21, <1>b DEF BeginFrame, AnnouncedInv
<1>22. CASE ReadStamp BY <1>22, <1>b DEF ReadStamp, ReadPart, AnnouncedInv
<1>23. CASE ReadSerialPointCloud BY <1>23, <1>b DEF ReadSerialPointCloud, ReadPart, AnnouncedInv
<1>24. CASE ReadImuHeader BY <1>24, <1>b DEF ReadImuHeader, AnnouncedInv
<1>25. CASE ReadImuLines BY <1>25, <1>b DEF ReadImuLines, AnnouncedInv
<1>26. CASE ReadEndStamp BY <1>26, <1>b DEF ReadEndStamp, ReadPart, AnnouncedInv
<1>27. CASE PublishCloud
  BY <1>27, <1>b DEF PublishCloud, Callback,
         QuietInv, AnnouncedInv, NegotiatedInv, Session!Next, Session!Publish
<1>28. CASE EmitCloud
  BY <1>28, <1>b DEF EmitCloud, Emit,
         QuietInv, AnnouncedInv, NegotiatedInv, Session!Next, Session!Published
<1>29. CASE PublishImu
  BY <1>29, <1>b DEF PublishImu, Callback, Emit,
         QuietInv, AnnouncedInv, NegotiatedInv, Session!Next, Session!Publish
<1>30. CASE EmitImu
  BY <1>30, <1>b DEF EmitImu, Emit,
         QuietInv, AnnouncedInv, NegotiatedInv, Session!Next, Session!Published
<1>31. CASE StartReturns BY <1>31, <1>b DEF StartReturns, Return, AnnouncedInv
<1>32. CASE StartChecks BY <1>32, <1>b DEF StartChecks, AnnouncedInv
<1>33. CASE StartJoins
  BY <1>33, <1>b DEF StartJoins,
         QuietInv, AnnouncedInv, NegotiatedInv, Session!Next, Session!Enable
<1>34. CASE StartSpawns
  BY <1>34, <1>b DEF StartSpawns,
         QuietInv, AnnouncedInv, NegotiatedInv, Session!Next, Session!Search
<1>35. CASE StopReturnsEarly BY <1>35, <1>b DEF StopReturnsEarly, StopReturns, AfterStop, AnnouncedInv
<1>36. CASE StopClears
  BY <1>36, <1>b DEF StopClears,
         QuietInv, AnnouncedInv, NegotiatedInv, Session!Next, Session!Disable
<1>37. CASE StopJoins BY <1>37, <1>b DEF StopJoins, StopReturns, AfterStop, AnnouncedInv
<1>38. CASE SetMode BY <1>38, <1>b DEF SetMode, AnnouncedInv
<1>39. CASE RebootNotConnected BY <1>39, <1>b DEF RebootNotConnected, Return, AnnouncedInv
<1>40. CASE RebootStops BY <1>40, <1>b DEF RebootStops, AnnouncedInv
<1>41. CASE RebootOpens BY <1>41, <1>b DEF RebootOpens, AnnouncedInv
<1>42. CASE RebootSends BY <1>42, <1>b DEF RebootSends, DeviceReboots, AnnouncedInv
<1>43. CASE RebootCloses BY <1>43, <1>b DEF RebootCloses, AnnouncedInv
<1>44. CASE RebootThrows
  BY <1>44, <1>b DEF RebootThrows,
         QuietInv, AnnouncedInv, NegotiatedInv, Session!Next, Session!Die
<1>45. CASE DtorJoins BY <1>45, <1>b DEF DtorJoins, AnnouncedInv
<1>46. CASE StartImpl BY <1>46, <1>b DEF StartImpl, AnnouncedInv
<1>47. CASE StopImpl BY <1>47, <1>b DEF StopImpl, Hook, AnnouncedInv
<1>48. CASE DtorMembers BY <1>48, <1>b DEF DtorMembers, Hook, AnnouncedInv
<1>49. CASE CallStart BY <1>49, <1>b DEF CallStart, Call, AnnouncedInv
<1>50. CASE CallStop BY <1>50, <1>b DEF CallStop, Call, AnnouncedInv
<1>51. CASE CallReboot BY <1>51, <1>b DEF CallReboot, Call, AnnouncedInv
<1>52. CASE CallParam BY <1>52, <1>b DEF CallParam, Call, AnnouncedInv
<1>53. CASE CallMode BY <1>53, <1>b DEF CallMode, Call, AnnouncedInv
<1>54. CASE Destroy BY <1>54, <1>b DEF Destroy, Call, AnnouncedInv
<1>55. CASE Unplug BY <1>55, <1>b DEF Unplug, AnnouncedInv
<1>56. CASE Hang BY <1>56, <1>b DEF Hang, AnnouncedInv
<1>57. CASE Recover BY <1>57, <1>b DEF Recover, AnnouncedInv
<1>58. CASE Trigger BY <1>58, <1>b DEF Trigger, AnnouncedInv
<1>59. CASE Replug BY <1>59, <1>b DEF Replug, PlugIn, AnnouncedInv
<1>60. CASE UNCHANGED vars BY <1>60, <1>b
<1>61. CASE CallRefused BY <1>61, <1>b DEF CallRefused, Call, AnnouncedInv
<1>62. CASE FixBoot BY <1>62, <1>b DEF FixBoot, DeviceReboots, AnnouncedInv
<1> QED
    BY <1>1, <1>2, <1>3, <1>4, <1>5, <1>6, <1>7, <1>8, <1>9, <1>10, <1>11, <1>12,
     <1>13, <1>14, <1>15, <1>16, <1>17, <1>18, <1>19, <1>20, <1>21, <1>22, <1>23, <1>24,
     <1>25, <1>26, <1>27, <1>28, <1>29, <1>30, <1>31, <1>32, <1>33, <1>34, <1>35, <1>36,
     <1>37, <1>38, <1>39, <1>40, <1>41, <1>42, <1>43, <1>44, <1>45, <1>46, <1>47, <1>48,
     <1>49, <1>50, <1>51, <1>52, <1>53, <1>54, <1>55, <1>56, <1>57, <1>58, <1>59, <1>60,
       <1>61, <1>62
    DEF Next, SerialThread, RunStep, ProcessSerialData, Executor, ExecStep, CallStep, Environment

(* The XYZ driver implements the session that its users see: frames only   *)
(* between the two calls of connect_cb and while streaming is enabled, one *)
(* session at a time, each of them ended by a call of connect_cb.          *)
THEOREM ImplementsStreamSession == Spec => ImplementsSession
<1>1. Init => Session!Init /\ AnnouncedInv
  BY DEF Init, BaseInit, AnnouncedInv, Session!Init, SessionPhase, Alive, NoThread
<1>2. IInv /\ AnnouncedInv /\ [Next]_vars => AnnouncedInv'
  BY AnnouncedStep DEF IInv
<1> QED BY <1>1, <1>2, SessionStep, Invariance, PTL DEF Spec, ImplementsSession, Session!Spec
=============================================================================
