-------------------------- MODULE MCDt1DeviceCdc ---------------------------
(* Model-checking instances of Dt1DeviceCdc.                               *)
EXTENDS Dt1DeviceCdc, TLC

\* No action tells two ports apart.
PortSymmetry == Permutations(Port)

(* The liveness run starts from supported devices in the flash defaults    *)
(* the driver itself leaves; the safety run takes every device.            *)
LiveInit == Init /\ fwOk /\ flstream = {}
LiveSpec == LiveInit /\ [][Next]_vars /\ Fairness /\ DeviceReturns

(* A device that needs no configuration, stays plugged in and answers, and *)
(* a user who only calls start_streaming and stop_streaming.               *)
SteadyInit == Init /\ devPort # NoPort /\ startOk /\ modeOk /\ fwOk /\ flstream = {}
SteadySpec == SteadyInit /\ [][SerialThread \/ Executor \/ CallStart \/ CallStop]_vars
=============================================================================
