-------------------------- MODULE MCDt1DeviceHist --------------------------
(* Model-checking instances of Dt1DeviceHist.                              *)
EXTENDS Dt1DeviceHist

(* Devices with the start mode and the stream defaults the driver leaves;  *)
(* what the others add is covered by the runs of Dt1DeviceCdc.             *)
MCInit == Init /\ flstream = {} /\ startOk /\ boot = "current" /\ ~trigger
MCSpec == MCInit /\ [][Next]_vars /\ Fairness

(* A restart with a supported device.                                      *)
LiveInit == MCInit /\ fwOk
LiveSpec == LiveInit /\ [][Next]_vars /\ Fairness
=============================================================================
