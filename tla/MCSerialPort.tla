---------------------------- MODULE MCSerialPort ----------------------------
(* The model-checking instance of SerialPort: its constants are numbers    *)
(* and model values, which the cfg file gives.                             *)
EXTENDS SerialPort
=============================================================================
