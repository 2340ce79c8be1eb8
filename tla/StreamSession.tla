--------------------------- MODULE StreamSession ----------------------------
(***************************************************************************)
(* What a user of the driver may rely on, whatever the threads do inside:  *)
(* a session is searching for a device, connected to one or closing;       *)
(* frames are published while it is connected and streaming is enabled;    *)
(* streaming is enabled only when the session before has ended.            *)
(***************************************************************************)
VARIABLES
  enabled,    \* streaming was asked for and has neither been stopped nor failed
  session,    \* none, searching, connected, closing; dead: the process ended
  publishing  \* a message is being published

vars == <<enabled, session, publishing>>

Init == enabled = FALSE /\ session = "none" /\ publishing = FALSE

Enable ==
  /\ session = "none" /\ ~enabled
  /\ enabled' = TRUE
  /\ UNCHANGED <<session, publishing>>

\* Nothing is published after this but the message that was begun before.
Disable ==
  /\ enabled' = FALSE
  /\ UNCHANGED <<session, publishing>>

Search ==
  /\ session = "none" /\ enabled
  /\ session' = "searching"
  /\ UNCHANGED <<enabled, publishing>>

\* The node is told of the device, once in a session.
Connect ==
  /\ session = "searching" /\ enabled
  /\ session' = "connected"
  /\ UNCHANGED <<enabled, publishing>>

Publish ==
  /\ session = "connected" /\ enabled
  /\ publishing' = TRUE
  /\ UNCHANGED <<enabled, session>>

Published ==
  /\ publishing' = FALSE
  /\ UNCHANGED <<enabled, session>>

\* The node is told that the device is gone, before the session ends.
Disconnect ==
  /\ session \in {"searching", "connected"} /\ ~publishing
  /\ session' = "closing"
  /\ UNCHANGED <<enabled, publishing>>

End ==
  /\ session = "closing"
  /\ session' = "none" /\ enabled' = FALSE
  /\ UNCHANGED publishing

Die ==
  /\ session' = "dead" /\ publishing' = FALSE
  /\ UNCHANGED enabled

Next ==
  Enable \/ Disable \/ Search \/ Connect \/ Publish \/ Published \/ Disconnect \/ End \/ Die

Spec == Init /\ [][Next]_vars
=============================================================================
