----------------------------- MODULE ByteStream -----------------------------
(***************************************************************************)
(* What the serial port promises about the bytes that a device sends: they *)
(* reach the callers in the order they were sent, each of them once, and   *)
(* what one call returns is a piece of the stream without a gap.  Bytes    *)
(* may be lost.  They are numbered modulo M.                               *)
(***************************************************************************)
EXTENDS Naturals, Sequences

CONSTANT M

VARIABLES
  next,     \* the number of the byte that the device sends next
  pending,  \* sent, and not yet returned to a caller
  returned  \* what the step before returned to a caller

vars == <<next, pending, returned>>

Gapless(s) == \A i \in 1 .. Len(s) - 1 : s[i + 1] = (s[i] + 1) % M

Init == next = 0 /\ pending = <<>> /\ returned = <<>>

Send ==
  /\ pending' = Append(pending, next)
  /\ next' = (next + 1) % M
  /\ returned' = <<>>

Receive ==
  /\ \E n \in 0 .. Len(pending) :
       /\ returned' = SubSeq(pending, 1, n)
       /\ pending' = SubSeq(pending, n + 1, Len(pending))
       /\ Gapless(returned')
  /\ UNCHANGED next

\* The oldest bytes are given up, or the newest.
Lose ==
  /\ \E n \in 0 .. Len(pending) :
       pending' \in {SubSeq(pending, 1, n), SubSeq(pending, n + 1, Len(pending))}
  /\ returned' = <<>>
  /\ UNCHANGED next

Next == Send \/ Receive \/ Lose

Spec == Init /\ [][Next]_vars
=============================================================================
