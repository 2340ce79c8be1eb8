-------------------------- MODULE SerialPortProofs --------------------------
(***************************************************************************)
(* Proofs that the calls of SerialPort keep out of each other's way, for   *)
(* every set of threads and all sizes of buffers, reads and commands.      *)
(* Everything rests on LockInv, which says which locks a call holds where; *)
(* PollInv says what a call relies on while it holds them.  The data that  *)
(* the calls move is the subject of SerialDataProofs.                      *)
(***************************************************************************)
EXTENDS SerialPort, SequenceTheorems, TLAPS

LastOf(s) == s[Len(s)]

(* The calls that take read_mutex, and those that take write_mutex.        *)
ReadLocked == {"read", "readline", "flush", "flushInput", "setPort"}
WriteLocked == {"write", "flush", "flushOutput", "setPort"}

(* A descriptor that may be left behind is one of MaxFd, and without an    *)
(* object there is no handle.                                              *)
HandleInv ==
  /\ handle.fd \in {"live", "dead"} => handle.leaked < MaxFd
  /\ ~made => ~handle.is_open /\ handle.fd = "none" /\ AllIdle

(* A call holds exactly the locks that it has passed, wherever it is.      *)
LockOK(t) ==
  /\ pc[t] = "idle" => call[t] = "none"
  /\ pc[t] \in {"loop", "ready", "got"} => call[t] \in Reads
  /\ pc[t] \in {"select", "again"} => call[t] = "write"
  /\ pc[t] = "rlock" => call[t] \in ReadLocked
  /\ pc[t] = "wlock" => call[t] \in WriteLocked
  /\ pc[t] = "run" => call[t] # "none"
  /\ rlock = t <=> call[t] \in ReadLocked /\ pc[t] # "rlock"
  /\ wlock = t <=> call[t] \in WriteLocked /\ pc[t] \notin {"rlock", "wlock"}
LockInv == \A t \in Thread : LockOK(t)

(* What a call keeps from one step to the next: a read that has seen data  *)
(* finds it, unless the port was closed or opened under it, and data that  *)
(* was read, or a command begun, belongs to the holder of the lock.        *)
PollOK(t) ==
  /\ pc[t] = "ready" /\ ~moved[t] =>
       handle.fd \in {"live", "dead"} /\ (Live => inq # <<>>)
  /\ buf[t] # <<>> => call[t] \in Reads /\ rlock = t
  /\ call[t] = "read" /\ pc[t] # "got" => Len(buf[t]) < ReadSize
  /\ put[t] # 0 => pc[t] = "again"
  /\ pc[t] = "again" => put[t] < Command
PollInv == \A t \in Thread : PollOK(t)

-----------------------------------------------------------------------------
(* open() and close() leave a handle of the right type.                    *)
HandleOK(h) ==
  /\ h \in Handles /\ (h.is_open => h.fd # "none")
  /\ h.fd \in {"live", "dead"} => h.leaked < MaxFd

(* The descriptors left behind stay within those of the process.           *)
LEMMA LeakedTypes ==
  ASSUME NEW h, HandleOK(h) PROVE LeakedAtOpen(h) \in 0 .. MaxFd
BY SerialAssumption DEF HandleOK, Handles, LeakedAtOpen

(* Where a closed port is opened without an exception it is open.          *)
LEMMA OpenLeaves ==
  ASSUME NEW h, HandleOK(h), NEW o \in OpenOutcomes(h)
  PROVE  /\ HandleOK(o.handle) /\ o.throws \in BOOLEAN
         /\ ~h.is_open => o.throws = ~o.handle.is_open
<1>1. CASE h.is_open
  <2>1. o = [handle |-> h, throws |-> TRUE] BY <1>1 DEF OpenOutcomes
  <2>2. o.handle = h /\ o.throws = TRUE BY <2>1
  <2>3. HandleOK(o.handle) BY <2>2
  <2>4. o.throws \in BOOLEAN BY <2>2
  <2> QED BY <1>1, <2>2, <2>3, <2>4, Zenon
<1>2. CASE ~h.is_open /\ (~present \/ LeakedAtOpen(h) = MaxFd)
  <2>1. o = [handle |-> [is_open |-> FALSE, fd |-> "none", leaked |-> LeakedAtOpen(h)],
             throws |-> TRUE]
    BY <1>2 DEF OpenOutcomes
  <2>2. /\ o.handle = [is_open |-> FALSE, fd |-> "none", leaked |-> LeakedAtOpen(h)]
        /\ o.throws = TRUE
    BY <2>1
  <2>3. ~o.handle.is_open /\ o.handle.fd = "none" BY <2>2
  <2>4. o.handle \in Handles BY <2>2, LeakedTypes DEF Handles
  <2> QED BY <1>2, <2>2, <2>3, <2>4 DEF HandleOK
<1>3. CASE ~h.is_open /\ ~(~present \/ LeakedAtOpen(h) = MaxFd)
  <2>1. PICK r \in ReconfigureOutcomes :
          o = [handle |-> [is_open |-> ~r.throws, fd |-> r.fd, leaked |-> LeakedAtOpen(h)],
               throws |-> r.throws]
    BY <1>3 DEF OpenOutcomes
  <2>2. r \in {[fd |-> "live", throws |-> FALSE], [fd |-> "dead", throws |-> TRUE],
               [fd |-> "live", throws |-> TRUE]}
    BY DEF ReconfigureOutcomes
  <2>3. r.throws \in BOOLEAN /\ r.fd \in {"live", "dead"} /\ (~r.throws => r.fd = "live")
    <3>1. CASE r = [fd |-> "live", throws |-> FALSE] BY <3>1
    <3>2. CASE r = [fd |-> "dead", throws |-> TRUE] BY <3>2
    <3>3. CASE r = [fd |-> "live", throws |-> TRUE] BY <3>3
    <3> QED BY <2>2, <3>1, <3>2, <3>3
  <2>4. LeakedAtOpen(h) \in 0 .. MaxFd /\ LeakedAtOpen(h) < MaxFd
    BY <1>3, LeakedTypes, SerialAssumption
  <2> QED BY <1>3, <2>1, <2>3, <2>4 DEF HandleOK, Handles
<1> QED BY <1>1, <1>2, <1>3

(* A close() that does not throw leaves the port closed.                   *)
LEMMA CloseLeaves ==
  ASSUME NEW h, HandleOK(h), NEW o \in CloseOutcomes(h)
  PROVE  /\ HandleOK(o.handle) /\ o.throws \in BOOLEAN
         /\ ~o.throws => ~o.handle.is_open
<1>1. CASE ~h.is_open
  <2>1. o = [handle |-> h, throws |-> FALSE] BY <1>1 DEF CloseOutcomes
  <2>2. o.handle = h /\ o.throws = FALSE BY <2>1
  <2> QED BY <1>1, <2>2
<1>2. CASE h.is_open
  <2>1. o \in {[handle |-> [h EXCEPT !.fd = "stale"], throws |-> TRUE],
               [handle |-> [h EXCEPT !.fd = "none", !.is_open = FALSE], throws |-> FALSE]}
    BY <1>2 DEF CloseOutcomes
  <2>2. CASE o = [handle |-> [h EXCEPT !.fd = "stale"], throws |-> TRUE]
    <3>1. o.handle = [h EXCEPT !.fd = "stale"] /\ o.throws = TRUE BY <2>2
    <3> QED BY <1>2, <3>1 DEF HandleOK, Handles
  <2>3. CASE o = [handle |-> [h EXCEPT !.fd = "none", !.is_open = FALSE], throws |-> FALSE]
    <3>1. o.handle = [h EXCEPT !.fd = "none", !.is_open = FALSE] /\ o.throws = FALSE BY <2>3
    <3> QED BY <1>2, <3>1 DEF HandleOK, Handles
  <2> QED BY <2>1, <2>2, <2>3
<1> QED BY <1>1, <1>2

-----------------------------------------------------------------------------
(* What a step that replaces the handle does to the kernel's buffers.      *)
Dropped ==
  /\ UNCHANGED <<present, next, cmd>>
  /\ \/ UNCHANGED <<inq, outq>> /\ cut' = (cut \/ Halfway)
     \/ inq' = <<>> /\ outq' = <<>> /\ cut' = (cut \/ cmd # <<>> \/ Halfway)

(* Every replacement of the handle keeps the buffers or drops both.        *)
LEMMA SetDrops == ASSUME NEW h, Set(h) PROVE handle' = h /\ Dropped
BY DEF Set, Dropped, DropBuffers, KeepBuffers

(* The constructor and the destructor, and what they do.                   *)
OwnerStep == Construct \/ Destroy

LEMMA OwnerEffect ==
  ASSUME TypeOK, HandleInv, OwnerStep
  PROVE  /\ Owner /\ Dropped /\ HandleOK(handle')
         /\ made' \in BOOLEAN /\ crashed' \in BOOLEAN
         /\ ~made' => ~handle'.is_open /\ handle'.fd = "none" /\ AllIdle
<1>0. HandleOK(handle) BY DEF TypeOK, ObjectOK, HandleInv, HandleOK
<1>1. CASE Construct
  <2>1. ~handle.is_open BY <1>1 DEF Construct, HandleInv
  <2>2. PICK o \in OpenOutcomes(handle) :
          /\ made' = ~o.throws
          /\ Set(IF o.throws
                 THEN [o.handle EXCEPT !.fd = "none", !.leaked = LeakedAtOpen(o.handle)]
                 ELSE o.handle)
    BY <1>1 DEF Construct
  <2>3. HandleOK(o.handle) /\ o.throws \in BOOLEAN /\ o.throws = ~o.handle.is_open
    BY <1>0, <2>1, OpenLeaves
  <2>4. Owner /\ crashed' = crashed BY <1>1 DEF Construct
  <2>5. CASE o.throws
    <3> DEFINE h == [o.handle EXCEPT !.fd = "none", !.leaked = LeakedAtOpen(o.handle)]
    <3>1. handle' = h /\ Dropped BY <2>2, <2>5, SetDrops
    <3>2. HandleOK(h) /\ ~h.is_open /\ h.fd = "none"
      BY <2>3, <2>5, LeakedTypes DEF HandleOK, Handles
    <3> QED BY <2>2, <2>3, <2>4, <3>1, <3>2 DEF Owner, TypeOK, ObjectOK
  <2>6. CASE ~o.throws
    <3>1. handle' = o.handle /\ Dropped BY <2>2, <2>6, SetDrops
    <3> QED BY <2>1, <2>2, <2>3, <2>4, <2>6, <3>1 DEF TypeOK, ObjectOK
  <2> QED BY <2>3, <2>5, <2>6
<1>2. CASE Destroy
  <2>1. PICK o \in CloseOutcomes(handle) :
          /\ crashed' = o.throws
          /\ Set([is_open |-> FALSE, fd |-> "none", leaked |-> LeakedAtOpen(o.handle)])
    BY <1>2 DEF Destroy
  <2>2. HandleOK(o.handle) /\ o.throws \in BOOLEAN BY <1>0, CloseLeaves
  <2> DEFINE h == [is_open |-> FALSE, fd |-> "none", leaked |-> LeakedAtOpen(o.handle)]
  <2>3. handle' = h /\ Dropped BY <2>1, SetDrops
  <2>4. HandleOK(h) /\ ~h.is_open /\ h.fd = "none"
    BY <2>2, LeakedTypes DEF HandleOK, Handles
  <2> QED BY <1>2, <2>1, <2>2, <2>3, <2>4 DEF Destroy, Owner
<1> QED BY <1>1, <1>2 DEF OwnerStep

(* open() and close(), and what they do beside the calls of others: every  *)
(* call that is underway is marked, unless the handle is as it was.        *)
OpenerStep == Open \/ Close
Marked ==
  \/ UNCHANGED <<handle, line, moved>>
  \/ /\ Dropped /\ HandleOK(handle')
     /\ moved' = [t \in Thread |-> moved[t] \/ Underway(t)]

LEMMA OpenerEffect ==
  ASSUME TypeOK, HandleInv, OpenerStep
  PROVE  /\ made /\ UNCHANGED <<made, crashed, locks, pc, call, buf, put, late>>
         /\ result' = NoResult /\ Marked
<1>0. HandleOK(handle) BY DEF TypeOK, ObjectOK, HandleInv, HandleOK
<1>1. PICK h : HandleOK(h) /\ Opener(h)
  BY <1>0, OpenLeaves, CloseLeaves DEF OpenerStep, Open, Close
<1>2. Marked
  <2>1. CASE h = handle BY <1>1, <2>1 DEF Opener, Marked
  <2>2. CASE h # handle
    <3>1. handle' = h /\ Dropped BY <1>1, <2>2, SetDrops DEF Opener
    <3> QED BY <1>1, <2>2, <3>1 DEF Opener, Marked
  <2> QED BY <2>1, <2>2
<1> QED BY <1>1, <1>2 DEF Opener

(* setPort() replaces the handle too, with both locks held, and returns.   *)
LEMMA SetPortEffect ==
  ASSUME TypeOK, HandleInv, NEW t \in Thread, SetPort(t)
  PROVE  /\ At(t, "run", {"setPort"}) /\ HandleOK(handle') /\ UNCHANGED <<made, crashed>>
         /\ UNCHANGED <<handle, line>> \/ Dropped
         /\ \E how \in {"ok", "error"} : Return(t, how, <<>>)
<1>0. HandleOK(handle) BY DEF TypeOK, ObjectOK, HandleInv, HandleOK
<1>1. CASE ~handle.is_open
  BY <1>0, <1>1 DEF SetPort
<1>2. CASE handle.is_open
  <2>1. PICK c \in CloseOutcomes(handle) :
            IF c.throws
            THEN Set(c.handle) /\ Throw(t, "error")
            ELSE \E o \in OpenOutcomes(c.handle) :
                   /\ handle' = o.handle
                   /\ IF Live THEN DropBuffers ELSE KeepBuffers
                   /\ UNCHANGED <<present, next, cmd>>
                   /\ Return(t, IF o.throws THEN "error" ELSE "ok", <<>>)
    BY <1>2 DEF SetPort
  <2>2. HandleOK(c.handle) /\ c.throws \in BOOLEAN BY <1>0, CloseLeaves
  <2>3. CASE c.throws
    <3>1. handle' = c.handle /\ Dropped BY <2>1, <2>3, SetDrops
    <3> QED BY <2>1, <2>2, <2>3, <3>1 DEF SetPort, Throw
  <2>4. CASE ~c.throws
    <3>1. PICK o \in OpenOutcomes(c.handle) :
                   /\ handle' = o.handle
                   /\ IF Live THEN DropBuffers ELSE KeepBuffers
                   /\ UNCHANGED <<present, next, cmd>>
                   /\ Return(t, IF o.throws THEN "error" ELSE "ok", <<>>)
      BY <2>1, <2>4
    <3>2. HandleOK(o.handle) BY <2>2, OpenLeaves
    <3>3. Dropped BY <3>1 DEF Dropped, DropBuffers, KeepBuffers
    <3>4. \E how \in {"ok", "error"} : Return(t, how, <<>>) BY <3>1
    <3> QED BY <3>1, <3>2, <3>3, <3>4 DEF SetPort
  <2> QED BY <2>2, <2>3, <2>4
<1> QED BY <1>1, <1>2

-----------------------------------------------------------------------------
(* The two pieces of a split sequence.                                     *)
LEMMA Split ==
  ASSUME NEW S, NEW s \in Seq(S), NEW k \in 0 .. Len(s)
  PROVE  /\ First(k, s) \in Seq(S) /\ Len(First(k, s)) = k
         /\ \A i \in 1 .. k : First(k, s)[i] = s[i]
         /\ Rest(k, s) \in Seq(S) /\ Len(Rest(k, s)) = Len(s) - k
         /\ \A i \in 1 .. Len(s) - k : Rest(k, s)[i] = s[k + i]
         /\ First(k, s) \o Rest(k, s) = s
<1>1. /\ First(k, s) \in Seq(S) /\ Len(First(k, s)) = k
      /\ \A i \in 1 .. k : First(k, s)[i] = s[i]
  BY SubSeqProperties DEF First
<1>2. /\ Rest(k, s) \in Seq(S) /\ Len(Rest(k, s)) = Len(s) - k
      /\ \A i \in 1 .. Len(s) - k : Rest(k, s)[i] = s[k + i]
  BY SubSeqProperties DEF Rest
<1>3. First(k, s) \o Rest(k, s) = s
  <2>1. 1 \in 1 .. Len(s) + 1 /\ k \in 1 - 1 .. Len(s) /\ Len(s) \in k .. Len(s)
    BY LenProperties
  <2>2. SubSeq(s, 1, k) \o SubSeq(s, k + 1, Len(s)) = SubSeq(s, 1, Len(s))
    BY <2>1, ConcatAdjacentSubSeq
  <2> QED BY <2>2, SubSeqFull DEF First, Rest
<1> QED BY <1>1, <1>2, <1>3

(* ::read moves k bytes from the kernel to the call, all that are missing  *)
(* or all that there are.                                                  *)
Taken(t, k) ==
  /\ k \in 0 .. Len(inq) /\ (k > 0 => Live) /\ k <= Missing(t)
  /\ Goto(t, IF k = Missing(t) THEN "got" ELSE "loop")
  /\ buf' = [buf EXCEPT ![t] = @ \o First(k, inq)]
  /\ inq' = Rest(k, inq)
  /\ UNCHANGED <<object, present, next, outq, cmd, cut, put, moved>>

(* A ::read that is still to be made is such a move.                       *)
LEMMA TakeEffect ==
  ASSUME TypeOK, PollInv, NEW t \in Thread, call[t] \in Reads, pc[t] # "got", Take(t)
  PROVE  \E k \in Nat : Taken(t, k)
<1> DEFINE k == IF Live THEN Smaller(Missing(t), Len(inq)) ELSE 0
<1>1. Missing(t) \in Nat \ {0}
  BY SerialAssumption DEF TypeOK, CallsOK, PollInv, PollOK, Missing, Reads
<1>2. Len(inq) \in Nat BY DEF TypeOK, LineOK
<1>3. k \in 0 .. Len(inq) /\ (k > 0 => Live) /\ k <= Missing(t) BY <1>1, <1>2 DEF Smaller
<1>4. Taken(t, k) BY <1>3 DEF Taken, Take
<1> QED BY <1>2, <1>3, <1>4

(* No result is one.                                                       *)
LEMMA NoResultTypes == NoResult \in Results
<1>1. <<>> \in Seq(Bytes) /\ FALSE \in BOOLEAN OBVIOUS
<1> QED BY <1>1 DEF NoResult, Results

(* What every return to a caller leaves.                                   *)
LEMMA ReturnTypes ==
  ASSUME CallsOK, NEW t \in Thread, NEW how \in {"ok", "timeout", "closed", "error", "gone"},
         NEW d \in Seq(Bytes), Return(t, how, d)
  PROVE  CallsOK'
<1>1. late' \in [Thread -> BOOLEAN] BY Zenon DEF CallsOK, Return
<1>2. <<>> \in Seq(Bytes) OBVIOUS
<1>3. put' \in [Thread -> 0 .. Command] BY SerialAssumption DEF CallsOK, Return
<1>4. moved' \in [Thread -> BOOLEAN] BY Zenon DEF CallsOK, Return
<1>5. moved[t] \in BOOLEAN BY Zenon DEF CallsOK
<1>6. result' \in Results BY <1>5 DEF CallsOK, Return, Results
<1> QED BY <1>1, <1>2, <1>3, <1>4, <1>6 DEF CallsOK, Return, Pcs, Calls

-----------------------------------------------------------------------------
(* Every action preserves the types.                                       *)
LEMMA TypeStep == TypeOK /\ HandleInv /\ PollInv /\ LockInv /\ [Next]_vars => TypeOK'
<1> SUFFICES ASSUME TypeOK, HandleInv, PollInv, LockInv, [Next]_vars PROVE TypeOK'
  OBVIOUS
<1> USE SerialAssumption DEF TypeOK
<1>0. NoResult \in Results BY NoResultTypes
<1>1. ASSUME Dropped PROVE LineOK'
  <2>1. cut' \in BOOLEAN BY <1>1, Zenon DEF Dropped, LineOK
  <2>2. <<>> \in Seq(Bytes) /\ <<>> \in Seq(Written) /\ Len(<<>>) = 0 OBVIOUS
  <2>3. UNCHANGED <<present, next, cmd>>
        /\ (UNCHANGED <<inq, outq>> \/ (inq' = <<>> /\ outq' = <<>>))
    BY <1>1 DEF Dropped
  <2>4. present' \in BOOLEAN /\ next' \in Bytes /\ cmd' \in Seq(Written)
    BY <2>3, Zenon DEF LineOK
  <2>5. /\ inq' \in Seq(Bytes) /\ Len(inq') <= InSize
        /\ outq' \in Seq(Written) /\ Len(outq') <= OutSize
    <3>1. CASE UNCHANGED <<inq, outq>> BY <3>1 DEF LineOK
    <3>2. CASE inq' = <<>> /\ outq' = <<>>
      <4>1. 0 <= InSize /\ 0 <= OutSize OBVIOUS
      <4> QED BY <2>2, <3>2, <4>1, Zenon
    <3> QED BY <2>3, <3>1, <3>2
  <2> QED BY <2>1, <2>4, <2>5 DEF LineOK
<1>2. ASSUME HandleOK(handle'), made' \in BOOLEAN, crashed' \in BOOLEAN PROVE ObjectOK'
  BY <1>2 DEF HandleOK, ObjectOK
<1>3. CASE OwnerStep
  <2>1. CallsOK' BY <1>0, <1>3, OwnerEffect DEF Owner, locks, locals, CallsOK
  <2> QED BY <1>1, <1>2, <1>3, <2>1, OwnerEffect
<1>a. CASE OpenerStep
  <2>1. /\ UNCHANGED <<made, crashed, rlock, wlock, pc, call, buf, put, late>>
        /\ result' = NoResult /\ Marked
    BY <1>a, OpenerEffect DEF locks
  <2>2. moved' \in [Thread -> BOOLEAN]
    <3>1. CASE moved' = [t \in Thread |-> moved[t] \/ Underway(t)] BY <3>1, Zenon
    <3> QED BY <2>1, <3>1 DEF Marked, CallsOK
  <2>3. CallsOK' BY <1>0, <2>1, <2>2 DEF CallsOK
  <2>4. ObjectOK' /\ LineOK' BY <1>1, <1>2, <2>1 DEF Marked, line, ObjectOK, LineOK
  <2> QED BY <2>3, <2>4
<1>4. ASSUME NEW t \in Thread, NEW c \in Calls, Enter(t, c) PROVE TypeOK'
  <2>1. Wanted(c, FALSE, FALSE) \in Pcs BY DEF Wanted, Pcs
  <2>2. ObjectOK' /\ LineOK' BY <1>4 DEF Enter, ObjectOK, LineOK, object, line
  <2>3. CallsOK' BY <1>0, <1>4, <2>1 DEF Enter, CallsOK, locks, locals
  <2> QED BY <2>2, <2>3
<1>5. ASSUME NEW t \in Thread, Step(t) PROVE TypeOK'
  <2>1. ASSUME Stays PROVE ObjectOK' /\ LineOK'
    BY <2>1 DEF Stays, ObjectOK, LineOK, object, line
  <2>2. ASSUME NEW l \in Pcs, Goto(t, l), UNCHANGED locals PROVE CallsOK'
    BY <1>0, <2>2 DEF Goto, CallsOK, locks, locals
  <2>3. ASSUME UNCHANGED object PROVE ObjectOK' BY <2>3 DEF ObjectOK, object
  <2>4. <<>> \in Seq(Bytes) /\ <<>> \in Seq(Written) /\ Len(<<>>) = 0 OBVIOUS
  <2>5. ASSUME Take(t), call[t] \in Reads, pc[t] # "got", late' \in [Thread -> BOOLEAN]
        PROVE TypeOK'
    <3>1. PICK k \in Nat : Taken(t, k) BY <2>5, TakeEffect
    <3>2. /\ First(k, inq) \in Seq(Bytes) /\ Rest(k, inq) \in Seq(Bytes)
          /\ Len(Rest(k, inq)) = Len(inq) - k
      <4>1. k \in 0 .. Len(inq) /\ inq \in Seq(Bytes) BY <3>1 DEF Taken, LineOK
      <4> QED BY <4>1, Split
    <3>3. LineOK' BY <3>1, <3>2 DEF Taken, LineOK
    <3>4. buf[t] \o First(k, inq) \in Seq(Bytes) BY <3>2, ConcatProperties DEF CallsOK
    <3>5. CallsOK' BY <1>0, <2>5, <3>1, <3>4 DEF Taken, Goto, CallsOK, locks, Pcs
    <3> QED BY <2>3, <3>1, <3>3, <3>5 DEF Taken
  <2>6. CASE LockRead(t)
    <3>1. Wanted(call[t], TRUE, wlock = t) \in Pcs BY DEF Wanted, Pcs
    <3>2. ObjectOK' /\ LineOK' BY <2>6 DEF LockRead, ObjectOK, LineOK, object, line
    <3>3. CallsOK' BY <1>0, <2>6, <3>1 DEF LockRead, CallsOK, locals
    <3> QED BY <3>2, <3>3
  <2>7. CASE LockWrite(t)
    <3>1. Wanted(call[t], rlock = t, TRUE) \in Pcs BY DEF Wanted, Pcs
    <3>2. ObjectOK' /\ LineOK' BY <2>7 DEF LockWrite, ObjectOK, LineOK, object, line
    <3>3. CallsOK' BY <1>0, <2>7, <3>1 DEF LockWrite, CallsOK, locals
    <3> QED BY <3>2, <3>3
  <2>8. CASE NotOpen(t) BY <2>1, <2>4, <2>8, ReturnTypes DEF NotOpen, Throw
  <2>9. CASE ReadBegins(t)
    <3>1. late' \in [Thread -> BOOLEAN] BY <2>9, Zenon DEF ReadBegins, CallsOK
    <3> QED BY <2>5, <2>9, <3>1 DEF ReadBegins, At
  <2>10. CASE ReadTimesOut(t)
    <3>1. buf[t] \in Seq(Bytes) BY DEF CallsOK
    <3> QED BY <2>1, <2>10, <3>1, ReturnTypes DEF ReadTimesOut
  <2>11. CASE WaitReadable(t)
    <3>1. "ready" \in Pcs BY DEF Pcs
    <3>2. CASE Goto(t, "ready") /\ UNCHANGED locals
      BY <2>1, <2>2, <2>11, <3>1, <3>2 DEF WaitReadable
    <3>3. CASE Throw(t, "error")
      BY <2>1, <2>4, <2>11, <3>3, ReturnTypes DEF WaitReadable, Throw
    <3> QED BY <2>11, <3>2, <3>3 DEF WaitReadable
  <2>12. CASE ReadReady(t)
    <3>1. CASE Take(t) /\ UNCHANGED late
      BY <2>5, <2>12, <3>1 DEF ReadReady, At, CallsOK
    <3>2. CASE (Throw(t, "gone") \/ Throw(t, "error")) /\ Stays
      BY <2>1, <2>4, <3>2, ReturnTypes DEF Throw
    <3> QED BY <2>12, <3>1, <3>2 DEF ReadReady
  <2>13. CASE ReadGot(t)
    <3>1. buf[t] \in Seq(Bytes) /\ "run" \in Pcs BY DEF CallsOK, Pcs
    <3>2. CASE Return(t, "ok", buf[t])
      BY <2>1, <2>13, <3>1, <3>2, ReturnTypes DEF ReadGot
    <3>3. CASE Goto(t, "run") /\ UNCHANGED locals
      BY <2>1, <2>2, <2>13, <3>1, <3>3 DEF ReadGot
    <3> QED BY <2>13, <3>2, <3>3 DEF ReadGot
  <2>14. CASE WriteBegins(t)
    <3>1. "select" \in Pcs BY DEF Pcs
    <3> QED BY <2>1, <2>2, <2>14, <3>1 DEF WriteBegins
  <2>15. CASE WriteTimesOut(t)
    <3>1. CallsOK' BY <2>4, <2>15, ReturnTypes DEF WriteTimesOut
    <3>2. cut' \in BOOLEAN BY <2>15, Zenon DEF WriteTimesOut, LineOK
    <3>3. LineOK' BY <2>15, <3>2 DEF WriteTimesOut, LineOK
    <3> QED BY <2>3, <2>15, <3>1, <3>3 DEF WriteTimesOut
  <2>16. CASE WriteSome(t)
    <3>1. PICK k \in 1 .. Smaller(Command - put[t], OutSize - Len(outq)) :
            /\ outq' = outq \o [i \in 1 .. k |-> <<t, put[t] + i>>]
            /\ IF put[t] + k = Command
               THEN Return(t, "ok", <<>>)
               ELSE /\ Goto(t, "again")
                    /\ put' = [put EXCEPT ![t] = @ + k]
                    /\ UNCHANGED <<buf, late, moved>>
      BY <2>16 DEF WriteSome
    <3>2. put[t] \in 0 .. Command /\ Len(outq) \in Nat BY DEF CallsOK, LineOK
    <3>3. k \in Nat /\ put[t] + k <= Command /\ Len(outq) + k <= OutSize
      BY <3>1, <3>2 DEF Smaller
    <3>4. [i \in 1 .. k |-> <<t, put[t] + i>>] \in Seq(Written)
          /\ Len([i \in 1 .. k |-> <<t, put[t] + i>>]) = k
      BY <3>2, <3>3 DEF Written
    <3>5. outq' \in Seq(Written) /\ Len(outq') = Len(outq) + k
      BY <3>1, <3>4, ConcatProperties DEF LineOK
    <3>6. LineOK' BY <2>16, <3>3, <3>5 DEF WriteSome, LineOK
    <3>7. CallsOK'
      <4>1. CASE Return(t, "ok", <<>>) BY <2>4, <4>1, ReturnTypes
      <4>2. CASE Goto(t, "again") /\ put' = [put EXCEPT ![t] = @ + k] /\ UNCHANGED <<buf, late, moved>>
        <5>1. put' \in [Thread -> 0 .. Command] BY <3>2, <3>3, <4>2 DEF CallsOK
        <5> QED BY <1>0, <4>2, <5>1 DEF Goto, CallsOK, locks, Pcs
      <4> QED BY <3>1, <4>1, <4>2
    <3> QED BY <2>3, <2>16, <3>6, <3>7 DEF WriteSome
  <2>17. CASE WriteThrows(t)
    <3>1. CallsOK' BY <2>4, <2>17, ReturnTypes DEF WriteThrows, Throw
    <3>2. cut' \in BOOLEAN BY <2>17, Zenon DEF WriteThrows, LineOK
    <3>3. LineOK' BY <2>17, <3>2 DEF WriteThrows, LineOK
    <3> QED BY <2>3, <2>17, <3>1, <3>3 DEF WriteThrows
  <2>18. CASE Flush(t) BY <2>1, <2>4, <2>18, ReturnTypes DEF Flush
  <2>19. CASE FlushInput(t)
    <3>1. LineOK' BY <2>4, <2>19 DEF FlushInput, LineOK
    <3> QED BY <2>3, <2>4, <2>19, <3>1, ReturnTypes DEF FlushInput
  <2>20. CASE FlushOutput(t)
    <3>1. cut' \in BOOLEAN BY <2>20, Zenon DEF FlushOutput, LineOK
    <3>2. LineOK' BY <2>4, <2>20, <3>1 DEF FlushOutput, LineOK
    <3> QED BY <2>3, <2>4, <2>20, <3>2, ReturnTypes DEF FlushOutput
  <2>21. CASE SetPort(t)
    <3>1. PICK how \in {"ok", "error"} : Return(t, how, <<>>) BY <2>21, SetPortEffect
    <3>2. CallsOK' BY <2>4, <3>1, ReturnTypes
    <3>3. HandleOK(handle') /\ UNCHANGED <<made, crashed>>
          /\ (UNCHANGED <<handle, line>> \/ Dropped)
      BY <2>21, SetPortEffect
    <3>4. LineOK' BY <1>1, <3>3 DEF line, LineOK
    <3>5. ObjectOK' BY <1>2, <3>3 DEF ObjectOK
    <3> QED BY <3>2, <3>4, <3>5
  <2>22. CASE Abort(t)
    <3>1. cut' \in BOOLEAN /\ made' \in BOOLEAN /\ crashed' \in BOOLEAN
      BY <2>22, Zenon DEF Abort, LineOK
    <3>2. LineOK'
      <4>1. /\ inq' = <<>> /\ outq' = <<>> /\ UNCHANGED <<present, next, cmd>>
        BY <2>22 DEF Abort
      <4>2. 0 <= InSize /\ 0 <= OutSize OBVIOUS
      <4>3. inq' \in Seq(Bytes) /\ outq' \in Seq(Written) /\ Len(inq') = 0 /\ Len(outq') = 0
        BY <2>4, <4>1, Zenon
      <4> QED BY <3>1, <4>1, <4>2, <4>3 DEF LineOK
    <3>3. ObjectOK' BY <2>22, <3>1 DEF Abort, ObjectOK, Handles
    <3>4. late' \in [Thread -> BOOLEAN] /\ moved' \in [Thread -> BOOLEAN]
      BY <2>22, Zenon DEF Abort
    <3>5. CallsOK' BY <1>0, <2>4, <2>22, <3>4 DEF Abort, CallsOK, Pcs
    <3> QED BY <3>2, <3>3, <3>5
  <2> QED
    BY <1>5, <2>6, <2>7, <2>8, <2>9, <2>10, <2>11, <2>12, <2>13, <2>14, <2>15, <2>16, <2>17,
       <2>18, <2>19, <2>20, <2>21, <2>22 DEF Step, Read, Write
<1>6. CASE Environment
  <2>1. CASE \E t \in Thread : Expire(t)
    <3>1. PICK t \in Thread : Expire(t) BY <2>1
    <3>2. late' = [late EXCEPT ![t] = TRUE] BY <3>1 DEF Expire
    <3>3. late' \in [Thread -> BOOLEAN] BY <3>2, Zenon DEF CallsOK
    <3> QED BY <1>0, <3>1, <3>3 DEF Expire, Outside, ObjectOK, LineOK, CallsOK, locks, line
  <2>2. CASE Arrive
    <3>1. next \in 0 .. M - 1 /\ (next + 1) % M \in 0 .. M - 1 BY DEF LineOK, Bytes
    <3>2. LineOK' BY <2>2, <3>1, AppendProperties DEF Arrive, LineOK, Bytes
    <3> QED BY <1>0, <2>2, <3>2 DEF Arrive, Outside, ObjectOK, CallsOK, locks
  <2>3. CASE DeviceTakes
    <3>1. /\ Head(outq) \in Written /\ Tail(outq) \in Seq(Written)
          /\ Len(Tail(outq)) = Len(outq) - 1
      BY <2>3, HeadTailProperties DEF DeviceTakes, LineOK
    <3>2. cut' \in BOOLEAN BY <2>3, Zenon DEF DeviceTakes, LineOK
    <3>3. cmd' \in Seq(Written)
      BY <2>3, <3>1, AppendProperties DEF DeviceTakes, LineOK
    <3>4. LineOK' BY <2>3, <3>1, <3>2, <3>3 DEF DeviceTakes, LineOK
    <3> QED BY <1>0, <2>3, <3>4 DEF DeviceTakes, Outside, ObjectOK, CallsOK, locks
  <2>4. CASE Hangup
    <3>1. present' \in BOOLEAN /\ cut' \in BOOLEAN BY <2>4, Zenon DEF Hangup
    <3>2. LineOK' BY <2>4, <3>1 DEF Hangup, LineOK
    <3>3. ObjectOK' BY <2>4 DEF Hangup, Outside, ObjectOK, Handles
    <3> QED BY <1>0, <2>4, <3>2, <3>3 DEF Hangup, Outside, CallsOK, locks
  <2>5. CASE Attach
    <3>1. present' \in BOOLEAN BY <2>5, Zenon DEF Attach
    <3> QED BY <1>0, <2>5, <3>1 DEF Attach, Outside, ObjectOK, LineOK, CallsOK, locks
  <2> QED BY <1>6, <2>1, <2>2, <2>3, <2>4, <2>5 DEF Environment
<1>7. CASE UNCHANGED vars
  BY <1>7 DEF vars, object, line, locks, locals, ObjectOK, LineOK, CallsOK
<1> QED BY <1>3, <1>a, <1>4, <1>5, <1>6, <1>7 DEF Next, OwnerStep, OpenerStep

(* Every action preserves HandleInv.                                       *)
LEMMA HandleStep == TypeOK /\ HandleInv /\ PollInv /\ [Next]_vars => HandleInv'
<1> SUFFICES ASSUME TypeOK, HandleInv, PollInv, [Next]_vars PROVE HandleInv'
  OBVIOUS
<1>1. CASE OwnerStep
  BY <1>1, OwnerEffect DEF HandleOK, HandleInv, Owner, AllIdle
<1>a. CASE OpenerStep
  BY <1>a, OpenerEffect DEF Marked, HandleOK, HandleInv
<1>2. ASSUME NEW t \in Thread, NEW c \in Calls, Enter(t, c) PROVE HandleInv'
  BY <1>2 DEF Enter, HandleInv, object
<1>3. ASSUME NEW t \in Thread, Step(t) PROVE HandleInv'
  <2>1. pc[t] # "idle"
    BY <1>3 DEF Step, LockRead, LockWrite, NotOpen, Abort, Read, ReadBegins, ReadTimesOut,
       WaitReadable, ReadReady, ReadGot, Write, WriteBegins, WriteTimesOut, WriteSome,
       WriteThrows, Flush, FlushInput, FlushOutput, SetPort, At
  <2>2. made BY <2>1 DEF HandleInv, AllIdle
  <2>3. CASE SetPort(t)
    BY <2>2, <2>3, SetPortEffect DEF HandleOK, HandleInv
  <2>a. CASE Abort(t)
    <3>1. handle.is_open = FALSE BY <2>a DEF Abort, TypeOK, ObjectOK, Handles
    <3>2. handle'.is_open = FALSE /\ handle'.fd = "none"
      BY <2>a, <3>1 DEF Abort, TypeOK, ObjectOK, Handles
    <3>3. AllIdle' BY <2>a DEF Abort, AllIdle
    <3> QED BY <3>2, <3>3 DEF HandleInv
  <2>4. CASE ~SetPort(t) /\ ~Abort(t)
    <3>1. UNCHANGED <<handle, made>>
      BY <1>3, <2>4 DEF Step, LockRead, LockWrite, NotOpen, Read, ReadBegins, ReadTimesOut,
         WaitReadable, ReadReady, ReadGot, Write, WriteBegins, WriteTimesOut, WriteSome,
         WriteThrows, Flush, FlushInput, FlushOutput, Stays, object, Take
    <3> QED BY <2>2, <3>1 DEF HandleInv
  <2> QED BY <2>3, <2>a, <2>4
<1>4. CASE Environment
  BY <1>4 DEF Environment, Expire, Arrive, DeviceTakes, Hangup, Attach, Outside, HandleInv,
     AllIdle, Live, TypeOK, ObjectOK, Handles
<1>5. CASE UNCHANGED vars BY <1>5 DEF vars, object, HandleInv, AllIdle
<1> QED BY <1>1, <1>a, <1>2, <1>3, <1>4, <1>5 DEF Next, OwnerStep, OpenerStep

(* A return gives up all locks; a step within a call keeps them.           *)
LEMMA ReturnLocks ==
  ASSUME TypeOK, LockInv, NEW t \in Thread, NEW how, NEW d, Return(t, how, d)
  PROVE  LockInv'
BY SerialAssumption DEF TypeOK, CallsOK, LockInv, LockOK, Return, ReadLocked, WriteLocked

(* Where a call may be once it has its locks.                              *)
Within(c) ==
  CASE c \in Reads -> {"run", "loop", "ready", "got"}
    [] c = "write" -> {"run", "select", "again"}
    [] OTHER -> {"run"}

(* A step that stays between a call's lock and its return keeps them.      *)
LEMMA GotoLocks ==
  ASSUME TypeOK, LockInv, NEW t \in Thread, call[t] # "none", pc[t] \in Within(call[t]),
         NEW l \in Within(call[t]), Goto(t, l)
  PROVE  LockInv'
<1>1. UNCHANGED <<call, rlock, wlock>> /\ \A u \in Thread : pc'[u] = IF u = t THEN l ELSE pc[u]
  BY DEF TypeOK, CallsOK, Goto, locks
<1> SUFFICES ASSUME NEW u \in Thread PROVE LockOK(u)'
  BY DEF LockInv
<1>2. LockOK(u) /\ LockOK(t) BY DEF LockInv
<1>3. CASE u # t BY <1>1, <1>2, <1>3 DEF LockOK
<1>4. CASE u = t
  <2>1. pc'[t] = l BY <1>1
  <2> QED BY <1>1, <1>2, <1>4, <2>1 DEF LockOK, Within, Reads, ReadLocked, WriteLocked
<1> QED BY <1>3, <1>4

(* Every action preserves LockInv.                                         *)
LEMMA LockStep == TypeOK /\ HandleInv /\ PollInv /\ LockInv /\ [Next]_vars => LockInv'
<1> SUFFICES ASSUME TypeOK, HandleInv, PollInv, LockInv, [Next]_vars PROVE LockInv'
  OBVIOUS
<1>1. CASE OwnerStep BY <1>1, OwnerEffect DEF Owner, locks, LockInv, LockOK
<1>a. CASE OpenerStep BY <1>a, OpenerEffect DEF locks, LockInv, LockOK
<1>b. ASSUME NEW t \in Thread, Abort(t) PROVE LockInv'
  BY <1>b, SerialAssumption DEF Abort, LockInv, LockOK, ReadLocked, WriteLocked
<1>2. ASSUME NEW t \in Thread, NEW c \in Calls, Enter(t, c) PROVE LockInv'
  <2>1. Wanted(c, FALSE, FALSE) = IF c \in ReadLocked THEN "rlock" ELSE "wlock"
    <3>1. CASE c \in ReadLocked BY <3>1 DEF Wanted, ReadLocked
    <3>2. CASE c \in {"write", "flushOutput"} BY <3>2 DEF Wanted, ReadLocked
    <3> QED BY <3>1, <3>2 DEF Calls, ReadLocked
  <2>2. pc'[t] = Wanted(c, FALSE, FALSE) /\ call'[t] = c /\ rlock # t /\ wlock # t
    BY <1>2 DEF TypeOK, CallsOK, Enter, LockInv, LockOK, ReadLocked, WriteLocked
  <2>3. UNCHANGED <<rlock, wlock>>
        /\ \A u \in Thread \ {t} : pc'[u] = pc[u] /\ call'[u] = call[u]
    BY <1>2 DEF TypeOK, CallsOK, Enter, locks
  <2> SUFFICES ASSUME NEW u \in Thread PROVE LockOK(u)'
    BY DEF LockInv
  <2>4. CASE u = t
    BY <2>1, <2>2, <2>3, <2>4 DEF LockOK, Calls, ReadLocked, WriteLocked, Reads
  <2>5. CASE u # t BY <2>3, <2>5 DEF LockOK, LockInv
  <2> QED BY <2>4, <2>5
<1>3. ASSUME NEW t \in Thread, LockRead(t) PROVE LockInv'
  BY <1>3, SerialAssumption DEF TypeOK, CallsOK, LockRead, LockInv, LockOK, Wanted,
     ReadLocked, WriteLocked, Reads
<1>4. ASSUME NEW t \in Thread, LockWrite(t) PROVE LockInv'
  <2>1. call[t] \in WriteLocked /\ (rlock = t <=> call[t] \in ReadLocked) /\ wlock # t
    BY <1>4 DEF LockWrite, LockInv, LockOK, WriteLocked
  <2>2. Wanted(call[t], rlock = t, TRUE) = "run"
    BY <2>1 DEF Wanted, ReadLocked, WriteLocked
  <2>3. pc'[t] = "run" /\ \A u \in Thread \ {t} : pc'[u] = pc[u]
    BY <1>4, <2>2 DEF LockWrite, TypeOK, CallsOK
  <2>4. UNCHANGED <<rlock, call>> /\ wlock' = t /\ wlock = NoThread BY <1>4 DEF LockWrite
  <2> SUFFICES ASSUME NEW u \in Thread PROVE LockOK(u)'
    BY DEF LockInv
  <2>5. CASE u = t
    BY <2>1, <2>3, <2>4, <2>5 DEF LockOK, ReadLocked, WriteLocked, Reads
  <2>6. CASE u # t BY <2>3, <2>4, <2>6, SerialAssumption DEF LockOK, LockInv
  <2> QED BY <2>5, <2>6
<1>5. ASSUME NEW t \in Thread, Read(t) PROVE LockInv'
  <2>1. CASE ReadTimesOut(t) BY <2>1, ReturnLocks DEF ReadTimesOut
  <2>2. ASSUME Take(t), call[t] \in Reads, pc[t] \in {"run", "ready"} PROVE LockInv'
    BY <2>2, GotoLocks DEF Take, Within, Reads
  <2>3. CASE ReadBegins(t) BY <2>2, <2>3 DEF ReadBegins, At
  <2>4. CASE WaitReadable(t)
    BY <2>4, ReturnLocks, GotoLocks DEF WaitReadable, Throw, At, Within, Reads
  <2>5. CASE ReadReady(t) BY <2>2, <2>5, ReturnLocks DEF ReadReady, Throw, At
  <2>6. CASE ReadGot(t) BY <2>6, ReturnLocks, GotoLocks DEF ReadGot, At, Within, Reads
  <2> QED BY <1>5, <2>1, <2>3, <2>4, <2>5, <2>6 DEF Read
<1>6. ASSUME NEW t \in Thread, Write(t) PROVE LockInv'
  <2>1. CASE WriteBegins(t) BY <2>1, GotoLocks DEF WriteBegins, At, Writes, Within, Reads
  <2>2. CASE WriteTimesOut(t) BY <2>2, ReturnLocks DEF WriteTimesOut
  <2>3. CASE WriteSome(t)
    <3>1. call[t] = "write" /\ pc[t] \in {"select", "again"} BY <2>3 DEF WriteSome, LockInv, LockOK
    <3> QED BY <2>3, <3>1, ReturnLocks, GotoLocks DEF WriteSome, Within, Reads
  <2>4. CASE WriteThrows(t) BY <2>4, ReturnLocks DEF WriteThrows, Throw
  <2> QED BY <1>6, <2>1, <2>2, <2>3, <2>4 DEF Write
<1>7. ASSUME NEW t \in Thread, NotOpen(t) \/ Flush(t) \/ FlushInput(t) \/ FlushOutput(t)
      PROVE LockInv'
  BY <1>7, ReturnLocks DEF NotOpen, Throw, Flush, FlushInput, FlushOutput
<1>8. ASSUME NEW t \in Thread, SetPort(t) PROVE LockInv'
  BY <1>8, SetPortEffect, ReturnLocks
<1>9. CASE Environment
  BY <1>9 DEF Environment, Expire, Arrive, DeviceTakes, Hangup, Attach, Outside, locks,
     LockInv, LockOK
<1>10. CASE UNCHANGED vars BY <1>10 DEF vars, locks, LockInv, LockOK
<1> QED
  BY <1>1, <1>a, <1>b, <1>2, <1>3, <1>4, <1>5, <1>6, <1>7, <1>8, <1>9, <1>10
  DEF Next, OwnerStep, OpenerStep, Step

(* What the others rely on is safe from a call that only changes what its  *)
(* locks protect.                                                          *)
LEMMA OthersPoll ==
  ASSUME TypeOK, LockInv, PollInv, NEW t \in Thread, NEW u \in Thread \ {t},
         pc'[u] = pc[u], call'[u] = call[u], buf'[u] = buf[u], put'[u] = put[u],
         moved'[u] = moved[u],
         rlock' = rlock \/ rlock = t \/ rlock = NoThread,
         inq' = inq \/ rlock = t, handle' = handle \/ (rlock = t /\ wlock = t)
  PROVE  PollOK(u)'
<1>1. PollOK(u) /\ LockOK(u) /\ u # NoThread BY SerialAssumption DEF PollInv, LockInv
<1>2. pc[u] \in {"loop", "ready", "got"} => rlock = u BY <1>1 DEF LockOK, Reads, ReadLocked
<1>3. pc[u] \in {"select", "again"} => wlock = u BY <1>1 DEF LockOK, WriteLocked
<1>4. buf[u] # <<>> => rlock = u BY <1>1 DEF PollOK
<1>5. put[u] # 0 => wlock = u BY <1>1, <1>3 DEF PollOK
<1> QED BY <1>1, <1>2, <1>3, <1>4, <1>5 DEF PollOK, Live

(* A return preserves PollInv: the call keeps nothing.                     *)
LEMMA ReturnPoll ==
  ASSUME TypeOK, LockInv, PollInv, NEW t \in Thread, NEW how, NEW d, Return(t, how, d),
         inq' = inq \/ rlock = t, handle' = handle \/ (rlock = t /\ wlock = t)
  PROVE  PollInv'
<1> SUFFICES ASSUME NEW u \in Thread PROVE PollOK(u)'
  BY DEF PollInv
<1>1. CASE u = t
  BY <1>1 DEF Return, PollOK, TypeOK, CallsOK
<1>2. CASE u # t
  <2>1. /\ pc'[u] = pc[u] /\ call'[u] = call[u] /\ buf'[u] = buf[u] /\ put'[u] = put[u]
        /\ moved'[u] = moved[u]
    BY <1>2 DEF Return, TypeOK, CallsOK
  <2>2. rlock' = rlock \/ rlock = t BY DEF Return
  <2> QED BY <1>2, <2>1, <2>2, OthersPoll
<1> QED BY <1>1, <1>2

(* A ::read preserves PollInv.                                             *)
LEMMA TakePoll ==
  ASSUME TypeOK, LockInv, PollInv, NEW t \in Thread, call[t] \in Reads,
         pc[t] \in {"run", "ready"}, Take(t)
  PROVE  PollInv'
<1>1. PICK k \in Nat : Taken(t, k) BY TakeEffect
<1>2. rlock = t BY DEF LockInv, LockOK, Reads, ReadLocked
<1>3. /\ First(k, inq) \in Seq(Bytes) /\ Len(First(k, inq)) = k
      /\ buf[t] \in Seq(Bytes) /\ Len(buf[t]) \in Nat
  BY <1>1, Split DEF Taken, TypeOK, LineOK, CallsOK
<1>4. Len(buf[t] \o First(k, inq)) = Len(buf[t]) + k
  <2>1. Len(buf[t] \o First(k, inq)) = Len(buf[t]) + Len(First(k, inq))
    BY <1>3, ConcatProperties
  <2> QED BY <1>3, <2>1
<1> SUFFICES ASSUME NEW u \in Thread PROVE PollOK(u)'
  BY DEF PollInv
<1>5. CASE u = t
  <2>1. /\ pc'[t] = IF k = Missing(t) THEN "got" ELSE "loop"
        /\ UNCHANGED <<call, rlock, put, handle>>
        /\ Len(buf'[t]) = Len(buf[t]) + k
    BY <1>1, <1>4 DEF Taken, Goto, locks, object, TypeOK, CallsOK
  <2>2. call[t] = "read" /\ pc'[t] # "got" => Len(buf'[t]) < ReadSize
    BY <1>1, <1>3, <2>1, SerialAssumption DEF Taken, Missing
  <2>3. put[t] = 0 BY DEF PollInv, PollOK
  <2> QED BY <1>2, <1>5, <2>1, <2>2, <2>3 DEF PollOK
<1>6. CASE u # t
  <2>1. /\ pc'[u] = pc[u] /\ call'[u] = call[u] /\ buf'[u] = buf[u] /\ put'[u] = put[u]
        /\ moved'[u] = moved[u]
    BY <1>1, <1>6 DEF Taken, Goto, TypeOK, CallsOK
  <2>2. UNCHANGED <<rlock, handle>> BY <1>1 DEF Taken, Goto, locks, object
  <2> QED BY <1>2, <1>6, <2>1, <2>2, OthersPoll
<1> QED BY <1>5, <1>6

(* A step within a call that changes nothing but where the call is.        *)
LEMMA GotoPoll ==
  ASSUME TypeOK, LockInv, PollInv, NEW t \in Thread, NEW l \in {"ready", "run", "select"},
         Goto(t, l), UNCHANGED <<locals, handle, inq>>, put[t] = 0,
         l = "ready" => handle.fd \in {"live", "dead"} /\ (Live => inq # <<>>),
         call[t] = "read" => Len(buf[t]) < ReadSize
  PROVE  PollInv'
<1> SUFFICES ASSUME NEW u \in Thread PROVE PollOK(u)'
  BY DEF PollInv
<1>1. CASE u = t
  BY <1>1 DEF Goto, locks, locals, PollInv, PollOK, TypeOK, CallsOK, Live
<1>2. CASE u # t
  <2>1. /\ pc'[u] = pc[u] /\ call'[u] = call[u] /\ buf'[u] = buf[u] /\ put'[u] = put[u]
        /\ moved'[u] = moved[u]
    BY <1>2 DEF Goto, locals, TypeOK, CallsOK
  <2> QED BY <1>2, <2>1, OthersPoll DEF Goto, locks
<1> QED BY <1>1, <1>2

(* Every action preserves PollInv: the kernel's input buffer shrinks only  *)
(* under read_mutex, unless the port is closed, which marks the call.      *)
LEMMA PollStep == TypeOK /\ HandleInv /\ PollInv /\ LockInv /\ [Next]_vars => PollInv'
<1> SUFFICES ASSUME TypeOK, HandleInv, PollInv, LockInv, [Next]_vars PROVE PollInv'
  OBVIOUS
<1>1. CASE OwnerStep
  <2>1. AllIdle /\ UNCHANGED <<locks, pc, call, locals>> BY <1>1, OwnerEffect DEF Owner
  <2> QED BY <2>1, SerialAssumption
          DEF AllIdle, locks, locals, PollInv, PollOK, LockInv, LockOK, ReadLocked
<1>a. CASE OpenerStep
  <2>1. UNCHANGED <<locks, pc, call, buf, put>> /\ Marked BY <1>a, OpenerEffect
  <2>2. CASE UNCHANGED <<handle, line, moved>>
    BY <2>1, <2>2 DEF line, locks, PollInv, PollOK, Live
  <2>3. CASE moved' = [t \in Thread |-> moved[t] \/ Underway(t)]
    <3>1. ASSUME NEW t \in Thread, pc[t] = "ready" PROVE moved'[t]
      <4>1. Underway(t) BY <3>1 DEF Underway
      <4>2. moved'[t] = (moved[t] \/ Underway(t)) BY <2>3
      <4> QED BY <4>1, <4>2, Zenon
    <3> QED BY <2>1, <3>1 DEF locks, PollInv, PollOK
  <2> QED BY <2>1, <2>2, <2>3 DEF Marked
<1>b. ASSUME NEW t \in Thread, Abort(t) PROVE PollInv'
  BY <1>b, SerialAssumption DEF Abort, PollInv, PollOK
<1>2. ASSUME NEW t \in Thread, NEW c \in Calls, Enter(t, c) PROVE PollInv'
  <2>1. buf[t] = <<>> /\ put[t] = 0
    BY <1>2 DEF Enter, PollInv, PollOK, LockInv, LockOK, Reads
  <2>2. pc'[t] \in {"rlock", "wlock", "run"}
    BY <1>2 DEF Enter, Wanted, TypeOK, CallsOK
  <2> SUFFICES ASSUME NEW u \in Thread PROVE PollOK(u)'
    BY DEF PollInv
  <2>3. CASE u = t
    <3>1. pc'[t] \in {"rlock", "wlock", "run"} /\ buf'[t] = <<>> /\ put'[t] = 0
      BY <1>2, <2>1, <2>2 DEF Enter, locals
    <3>2. Len(buf'[t]) < ReadSize BY <3>1, SerialAssumption
    <3> QED BY <2>3, <3>1, <3>2 DEF PollOK
  <2>4. CASE u # t
    BY <1>2, <2>4, OthersPoll DEF Enter, object, line, locks, locals, TypeOK, CallsOK
  <2> QED BY <2>3, <2>4
<1>3. ASSUME NEW t \in Thread, LockRead(t) \/ LockWrite(t) PROVE PollInv'
  <2>1. pc[t] \in {"rlock", "wlock"} /\ pc'[t] \in {"rlock", "wlock", "run"}
    BY <1>3 DEF LockRead, LockWrite, Wanted, TypeOK, CallsOK
  <2>2. buf[t] = <<>> /\ put[t] = 0
    BY <1>3, <2>1, SerialAssumption DEF LockRead, LockWrite, PollInv, PollOK, LockInv, LockOK,
       Reads, WriteLocked
  <2> SUFFICES ASSUME NEW u \in Thread PROVE PollOK(u)'
    BY DEF PollInv
  <2>3. CASE u = t
    <3>1. pc'[t] \in {"rlock", "wlock", "run"} /\ buf'[t] = <<>> /\ put'[t] = 0
      BY <1>3, <2>1, <2>2 DEF LockRead, LockWrite, locals
    <3>2. Len(buf'[t]) < ReadSize BY <3>1, SerialAssumption
    <3> QED BY <2>3, <3>1, <3>2 DEF PollOK
  <2>4. CASE u # t
    BY <1>3, <2>4, OthersPoll DEF LockRead, LockWrite, object, line, locals, TypeOK, CallsOK
  <2> QED BY <2>3, <2>4
<1>4. ASSUME NEW t \in Thread, Read(t) PROVE PollInv'
  <2>1. CASE ReadBegins(t) BY <2>1, TakePoll DEF ReadBegins, At
  <2>2. CASE ReadTimesOut(t) BY <2>2, ReturnPoll DEF ReadTimesOut, Stays, object, line
  <2>3. CASE WaitReadable(t)
    <3>1. PollOK(t) /\ call[t] \in Reads /\ pc[t] = "loop"
      BY <2>3 DEF WaitReadable, At, PollInv
    <3>2. CASE Throw(t, "error")
      BY <2>3, <3>2, ReturnPoll DEF WaitReadable, Throw, Stays, object, line
    <3>3. CASE Goto(t, "ready") /\ UNCHANGED locals /\ (handle.fd = "dead" \/ (Live /\ inq # <<>>))
      BY <2>3, <3>1, <3>3, GotoPoll DEF WaitReadable, Stays, object, line, PollOK, Live
    <3> QED BY <2>3, <3>2, <3>3 DEF WaitReadable
  <2>4. CASE ReadReady(t)
    <3>1. CASE Take(t) BY <2>4, <3>1, TakePoll DEF ReadReady, At, PollInv, PollOK
    <3>2. CASE (Throw(t, "gone") \/ Throw(t, "error")) /\ Stays
      BY <3>2, ReturnPoll DEF Throw, Stays, object, line
    <3> QED BY <2>4, <3>1, <3>2 DEF ReadReady
  <2>5. CASE ReadGot(t)
    <3>1. PollOK(t) /\ call[t] \in Reads /\ pc[t] = "got" BY <2>5 DEF ReadGot, At, PollInv
    <3>2. CASE Return(t, "ok", buf[t])
      BY <2>5, <3>2, ReturnPoll DEF ReadGot, Stays, object, line
    <3>3. CASE Goto(t, "run") /\ UNCHANGED locals /\ call[t] # "read"
      BY <2>5, <3>1, <3>3, GotoPoll DEF ReadGot, Stays, object, line, PollOK
    <3> QED BY <2>5, <3>2, <3>3 DEF ReadGot
  <2> QED BY <1>4, <2>1, <2>2, <2>3, <2>4, <2>5 DEF Read
<1>5. ASSUME NEW t \in Thread, Write(t) PROVE PollInv'
  <2>1. CASE WriteBegins(t)
    <3>1. PollOK(t) /\ call[t] = "write" /\ pc[t] = "run"
      BY <2>1 DEF WriteBegins, At, Writes, PollInv
    <3> QED BY <2>1, <3>1, GotoPoll DEF WriteBegins, Stays, object, line, PollOK
  <2>2. CASE WriteTimesOut(t) BY <2>2, ReturnPoll DEF WriteTimesOut, object
  <2>3. CASE WriteSome(t)
    <3>1. PICK k \in 1 .. Smaller(Command - put[t], OutSize - Len(outq)) :
            \/ Return(t, "ok", <<>>)
            \/ /\ put[t] + k # Command
               /\ Goto(t, "again")
               /\ put' = [put EXCEPT ![t] = @ + k]
               /\ UNCHANGED <<buf, late, moved>>
      BY <2>3 DEF WriteSome
    <3>2. CASE Return(t, "ok", <<>>) BY <2>3, <3>2, ReturnPoll DEF WriteSome, object
    <3>3. CASE ~Return(t, "ok", <<>>)
      <4>1. /\ put[t] + k # Command /\ Goto(t, "again")
            /\ put' = [put EXCEPT ![t] = @ + k] /\ UNCHANGED <<buf, inq, handle, moved>>
            /\ Live
        BY <2>3, <3>1, <3>3 DEF WriteSome, object
      <4>2. PollOK(t) /\ call[t] = "write"
        BY <2>3 DEF WriteSome, PollInv, PollOK, LockInv, LockOK
      <4>3. put[t] \in 0 .. Command /\ Len(outq) \in Nat BY DEF TypeOK, CallsOK, LineOK
      <4>4. put'[t] < Command /\ put'[t] # 0
        <5>1. put'[t] = put[t] + k BY <4>1 DEF TypeOK, CallsOK
        <5>2. k \in Nat \ {0} /\ k <= Command - put[t]
          BY <3>1, <4>3, SerialAssumption DEF Smaller
        <5> QED BY <4>1, <4>3, <5>1, <5>2, SerialAssumption
      <4> SUFFICES ASSUME NEW u \in Thread PROVE PollOK(u)'
        BY DEF PollInv
      <4>5. CASE u = t
        BY <4>1, <4>2, <4>4, <4>5 DEF Goto, locks, PollOK, Live, TypeOK, CallsOK
      <4>6. CASE u # t
        BY <4>1, <4>6, OthersPoll DEF Goto, locks, TypeOK, CallsOK
      <4> QED BY <4>5, <4>6
    <3> QED BY <3>2, <3>3
  <2>4. CASE WriteThrows(t) BY <2>4, ReturnPoll DEF WriteThrows, Throw, object
  <2> QED BY <1>5, <2>1, <2>2, <2>3, <2>4 DEF Write
<1>6. ASSUME NEW t \in Thread, NotOpen(t) \/ Flush(t) PROVE PollInv'
  BY <1>6, ReturnPoll DEF NotOpen, Throw, Flush, Stays, object, line
<1>7. ASSUME NEW t \in Thread, FlushInput(t) PROVE PollInv'
  <2>1. rlock = t BY <1>7 DEF FlushInput, At, LockInv, LockOK, ReadLocked
  <2> QED BY <1>7, <2>1, ReturnPoll DEF FlushInput, object
<1>8. ASSUME NEW t \in Thread, FlushOutput(t) PROVE PollInv'
  BY <1>8, ReturnPoll DEF FlushOutput, object
<1>9. ASSUME NEW t \in Thread, SetPort(t) PROVE PollInv'
  <2>1. rlock = t /\ wlock = t
    BY <1>9, SetPortEffect DEF At, LockInv, LockOK, ReadLocked, WriteLocked
  <2>2. PICK how \in {"ok", "error"} : Return(t, how, <<>>) BY <1>9, SetPortEffect
  <2> QED BY <2>1, <2>2, ReturnPoll
<1>10. CASE Environment
  <2>1. CASE Arrive
    <3>1. inq' # <<>>
      BY <2>1, AppendProperties DEF Arrive, TypeOK, LineOK
    <3> QED BY <2>1, <3>1 DEF Arrive, Outside, PollInv, PollOK, locks
  <2>2. CASE Hangup
    BY <2>2 DEF Hangup, Outside, PollInv, PollOK, Live, locks, TypeOK, ObjectOK, Handles
  <2>3. CASE DeviceTakes \/ Attach \/ \E t \in Thread : Expire(t)
    <3>1. UNCHANGED <<handle, inq, rlock, pc, call, buf, put, moved>>
      BY <2>3 DEF DeviceTakes, Attach, Expire, Outside, line, locks
    <3> QED BY <3>1 DEF PollInv, PollOK, Live
  <2> QED BY <1>10, <2>1, <2>2, <2>3 DEF Environment
<1>11. CASE UNCHANGED vars
  BY <1>11 DEF vars, object, line, locks, locals, PollInv, PollOK, Live
<1> QED
  BY <1>1, <1>a, <1>b, <1>2, <1>3, <1>4, <1>5, <1>6, <1>7, <1>8, <1>9, <1>10, <1>11
  DEF Next, OwnerStep, OpenerStep, Step

(* Every action preserves NoFalseDisconnect: what a read saw is still      *)
(* there when it asks for it, unless the tty is gone or was closed.        *)
LEMMA GoneStep ==
  TypeOK /\ HandleInv /\ PollInv /\ LockInv /\ NoFalseDisconnect /\ [Next]_vars
    => NoFalseDisconnect'
<1> SUFFICES ASSUME TypeOK, HandleInv, PollInv, LockInv, NoFalseDisconnect, [Next]_vars
             PROVE NoFalseDisconnect'
  OBVIOUS
<1> USE DEF NoFalseDisconnect
<1>0. NoResult.how = "none" BY DEF NoResult
<1>1. ASSUME NEW t, NEW how, NEW d, Return(t, how, d)
      PROVE result'.how = how /\ result'.moved = moved[t]
  BY <1>1 DEF Return
<1>2. CASE OwnerStep BY <1>0, <1>2, OwnerEffect DEF Owner
<1>a. CASE OpenerStep BY <1>0, <1>a, OpenerEffect
<1>b. ASSUME NEW t \in Thread, Abort(t) PROVE NoFalseDisconnect' BY <1>0, <1>b DEF Abort
<1>3. ASSUME NEW t \in Thread, NEW c \in Calls, Enter(t, c) PROVE NoFalseDisconnect'
  BY <1>0, <1>3 DEF Enter
<1>4. ASSUME NEW t \in Thread, LockRead(t) \/ LockWrite(t) PROVE NoFalseDisconnect'
  BY <1>0, <1>4 DEF LockRead, LockWrite
<1>5. ASSUME NEW t \in Thread, Read(t) PROVE NoFalseDisconnect'
  <2>1. CASE ReadReady(t)
    <3>1. CASE Take(t) BY <1>0, <3>1 DEF Take, Goto
    <3>2. CASE ~(Live /\ inq # <<>>) /\ Throw(t, "gone") /\ Stays
      <4>1. pc[t] = "ready" BY <2>1 DEF ReadReady, At
      <4>2. handle.fd = "dead" \/ moved[t] BY <3>2, <4>1 DEF PollInv, PollOK, Live
      <4>3. handle' = handle /\ result'.moved = moved[t] BY <1>1, <3>2 DEF Stays, object, Throw
      <4> QED BY <4>2, <4>3, Zenon
    <3>3. CASE Throw(t, "error") BY <1>1, <3>3 DEF Throw
    <3> QED BY <2>1, <3>1, <3>2, <3>3 DEF ReadReady
  <2>2. CASE ReadBegins(t) BY <1>0, <2>2 DEF ReadBegins, Take, Goto
  <2>3. CASE ReadTimesOut(t) \/ WaitReadable(t) \/ ReadGot(t)
    BY <1>0, <1>1, <2>3 DEF ReadTimesOut, WaitReadable, ReadGot, Throw, Goto
  <2> QED BY <1>5, <2>1, <2>2, <2>3 DEF Read
<1>6. ASSUME NEW t \in Thread, Write(t) PROVE NoFalseDisconnect'
  <2>1. CASE WriteThrows(t)
    <3>1. CASE (handle.fd = "dead" \/ moved[t]) /\ Throw(t, "gone")
      <4>1. handle' = handle /\ result'.moved = moved[t]
        BY <1>1, <2>1, <3>1 DEF WriteThrows, object, Throw
      <4> QED BY <3>1, <4>1, Zenon
    <3>2. CASE Throw(t, "error") BY <1>1, <3>2 DEF Throw
    <3> QED BY <2>1, <3>1, <3>2 DEF WriteThrows
  <2>2. CASE WriteSome(t) BY <1>0, <1>1, <2>2 DEF WriteSome, Goto
  <2>3. CASE WriteBegins(t) \/ WriteTimesOut(t)
    BY <1>0, <1>1, <2>3 DEF WriteBegins, WriteTimesOut, Goto
  <2> QED BY <1>6, <2>1, <2>2, <2>3 DEF Write
<1>7. ASSUME NEW t \in Thread, NotOpen(t) \/ Flush(t) \/ FlushInput(t) \/ FlushOutput(t)
      PROVE NoFalseDisconnect'
  BY <1>1, <1>7 DEF NotOpen, Throw, Flush, FlushInput, FlushOutput
<1>8. ASSUME NEW t \in Thread, SetPort(t) PROVE NoFalseDisconnect'
  BY <1>1, <1>8, SetPortEffect
<1>9. CASE Environment
  BY <1>0, <1>9 DEF Environment, Expire, Arrive, DeviceTakes, Hangup, Attach, Outside
<1>10. CASE UNCHANGED vars BY <1>10 DEF vars, object
<1> QED
  BY <1>2, <1>a, <1>b, <1>3, <1>4, <1>5, <1>6, <1>7, <1>8, <1>9, <1>10
  DEF Next, OwnerStep, OpenerStep, Step

-----------------------------------------------------------------------------
IInv == TypeOK /\ HandleInv /\ LockInv /\ PollInv /\ NoFalseDisconnect

(* The conjunction of the parts is an invariant of the specification.      *)
THEOREM Invariance == Spec => []IInv
<1>1. Init => IInv
  <2> SUFFICES ASSUME Init PROVE IInv
    OBVIOUS
  <2>0. /\ made = FALSE /\ crashed = FALSE
        /\ handle = [is_open |-> FALSE, fd |-> "none", leaked |-> 0]
        /\ inq = <<>> /\ next = 0 /\ outq = <<>> /\ cmd = <<>>
        /\ rlock = NoThread /\ wlock = NoThread
        /\ pc = [t \in Thread |-> "idle"] /\ call = [t \in Thread |-> "none"]
        /\ buf = [t \in Thread |-> <<>>] /\ put = [t \in Thread |-> 0]
        /\ result = NoResult
    BY DEF Init
  <2>1. <<>> \in Seq(Bytes) /\ <<>> \in Seq(Written) /\ Len(<<>>) = 0 OBVIOUS
  <2>2. NoResult \in Results BY NoResultTypes
  <2>3. ObjectOK
    <3>1. handle = [is_open |-> FALSE, fd |-> "none", leaked |-> 0] BY <2>0
    <3>2. handle.is_open = FALSE BY <3>1
    <3>3. handle \in Handles BY <3>1, SerialAssumption DEF Handles
    <3>4. made \in BOOLEAN /\ crashed \in BOOLEAN BY <2>0, Zenon
    <3> QED BY <3>2, <3>3, <3>4 DEF ObjectOK
  <2>4. LineOK
    <3>1. present \in BOOLEAN /\ cut \in BOOLEAN BY Zenon DEF Init
    <3> QED BY <2>0, <2>1, <3>1, SerialAssumption DEF LineOK, Bytes
  <2>5. late \in [Thread -> BOOLEAN] /\ moved \in [Thread -> BOOLEAN] BY Zenon DEF Init
  <2>6. CallsOK BY <2>0, <2>1, <2>2, <2>5, SerialAssumption DEF CallsOK, Pcs
  <2>7. HandleInv
    <3>1. handle.fd = "none" BY <2>0
    <3>2. handle.is_open = FALSE
      <4>1. handle = [is_open |-> FALSE, fd |-> "none", leaked |-> 0] BY <2>0
      <4> QED BY <4>1
    <3>3. AllIdle BY <2>0 DEF AllIdle
    <3> QED BY <3>1, <3>2, <3>3 DEF HandleInv
  <2>8. LockInv
    <3>1. ASSUME NEW t \in Thread
          PROVE pc[t] = "idle" /\ call[t] = "none" /\ rlock # t /\ wlock # t
      BY <2>0, SerialAssumption
    <3> QED BY <3>1 DEF LockInv, LockOK, ReadLocked, WriteLocked
  <2>9. PollInv BY <2>0, <2>1, SerialAssumption DEF PollInv, PollOK
  <2>10. NoFalseDisconnect BY <2>0 DEF NoFalseDisconnect, NoResult
  <2> QED BY <2>3, <2>4, <2>6, <2>7, <2>8, <2>9, <2>10 DEF IInv, TypeOK
<1>2. IInv /\ [Next]_vars => IInv'
  BY TypeStep, HandleStep, LockStep, PollStep, GoneStep DEF IInv
<1> QED BY <1>1, <1>2, PTL DEF Spec

(* Every variable has its type in every reachable state, and an open port  *)
(* has a descriptor.                                                       *)
THEOREM TypeCorrect == Spec => []TypeOK
<1>1. IInv => TypeOK BY DEF IInv
<1> QED BY <1>1, Invariance, PTL

(* read() and write() report a disconnected device only when the tty is    *)
(* gone or was closed under the call, whatever the other threads do.       *)
THEOREM DisconnectsAreReal == Spec => []NoFalseDisconnect
<1>1. IInv => NoFalseDisconnect BY DEF IInv
<1> QED BY <1>1, Invariance, PTL
=============================================================================
