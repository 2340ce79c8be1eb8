----------------------------- MODULE SerialPort -----------------------------
(***************************************************************************)
(* The serial library the driver talks through, as built for Linux: class  *)
(* Serial (serial.cc), which takes a read lock and a write lock around the *)
(* calls, and SerialImpl (impl/unix.cc), which polls a non-blocking        *)
(* descriptor with select and a timer.  Threads read, read lines, write,   *)
(* flush and set the port at the same time.  open() and close() take no    *)
(* lock: the driver for the XYZ modes makes no other call meanwhile        *)
(* (Dt1DeviceCdc!SerialExclusive), but reboot() of the XYZITR driver may   *)
(* open and close the port under a call of the serial thread, when stop()  *)
(* has returned early.  They are one step each, like the test of is_open_  *)
(* and the first use of fd_ in a call.                                     *)
(*                                                                         *)
(* The kernel's two buffers, the cable and the device are the environment. *)
(* A received byte is its number modulo M, and 0 is the end of a line; a   *)
(* written byte is the thread that writes it and its place in the command. *)
(* A select that is interrupted is a stuttering step.                      *)
(***************************************************************************)
EXTENDS Naturals, Sequences

CONSTANTS
  Thread,    \* the threads that use the port
  NoThread,  \* a lock is free
  M,         \* received bytes are numbered modulo M
  ReadSize,  \* the size of a read
  MaxLine,   \* the size of a readline, 65536 in the code
  Command,   \* the length of what is written, more than one byte
  InSize,    \* capacity of the kernel's input buffer
  OutSize,   \* capacity of the kernel's output buffer
  MaxFd,     \* the descriptors a process may have
  Baud       \* the baud rate the port is constructed with

ASSUME SerialAssumption ==
  /\ NoThread \notin Thread
  /\ M \in Nat \ {0} /\ ReadSize \in Nat \ {0} /\ MaxLine \in Nat \ {0}
  /\ Command \in Nat /\ Command > 1 /\ Baud \in Nat
  /\ InSize \in Nat \ {0} /\ OutSize \in Nat \ {0} /\ MaxFd \in Nat \ {0}

VARIABLES
  made,      \* a Serial object exists
  crashed,   \* the process was aborted
  handle,    \* is_open_, fd_ and the descriptors nobody can close any more
  present,   \* the tty exists
  inq, next, \* the kernel's input buffer; the byte the device sends next
  outq, cmd, \* the kernel's output buffer; the device's unfinished command
  cut,       \* part of a command was given up
  rlock, wlock,  \* holders of read_mutex and write_mutex
  pc, call,  \* of each thread
  buf,       \* what the call has read
  put,       \* how much of the command the call has written
  late,      \* the call's timer has run out
  moved,     \* the port was closed or opened under the call
  result     \* what the step before returned to a caller

object == <<made, crashed, handle>>
line == <<present, inq, next, outq, cmd, cut>>
locks == <<rlock, wlock>>
locals == <<buf, put, late, moved>>
vars == <<object, line, locks, pc, call, locals, result>>

Calls == {"read", "readline", "write", "flush", "flushInput", "flushOutput", "setPort"}
Pcs == {"idle", "rlock", "wlock", "run", "loop", "ready", "got", "select", "again"}
NoResult == [call |-> "none", data |-> <<>>, how |-> "none", moved |-> FALSE]

\* fd_: -1; usable; on a tty that is gone; closed in the kernel but not here.
Handles == [is_open : BOOLEAN, fd : {"none", "live", "dead", "stale"}, leaked : 0 .. MaxFd]

Bytes == 0 .. M - 1
Written == Thread \X (1 .. Command)
Results ==
  [call : Calls \cup {"none"}, data : Seq(Bytes), moved : BOOLEAN,
   how : {"none", "ok", "timeout", "closed", "error", "gone"}]

Init ==
  /\ made = FALSE /\ crashed = FALSE
  /\ handle = [is_open |-> FALSE, fd |-> "none", leaked |-> 0]
  /\ present \in BOOLEAN
  /\ inq = <<>> /\ next = 0 /\ outq = <<>> /\ cmd = <<>> /\ cut = FALSE
  /\ rlock = NoThread /\ wlock = NoThread
  /\ pc = [t \in Thread |-> "idle"] /\ call = [t \in Thread |-> "none"]
  /\ buf = [t \in Thread |-> <<>>] /\ put = [t \in Thread |-> 0]
  /\ late = [t \in Thread |-> FALSE] /\ moved = [t \in Thread |-> FALSE]
  /\ result = NoResult

AllIdle == \A t \in Thread : pc[t] = "idle"
\* The call has its locks, and the test of is_open_ may be behind it.
Underway(t) == pc[t] \notin {"idle", "rlock", "wlock"}
\* Some command is written in part.
Halfway == \E t \in Thread : put[t] > 0
Live == handle.fd = "live"
Smaller(a, b) == IF a < b THEN a ELSE b
First(n, s) == SubSeq(s, 1, n)
Rest(n, s) == SubSeq(s, n + 1, Len(s))

-----------------------------------------------------------------------------
(* open and close, as the handles they may leave and whether they throw.   *)

\* The rates with a constant of their own; any other is set by two ioctls.
StandardBaud ==
  {0, 50, 75, 110, 134, 150, 200, 300, 600, 1200, 1800, 2400, 4800, 7200, 9600,
   14400, 19200, 28800, 38400, 57600, 76800, 115200, 128000, 153600, 230400,
   256000, 460800, 500000, 576000, 921600, 1000000, 1152000, 1500000, 2000000,
   2500000, 3000000, 3500000, 4000000}

\* tcgetattr fails on a tty that has gone since it was opened; the ioctls of a
\* custom rate fail also where the driver of the tty does not know them.
ReconfigureOutcomes ==
  {[fd |-> "live", throws |-> FALSE], [fd |-> "dead", throws |-> TRUE]}
    \cup (IF Baud \in StandardBaud THEN {} ELSE {[fd |-> "live", throws |-> TRUE]})

\* A descriptor that an open() left behind when it threw is overwritten.
LeakedAtOpen(h) == IF h.fd \in {"live", "dead"} THEN h.leaked + 1 ELSE h.leaked

\* open(): the outcomes, each with the handle it leaves.
OpenOutcomes(h) ==
  LET leaked == LeakedAtOpen(h)
  IN IF h.is_open THEN {[handle |-> h, throws |-> TRUE]}
     ELSE IF ~present \/ leaked = MaxFd
     THEN {[handle |-> [is_open |-> FALSE, fd |-> "none", leaked |-> leaked],
            throws |-> TRUE]}
     ELSE {[handle |-> [is_open |-> ~o.throws, fd |-> o.fd, leaked |-> leaked],
            throws |-> o.throws] : o \in ReconfigureOutcomes}

\* Variant: is_open_ is left as it is.
CloseOutcomesFlagKept(h) == {[handle |-> [h EXCEPT !.fd = "none"], throws |-> FALSE]}

\* close(): a ::close that fails has released the descriptor nevertheless.
CloseOutcomes(h) ==
  IF ~h.is_open THEN {[handle |-> h, throws |-> FALSE]}
  ELSE {[handle |-> [h EXCEPT !.fd = "stale"], throws |-> TRUE]}
         \cup (IF h.fd = "stale" THEN {}
               ELSE {[handle |-> [h EXCEPT !.fd = "none", !.is_open = FALSE], throws |-> FALSE]})

\* The kernel drops what is buffered when the tty is closed, unless it is held
\* by a descriptor that was left behind or by a call that is using it.
DropBuffers ==
  \/ inq' = <<>> /\ outq' = <<>> /\ cut' = (cut \/ cmd # <<>> \/ Halfway)
  \/ /\ handle.leaked > 0 \/ \E t \in Thread : Underway(t)
     /\ UNCHANGED <<inq, outq>> /\ cut' = (cut \/ Halfway)
KeepBuffers == UNCHANGED <<inq, outq>> /\ cut' = (cut \/ Halfway)
Released(h) == handle.fd = "live" /\ h.fd # "live"

Set(h) ==
  /\ handle' = h
  /\ IF Released(h) THEN DropBuffers ELSE KeepBuffers
  /\ UNCHANGED <<present, next, cmd>>

Owner ==
  /\ AllIdle /\ ~crashed
  /\ result' = NoResult
  /\ UNCHANGED <<locks, pc, call, locals>>

\* A thread opens or closes the port, whatever the others are doing.
Opener(h) ==
  /\ made /\ \E t \in Thread : pc[t] = "idle"
  /\ IF h = handle THEN UNCHANGED <<handle, line, moved>>
     ELSE Set(h) /\ moved' = [t \in Thread |-> moved[t] \/ Underway(t)]
  /\ result' = NoResult
  /\ UNCHANGED <<made, crashed, locks, pc, call, buf, put, late>>

\* The constructor opens the port; when that throws there is no object, and
\* nobody closes the descriptor.
Construct ==
  /\ Owner /\ ~made
  /\ \E o \in OpenOutcomes(handle) :
       /\ made' = ~o.throws
       /\ Set(IF o.throws THEN [o.handle EXCEPT !.fd = "none", !.leaked = LeakedAtOpen(o.handle)]
              ELSE o.handle)
  /\ UNCHANGED crashed

Open == \E o \in OpenOutcomes(handle) : Opener(o.handle)
Close == \E o \in CloseOutcomes(handle) : Opener(o.handle)

\* A destructor that throws ends the process.
Destroy ==
  /\ Owner /\ made
  /\ \E o \in CloseOutcomes(handle) :
       /\ crashed' = o.throws
       /\ Set([is_open |-> FALSE, fd |-> "none", leaked |-> LeakedAtOpen(o.handle)])
  /\ made' = FALSE

-----------------------------------------------------------------------------
(* The calls, and the locks that they hold from their first to their last  *)
(* step.  flush and setPort take both.                                     *)

\* Variant: flush takes the two locks in the other order.
WantedFlushSwapped(c, r, w) ==
  IF c = "flush" /\ ~w THEN "wlock"
  ELSE IF c \in {"read", "readline", "flush", "flushInput", "setPort"} /\ ~r THEN "rlock"
  ELSE IF c \in {"write", "flushOutput", "setPort"} /\ ~w THEN "wlock"
  ELSE "run"
\* Variant: flushInput takes no lock.
WantedFlushInputUnlocked(c, r, w) ==
  IF c \in {"read", "readline", "flush", "setPort"} /\ ~r THEN "rlock"
  ELSE IF c \in {"write", "flush", "flushOutput", "setPort"} /\ ~w THEN "wlock"
  ELSE "run"

\* Where a call goes next, given which of the two locks it has.
Wanted(c, r, w) ==
  IF c \in {"read", "readline", "flush", "flushInput", "setPort"} /\ ~r THEN "rlock"
  ELSE IF c \in {"write", "flush", "flushOutput", "setPort"} /\ ~w THEN "wlock"
  ELSE "run"

Enter(t, c) ==
  /\ made /\ ~crashed /\ pc[t] = "idle"
  /\ call' = [call EXCEPT ![t] = c]
  /\ pc' = [pc EXCEPT ![t] = Wanted(c, FALSE, FALSE)]
  /\ result' = NoResult
  /\ UNCHANGED <<object, line, locks, locals>>

LockRead(t) ==
  /\ pc[t] = "rlock" /\ rlock = NoThread
  /\ rlock' = t
  /\ pc' = [pc EXCEPT ![t] = Wanted(call[t], TRUE, wlock = t)]
  /\ result' = NoResult
  /\ UNCHANGED <<object, line, wlock, call, locals>>

LockWrite(t) ==
  /\ pc[t] = "wlock" /\ wlock = NoThread
  /\ wlock' = t
  /\ pc' = [pc EXCEPT ![t] = Wanted(call[t], rlock = t, TRUE)]
  /\ result' = NoResult
  /\ UNCHANGED <<object, line, rlock, call, locals>>

\* The call ends, with d for the caller; the scoped locks are released.
Return(t, how, d) ==
  /\ pc' = [pc EXCEPT ![t] = "idle"] /\ call' = [call EXCEPT ![t] = "none"]
  /\ rlock' = (IF rlock = t THEN NoThread ELSE rlock)
  /\ wlock' = (IF wlock = t THEN NoThread ELSE wlock)
  /\ buf' = [buf EXCEPT ![t] = <<>>] /\ put' = [put EXCEPT ![t] = 0]
  /\ late' = [late EXCEPT ![t] = FALSE] /\ moved' = [moved EXCEPT ![t] = FALSE]
  /\ result' = [call |-> call[t], data |-> d, how |-> how, moved |-> moved[t]]
Throw(t, what) == Return(t, what, <<>>)

Goto(t, l) ==
  /\ pc' = [pc EXCEPT ![t] = l]
  /\ result' = NoResult
  /\ UNCHANGED <<call, locks>>
Stays == UNCHANGED <<object, line>>

At(t, l, cs) == pc[t] = l /\ call[t] \in cs

NotOpen(t) ==
  /\ pc[t] = "run" /\ call[t] # "setPort" /\ ~handle.is_open
  /\ Throw(t, "closed") /\ Stays

\* FD_SET of -1, when the port was closed under the call, is undefined: the
\* process is aborted where the headers check it, and otherwise nothing is
\* ever ready.
Abort(t) ==
  /\ handle.fd = "none"
  /\ pc[t] = "select" \/ (pc[t] \in {"loop", "again"} /\ ~late[t])
  /\ crashed' = TRUE /\ made' = FALSE
  /\ handle' = [handle EXCEPT !.leaked = 0]
  /\ inq' = <<>> /\ outq' = <<>> /\ cut' = (cut \/ cmd # <<>> \/ Halfway)
  /\ rlock' = NoThread /\ wlock' = NoThread
  /\ pc' = [u \in Thread |-> "idle"] /\ call' = [u \in Thread |-> "none"]
  /\ buf' = [u \in Thread |-> <<>>] /\ put' = [u \in Thread |-> 0]
  /\ late' = [u \in Thread |-> FALSE] /\ moved' = [u \in Thread |-> FALSE]
  /\ result' = NoResult
  /\ UNCHANGED <<present, next, cmd>>

-----------------------------------------------------------------------------
(* read, and readline, which reads byte by byte with a timer for each.     *)

Reads == {"read", "readline"}
Missing(t) == IF call[t] = "read" THEN ReadSize - Len(buf[t]) ELSE 1

\* Variant: each ::read writes to the beginning of the caller's buffer.
TakeInFront(t) ==
  LET k == IF Live THEN Smaller(Missing(t), Len(inq)) ELSE 0
  IN /\ Goto(t, IF k = Missing(t) THEN "got" ELSE "loop")
     /\ buf' = [buf EXCEPT ![t] = First(k, inq) \o @]
     /\ inq' = Rest(k, inq)
     /\ UNCHANGED <<object, present, next, outq, cmd, cut, put, moved>>

\* ::read of what is missing: the kernel gives what it has.
Take(t) ==
  LET k == IF Live THEN Smaller(Missing(t), Len(inq)) ELSE 0
  IN /\ Goto(t, IF k = Missing(t) THEN "got" ELSE "loop")
     /\ buf' = [buf EXCEPT ![t] = @ \o First(k, inq)]
     /\ inq' = Rest(k, inq)
     /\ UNCHANGED <<object, present, next, outq, cmd, cut, put, moved>>

\* The timer is set, and what is there already is read.
ReadBegins(t) ==
  /\ At(t, "run", Reads) /\ handle.is_open
  /\ Take(t)
  /\ late' = [late EXCEPT ![t] = FALSE]

ReadTimesOut(t) ==
  /\ At(t, "loop", Reads) /\ late[t]
  /\ Return(t, "timeout", buf[t]) /\ Stays

\* waitReadable: a tty that is gone is always readable.
WaitReadable(t) ==
  /\ At(t, "loop", Reads) /\ ~late[t]
  /\ \/ (handle.fd = "dead" \/ (Live /\ inq # <<>>)) /\ Goto(t, "ready") /\ UNCHANGED locals
     \/ handle.fd \in {"stale", "none"} /\ Throw(t, "error")
  /\ Stays

\* No data although select saw some is taken for a disconnected device; a
\* read of several bytes may fail before, when it asks how many there are.
ReadReady(t) ==
  /\ At(t, "ready", Reads)
  /\ IF Live /\ inq # <<>>
     THEN Take(t) /\ UNCHANGED late
     ELSE /\ \/ Throw(t, "gone")
             \/ call[t] = "read" /\ handle.is_open /\ ~Live /\ Throw(t, "error")
          /\ Stays

\* Variant: a readline goes on behind the end of a line.
LineEndsLong(t) == Len(buf[t]) = MaxLine
LineEnds(t) == buf[t][Len(buf[t])] = 0 \/ Len(buf[t]) = MaxLine

ReadGot(t) ==
  /\ At(t, "got", Reads)
  /\ IF call[t] = "read" \/ LineEnds(t)
     THEN Return(t, "ok", buf[t])
     ELSE Goto(t, "run") /\ UNCHANGED locals
  /\ Stays

Read(t) ==
  ReadBegins(t) \/ ReadTimesOut(t) \/ WaitReadable(t) \/ ReadReady(t) \/ ReadGot(t)

-----------------------------------------------------------------------------
(* write.  Its first select is made even when the timer has run out.       *)

Writes == {"write"}

WriteBegins(t) ==
  /\ At(t, "run", Writes) /\ handle.is_open
  /\ Goto(t, "select") /\ Stays /\ UNCHANGED locals

\* A short write: the caller is told how much was written.
WriteTimesOut(t) ==
  /\ pc[t] \in {"select", "again"} /\ late[t]
  /\ pc[t] = "again" \/ handle.fd = "none" \/ (Live /\ Len(outq) = OutSize)
  /\ cut' = (cut \/ put[t] > 0)
  /\ Return(t, "timeout", <<>>)
  /\ UNCHANGED <<object, present, inq, next, outq, cmd>>

\* Variant: each ::write begins at the start of the data.
WriteSomeAgain(t) ==
  /\ pc[t] = "select" \/ (pc[t] = "again" /\ ~late[t])
  /\ Live
  /\ \E k \in 1 .. Smaller(Command - put[t], OutSize - Len(outq)) :
       /\ outq' = outq \o [i \in 1 .. k |-> <<t, i>>]
       /\ IF put[t] + k = Command
          THEN Return(t, "ok", <<>>)
          ELSE /\ Goto(t, "again")
               /\ put' = [put EXCEPT ![t] = @ + k]
               /\ UNCHANGED <<buf, late, moved>>
  /\ UNCHANGED <<object, present, inq, next, cmd, cut>>

\* ::write of what is left: the kernel takes some of it, at least one byte.
WriteSome(t) ==
  /\ pc[t] = "select" \/ (pc[t] = "again" /\ ~late[t])
  /\ Live
  /\ \E k \in 1 .. Smaller(Command - put[t], OutSize - Len(outq)) :
       /\ outq' = outq \o [i \in 1 .. k |-> <<t, put[t] + i>>]
       /\ IF put[t] + k = Command
          THEN Return(t, "ok", <<>>)
          ELSE /\ Goto(t, "again")
               /\ put' = [put EXCEPT ![t] = @ + k]
               /\ UNCHANGED <<buf, late, moved>>
  /\ UNCHANGED <<object, present, inq, next, cmd, cut>>

WriteThrows(t) ==
  /\ pc[t] = "select" \/ (pc[t] = "again" /\ ~late[t])
  /\ ~Live
  /\ \/ (handle.fd = "dead" \/ moved[t]) /\ Throw(t, "gone")
     \/ handle.fd # "dead" /\ Throw(t, "error")
  /\ cut' = (cut \/ (put[t] > 0 /\ handle.fd # "dead"))
  /\ UNCHANGED <<object, present, inq, next, outq, cmd>>

Write(t) == WriteBegins(t) \/ WriteTimesOut(t) \/ WriteSome(t) \/ WriteThrows(t)

-----------------------------------------------------------------------------
(* The calls without a timer.                                              *)

\* tcdrain: waits until the device has taken everything.
Flush(t) ==
  /\ At(t, "run", {"flush"}) /\ (handle.is_open \/ moved[t])
  /\ Live => outq = <<>>
  /\ Return(t, "ok", <<>>) /\ Stays

FlushInput(t) ==
  /\ At(t, "run", {"flushInput"}) /\ handle.is_open
  /\ inq' = (IF Live THEN <<>> ELSE inq)
  /\ Return(t, "ok", <<>>)
  /\ UNCHANGED <<object, present, next, outq, cmd, cut>>

FlushOutput(t) ==
  /\ At(t, "run", {"flushOutput"}) /\ handle.is_open
  /\ outq' = (IF Live THEN <<>> ELSE outq)
  /\ cut' = (cut \/ (Live /\ outq # <<>> /\ cmd # <<>>))
  /\ Return(t, "ok", <<>>)
  /\ UNCHANGED <<object, present, inq, next, cmd>>

\* close, a new name, open; a close() that throws leaves the name as it was.
SetPort(t) ==
  /\ At(t, "run", {"setPort"})
  /\ IF handle.is_open
     THEN \E c \in CloseOutcomes(handle) :
            IF c.throws
            THEN Set(c.handle) /\ Throw(t, "error")
            ELSE \E o \in OpenOutcomes(c.handle) :
                   /\ handle' = o.handle
                   /\ IF Live THEN DropBuffers ELSE KeepBuffers
                   /\ UNCHANGED <<present, next, cmd>>
                   /\ Return(t, IF o.throws THEN "error" ELSE "ok", <<>>)
     ELSE Return(t, "ok", <<>>) /\ UNCHANGED <<handle, line>>
  /\ UNCHANGED <<made, crashed>>

Step(t) ==
  \/ LockRead(t) \/ LockWrite(t) \/ NotOpen(t) \/ Abort(t)
  \/ Read(t) \/ Write(t)
  \/ Flush(t) \/ FlushInput(t) \/ FlushOutput(t) \/ SetPort(t)

-----------------------------------------------------------------------------
(* The environment: time, the kernel, the cable and the device.            *)

Outside ==
  /\ result' = NoResult
  /\ UNCHANGED <<made, crashed, locks, pc, call, buf, put, moved>>

Expire(t) ==
  /\ pc[t] \in {"loop", "ready", "select", "again"} /\ ~late[t]
  /\ late' = [late EXCEPT ![t] = TRUE]
  /\ Outside /\ UNCHANGED <<handle, line>>

\* The device waits while the input buffer is full.
Arrive ==
  /\ Live /\ Len(inq) < InSize
  /\ inq' = Append(inq, next) /\ next' = (next + 1) % M
  /\ Outside /\ UNCHANGED <<handle, present, outq, cmd, cut, late>>

\* The device executes a command when it has its last byte, and is then in
\* step again with what follows.  What it has is of interest until a cut.
DeviceTakes ==
  /\ Live /\ outq # <<>>
  /\ LET b == Head(outq)
         done == b[2] = Command
     IN /\ outq' = Tail(outq)
        /\ cmd' = (IF done \/ cut THEN <<>> ELSE Append(cmd, b))
        /\ cut' = (cut /\ ~(done /\ outq' = <<>>))
  /\ Outside /\ UNCHANGED <<handle, present, inq, next, late>>

Hangup ==
  /\ present
  /\ present' = FALSE
  /\ handle' = (IF Live THEN [handle EXCEPT !.fd = "dead"] ELSE handle)
  /\ inq' = <<>> /\ outq' = <<>> /\ cmd' = <<>> /\ cut' = FALSE
  /\ Outside /\ UNCHANGED <<next, late>>

Attach ==
  /\ ~present
  /\ present' = TRUE
  /\ Outside /\ UNCHANGED <<handle, inq, next, outq, cmd, cut, late>>

Environment == (\E t \in Thread : Expire(t)) \/ Arrive \/ DeviceTakes \/ Hangup \/ Attach

-----------------------------------------------------------------------------
Next ==
  \/ Construct \/ Open \/ Close \/ Destroy
  \/ \E t \in Thread : Step(t) \/ \E c \in Calls : Enter(t, c)
  \/ Environment

Spec == Init /\ [][Next]_vars

(* The threads run, and time passes.  Nothing else has to happen.          *)
Fairness == \A t \in Thread : WF_vars(Step(t)) /\ WF_vars(Expire(t))
FairSpec == Spec /\ Fairness

-----------------------------------------------------------------------------
(* Properties                                                              *)

ObjectOK ==
  /\ made \in BOOLEAN /\ crashed \in BOOLEAN
  /\ handle \in Handles /\ (handle.is_open => handle.fd # "none")
LineOK ==
  /\ present \in BOOLEAN /\ next \in Bytes /\ cut \in BOOLEAN
  /\ inq \in Seq(Bytes) /\ Len(inq) <= InSize
  /\ outq \in Seq(Written) /\ Len(outq) <= OutSize
  /\ cmd \in Seq(Written)
CallsOK ==
  /\ rlock \in Thread \cup {NoThread} /\ wlock \in Thread \cup {NoThread}
  /\ pc \in [Thread -> Pcs] /\ call \in [Thread -> Calls \cup {"none"}]
  /\ buf \in [Thread -> Seq(Bytes)] /\ put \in [Thread -> 0 .. Command]
  /\ late \in [Thread -> BOOLEAN] /\ moved \in [Thread -> BOOLEAN]
  /\ result \in Results

(* Every variable has its type, and a port that calls itself open has a    *)
(* descriptor: a call that finds it open does not begin with -1.           *)
TypeOK == ObjectOK /\ LineOK /\ CallsOK

(* The bytes of the device reach the callers as a stream: whatever threads *)
(* read at the same time, no call has bytes out of order, with a gap, or   *)
(* that another call had, also when it timed out.  A call under which the  *)
(* port was closed or opened may have a gap; no later call does.           *)
Stream ==
  INSTANCE ByteStream WITH
    pending <- (IF rlock = NoThread \/ moved[rlock] THEN <<>> ELSE buf[rlock]) \o inq,
    returned <- IF result.moved THEN <<>> ELSE result.data
StreamInOrder == Stream!Spec

(* A readline returns one line, or a line that is too long, or what came   *)
(* before the timeout: never parts of two lines.                           *)
LinesWhole ==
  result.call = "readline" =>
    LET d == result.data
    IN /\ \A i \in 1 .. Len(d) : d[i] = 0 => i = Len(d)
       /\ result.how = "ok" => d[Len(d)] = 0 \/ Len(d) = MaxLine

(* Commands of several threads reach the device one after the other, each  *)
(* whole, unless some call reported that it has not written everything,    *)
(* output was discarded or the port was closed or opened under a write; an *)
(* unfinished one belongs to a write in progress.                          *)
CommandsWhole ==
  LET s == cmd \o outq
      Follows(a, b) == IF a[2] = Command THEN b[2] = 1 ELSE b = <<a[1], a[2] + 1>>
  IN ~cut /\ s # <<>> =>
       /\ s[1][2] = 1
       /\ \A i \in 1 .. Len(s) - 1 : Follows(s[i], s[i + 1])
       /\ LET b == s[Len(s)]
          IN b[2] < Command => pc[b[1]] = "again" /\ put[b[1]] = b[2]

(* "device disconnected?": read and write throw so only when the tty is    *)
(* gone or was closed under the call, never because another call took or   *)
(* dropped what select had seen.                                           *)
NoFalseDisconnect == result.how = "gone" => handle.fd = "dead" \/ result.moved

(* Every call returns once no new ones are made, whatever the device does  *)
(* about its input and however long it stays silent, except that flush()   *)
(* needs the device to take what was written, and however often the port   *)
(* is closed and opened: no deadlock on the locks.                         *)
CallsEnd ==
  /\ <>[][\A t \in Thread : pc[t] # "idle" \/ pc'[t] = "idle"]_pc
  /\ <>[](~Live \/ outq = <<>>)
  => <>[]AllIdle
=============================================================================
