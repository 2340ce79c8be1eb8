-------------------------- MODULE SerialDataProofs --------------------------
(***************************************************************************)
(* Proofs about the data that the calls of SerialPort move: it implements  *)
(* ByteStream, a readline returns one line, and commands reach the device  *)
(* whole.  They use the invariant of SerialPortProofs.                     *)
(***************************************************************************)
EXTENDS SerialPortProofs

(* A call ends, with whatever result.                                      *)
Returns(t) == \E how, d : Return(t, how, d)

-----------------------------------------------------------------------------
(* Lines.  A byte 0 is the last one that a readline has read, and it has   *)
(* been looked at before the next ::read.                                  *)
OneLine(t) ==
  call[t] = "readline" =>
    /\ \A i \in 1 .. Len(buf[t]) : buf[t][i] = 0 => pc[t] = "got" /\ i = Len(buf[t])
    /\ pc[t] = "got" => buf[t] # <<>>
LineInv == \A t \in Thread : OneLine(t)

(* A call that ends, and one that changes nothing but where it is.         *)
LEMMA ReturnLine ==
  ASSUME TypeOK, LineInv, NEW t \in Thread, NEW how, NEW d, Return(t, how, d)
  PROVE  LineInv'
BY DEF TypeOK, CallsOK, LineInv, OneLine, Return

(* An empty buffer has no line in it.                                      *)
LEMMA EmptyLine ==
  ASSUME TypeOK, LineInv, NEW t \in Thread, buf[t] = <<>>, UNCHANGED buf,
         pc'[t] # "got", \A u \in Thread \ {t} : pc'[u] = pc[u] /\ call'[u] = call[u]
  PROVE  LineInv'
<1> SUFFICES ASSUME NEW u \in Thread PROVE OneLine(u)'
  BY DEF LineInv
<1>1. Len(<<>>) = 0 OBVIOUS
<1>2. CASE u = t BY <1>1, <1>2 DEF OneLine
<1>3. CASE u # t BY <1>3 DEF OneLine, LineInv
<1> QED BY <1>2, <1>3

(* ::read adds at most one byte to a line that has no end yet.             *)
LEMMA TakeLine ==
  ASSUME IInv, LineInv, NEW t \in Thread, call[t] \in Reads, pc[t] \in {"run", "ready"}, Take(t)
  PROVE  LineInv'
<1>1. PICK k \in Nat : Taken(t, k) BY TakeEffect DEF IInv
<1>2. /\ First(k, inq) \in Seq(Bytes) /\ Len(First(k, inq)) = k
      /\ buf[t] \in Seq(Bytes) /\ Len(buf[t]) \in Nat
  BY <1>1, Split DEF Taken, IInv, TypeOK, LineOK, CallsOK
<1> DEFINE b == buf[t] \o First(k, inq)
<1>3. /\ Len(b) = Len(buf[t]) + k
      /\ \A i \in 1 .. Len(buf[t]) : b[i] = buf[t][i]
  <2>1. /\ Len(b) = Len(buf[t]) + Len(First(k, inq))
        /\ \A i \in 1 .. Len(buf[t]) + Len(First(k, inq)) :
              b[i] = IF i <= Len(buf[t]) THEN buf[t][i] ELSE First(k, inq)[i - Len(buf[t])]
    BY <1>2, ConcatProperties
  <2> QED BY <1>2, <2>1
<1>4. /\ pc'[t] = IF k = Missing(t) THEN "got" ELSE "loop"
      /\ buf'[t] = b /\ UNCHANGED call
      /\ \A u \in Thread \ {t} : pc'[u] = pc[u] /\ buf'[u] = buf[u]
  BY <1>1 DEF Taken, Goto, IInv, TypeOK, CallsOK
<1> SUFFICES ASSUME NEW u \in Thread PROVE OneLine(u)'
  BY DEF LineInv
<1>5. CASE u = t /\ call[t] = "readline"
  <2>1. Missing(t) = 1 BY <1>5 DEF Missing
  <2>2. k \in {0, 1} BY <1>1, <2>1 DEF Taken
  <2>3. \A i \in 1 .. Len(buf[t]) : buf[t][i] # 0 BY <1>5 DEF LineInv, OneLine
  <2>4. CASE k = 0
    <3>1. Len(b) = Len(buf[t]) /\ pc'[t] # "got" BY <1>2, <1>3, <1>4, <2>1, <2>4
    <3> HIDE DEF b
    <3> QED BY <1>2, <1>3, <1>4, <1>5, <2>3, <3>1 DEF OneLine
  <2>5. CASE k = 1
    <3>1. Len(b) = Len(buf[t]) + 1 /\ pc'[t] = "got" BY <1>3, <1>4, <2>1, <2>5
    <3>2. b # <<>> BY <1>2, <3>1
    <3> HIDE DEF b
    <3> QED BY <1>2, <1>3, <1>4, <1>5, <2>3, <3>1, <3>2 DEF OneLine
  <2> QED BY <2>2, <2>4, <2>5
<1>6. CASE ~(u = t /\ call[t] = "readline") BY <1>4, <1>6 DEF LineInv, OneLine
<1> QED BY <1>5, <1>6

(* Every action preserves LineInv.                                         *)
LEMMA LineStep == IInv /\ LineInv /\ [Next]_vars => LineInv'
<1> SUFFICES ASSUME IInv, LineInv, [Next]_vars PROVE LineInv'
  OBVIOUS
<1>0. TypeOK /\ HandleInv /\ LockInv /\ PollInv BY DEF IInv
<1>1. CASE OwnerStep BY <1>0, <1>1, OwnerEffect DEF Owner, locals, LineInv, OneLine
<1>a. CASE OpenerStep BY <1>0, <1>a, OpenerEffect DEF LineInv, OneLine
<1>b. ASSUME NEW t \in Thread, Abort(t) PROVE LineInv' BY <1>b DEF Abort, LineInv, OneLine
<1>2. ASSUME NEW t \in Thread, NEW c \in Calls, Enter(t, c) PROVE LineInv'
  <2>1. buf[t] = <<>> BY <1>0, <1>2 DEF Enter, PollInv, PollOK, LockInv, LockOK, Reads
  <2>2. pc'[t] # "got" BY <1>0, <1>2 DEF Enter, Wanted, TypeOK, CallsOK
  <2> QED BY <1>0, <1>2, <2>1, <2>2, EmptyLine DEF Enter, locals, TypeOK, CallsOK
<1>3. ASSUME NEW t \in Thread, LockRead(t) \/ LockWrite(t) PROVE LineInv'
  <2>1. pc[t] \in {"rlock", "wlock"} /\ pc'[t] # "got"
    BY <1>0, <1>3 DEF LockRead, LockWrite, Wanted, TypeOK, CallsOK
  <2>2. buf[t] = <<>>
    BY <1>0, <1>3, <2>1, SerialAssumption DEF LockRead, LockWrite, PollInv, PollOK,
       LockInv, LockOK, Reads, WriteLocked
  <2> QED BY <1>0, <1>3, <2>1, <2>2, EmptyLine DEF LockRead, LockWrite, locals, TypeOK, CallsOK
<1>4. ASSUME NEW t \in Thread, Read(t) PROVE LineInv'
  <2>1. CASE ReadBegins(t) BY <2>1, TakeLine DEF ReadBegins, At
  <2>2. CASE ReadTimesOut(t) BY <1>0, <2>2, ReturnLine DEF ReadTimesOut
  <2>3. CASE WaitReadable(t)
    <3>1. CASE Throw(t, "error") BY <1>0, <3>1, ReturnLine DEF Throw
    <3>2. CASE Goto(t, "ready") /\ UNCHANGED locals
      BY <1>0, <2>3, <3>2 DEF WaitReadable, At, Goto, locals, LineInv, OneLine, TypeOK, CallsOK
    <3> QED BY <2>3, <3>1, <3>2 DEF WaitReadable
  <2>4. CASE ReadReady(t)
    <3>1. CASE Throw(t, "gone") \/ Throw(t, "error") BY <1>0, <3>1, ReturnLine DEF Throw
    <3>2. CASE Take(t) BY <2>4, <3>2, TakeLine DEF ReadReady, At
    <3> QED BY <2>4, <3>1, <3>2 DEF ReadReady
  <2>5. CASE ReadGot(t)
    <3>1. CASE Return(t, "ok", buf[t]) BY <1>0, <3>1, ReturnLine
    <3>2. CASE ~LineEnds(t) /\ Goto(t, "run") /\ UNCHANGED locals
      BY <1>0, <2>5, <3>2 DEF ReadGot, At, LineEnds, Goto, locals, LineInv, OneLine,
         TypeOK, CallsOK
    <3> QED BY <2>5, <3>1, <3>2 DEF ReadGot
  <2> QED BY <1>4, <2>1, <2>2, <2>3, <2>4, <2>5 DEF Read
<1>5. ASSUME NEW t \in Thread, Write(t) PROVE LineInv'
  <2>0. call[t] = "write"
    BY <1>0, <1>5 DEF Write, WriteBegins, WriteTimesOut, WriteSome, WriteThrows, At, Writes,
       LockInv, LockOK
  <2>1. CASE Returns(t) BY <1>0, <2>1, ReturnLine DEF Returns
  <2>2. CASE \E l \in {"select", "again"} : Goto(t, l) /\ UNCHANGED buf
    BY <1>0, <2>0, <2>2 DEF Goto, LineInv, OneLine, TypeOK, CallsOK
  <2> QED BY <1>5, <2>1, <2>2 DEF Write, WriteBegins, WriteTimesOut, WriteSome, WriteThrows, Throw,
             Returns, locals
<1>6. ASSUME NEW t \in Thread,
             NotOpen(t) \/ Flush(t) \/ FlushInput(t) \/ FlushOutput(t) \/ SetPort(t)
      PROVE LineInv'
  BY <1>0, <1>6, ReturnLine, SetPortEffect DEF NotOpen, Flush, FlushInput, FlushOutput, Throw
<1>7. CASE Environment
  BY <1>7 DEF Environment, Expire, Arrive, DeviceTakes, Hangup, Attach, Outside, LineInv, OneLine
<1>8. CASE UNCHANGED vars BY <1>8 DEF vars, locals, LineInv, OneLine
<1> QED
  BY <1>1, <1>a, <1>b, <1>2, <1>3, <1>4, <1>5, <1>6, <1>7, <1>8
  DEF Next, OwnerStep, OpenerStep, Step

(* Whatever a readline returns is one line.                                *)
LEMMA LineReturned == IInv /\ LineInv /\ LinesWhole /\ [Next]_vars => LinesWhole'
<1> SUFFICES ASSUME IInv, LineInv, LinesWhole, [Next]_vars PROVE LinesWhole'
  OBVIOUS
<1>0. TypeOK /\ HandleInv /\ LockInv /\ PollInv BY DEF IInv
<1>1. ASSUME result' = NoResult PROVE LinesWhole' BY <1>1 DEF NoResult, LinesWhole
<1>2. ASSUME NEW t \in Thread, NEW how, Return(t, how, <<>>), call[t] # "readline" \/ how # "ok"
      PROVE LinesWhole'
  <2>1. result' = [call |-> call[t], data |-> <<>>, how |-> how, moved |-> moved[t]]
    BY <1>2 DEF Return
  <2>2. result'.call = call[t] /\ result'.data = <<>> /\ result'.how = how BY <2>1
  <2>3. Len(<<>>) = 0 OBVIOUS
  <2> QED BY <1>2, <2>2, <2>3 DEF LinesWhole
<1>3. ASSUME NEW t \in Thread, NEW how, Return(t, how, buf[t]),
             call[t] = "readline" => LineEnds(t) \/ how # "ok"
      PROVE LinesWhole'
  <2>1. result' = [call |-> call[t], data |-> buf[t], how |-> how, moved |-> moved[t]]
    BY <1>3 DEF Return
  <2>2. result'.call = call[t] /\ result'.data = buf[t] /\ result'.how = how BY <2>1
  <2> QED BY <1>3, <2>2 DEF LinesWhole, LineInv, OneLine, LineEnds
<1>4. CASE OwnerStep BY <1>0, <1>1, <1>4, OwnerEffect DEF Owner
<1>a. CASE OpenerStep BY <1>0, <1>1, <1>a, OpenerEffect
<1>b. ASSUME NEW t \in Thread, Abort(t) PROVE LinesWhole' BY <1>1, <1>b DEF Abort
<1>5. ASSUME NEW t \in Thread, NEW c \in Calls, Enter(t, c) PROVE LinesWhole'
  BY <1>1, <1>5 DEF Enter
<1>6. ASSUME NEW t \in Thread, LockRead(t) \/ LockWrite(t) PROVE LinesWhole'
  BY <1>1, <1>6 DEF LockRead, LockWrite
<1>7. ASSUME NEW t \in Thread, Read(t) PROVE LinesWhole'
  <2>1. CASE ReadTimesOut(t) BY <1>3, <2>1 DEF ReadTimesOut
  <2>2. CASE ReadGot(t) BY <1>1, <1>3, <2>2 DEF ReadGot, Goto
  <2>3. CASE ReadBegins(t) \/ WaitReadable(t) \/ ReadReady(t)
    BY <1>1, <1>2, <2>3 DEF ReadBegins, WaitReadable, ReadReady, Take, Goto, Throw
  <2> QED BY <1>7, <2>1, <2>2, <2>3 DEF Read
<1>8. ASSUME NEW t \in Thread, Write(t) PROVE LinesWhole'
  <2>1. call[t] = "write"
    BY <1>0, <1>8 DEF Write, WriteBegins, WriteTimesOut, WriteSome, WriteThrows, At, Writes,
       LockInv, LockOK
  <2> QED BY <1>1, <1>2, <1>8, <2>1 DEF Write, WriteBegins, WriteTimesOut, WriteSome, WriteThrows,
             Throw, Goto
<1>9. ASSUME NEW t \in Thread, NotOpen(t) \/ Flush(t) \/ FlushInput(t) \/ FlushOutput(t)
      PROVE LinesWhole'
  BY <1>2, <1>9 DEF NotOpen, Flush, FlushInput, FlushOutput, Throw, At
<1>10. ASSUME NEW t \in Thread, SetPort(t) PROVE LinesWhole'
  BY <1>0, <1>2, <1>10, SetPortEffect DEF At
<1>11. CASE Environment
  BY <1>1, <1>11 DEF Environment, Expire, Arrive, DeviceTakes, Hangup, Attach, Outside
<1>12. CASE UNCHANGED vars BY <1>12 DEF vars, LinesWhole
<1> QED
  BY <1>4, <1>a, <1>b, <1>5, <1>6, <1>7, <1>8, <1>9, <1>10, <1>11, <1>12
  DEF Next, OwnerStep, OpenerStep, Step

(* A readline returns one line, or one that is too long, or what came      *)
(* before the timeout, whatever the other threads read.                    *)
THEOREM LinesAreWhole == Spec => []LinesWhole
<1>1. Init => LineInv /\ LinesWhole
  <2> SUFFICES ASSUME Init PROVE LineInv /\ LinesWhole
    OBVIOUS
  <2>1. LineInv BY DEF Init, LineInv, OneLine
  <2>2. LinesWhole BY DEF Init, LinesWhole, NoResult
  <2> QED BY <2>1, <2>2
<1> QED BY <1>1, LineStep, LineReturned, Invariance, PTL DEF Spec

-----------------------------------------------------------------------------
(* The stream.  What the holder of read_mutex has read, and then what the  *)
(* kernel has, are the bytes that are not yet returned.  A call under      *)
(* which the port was closed or opened does not count.                     *)
Held == IF rlock = NoThread \/ moved[rlock] THEN <<>> ELSE buf[rlock]
Pending == Held \o inq
Given == IF result.moved THEN <<>> ELSE result.data

(* What a step does to the bytes that are not yet returned.                *)
KeepsBytes ==
  /\ UNCHANGED <<Held, inq, next, handle>> /\ Given' = <<>>
DropsBytes ==
  /\ Held' = <<>> /\ (inq' = inq \/ inq' = <<>>) /\ next' = next /\ Given' = <<>>
GivesBytes ==
  /\ Held' = <<>> /\ UNCHANGED <<inq, next>> /\ Given' = Held
SkipsBytes ==
  /\ Held = <<>> /\ Held' = <<>> /\ Given' = <<>> /\ next' = next
  /\ \E k \in 0 .. Len(inq) : inq' = Rest(k, inq)
MovesBytes ==
  /\ \E k \in 0 .. Len(inq) :
       /\ k > 0 => Live
       /\ Held' = Held \o First(k, inq) /\ inq' = Rest(k, inq)
  /\ UNCHANGED <<next, handle>> /\ Given' = <<>>
GetsByte ==
  /\ Held' = Held /\ inq' = Append(inq, next) /\ next' = (next + 1) % M
  /\ handle' = handle /\ Given' = <<>>
LosesTty ==
  /\ Held' = Held /\ inq' = <<>> /\ next' = next /\ ~Live' /\ Given' = <<>>

(* A call that does not hold read_mutex, or has read nothing, ends.        *)
LEMMA ReturnBytes ==
  ASSUME IInv, NEW t \in Thread, NEW how, Return(t, how, <<>>),
         UNCHANGED <<inq, next, handle>>
  PROVE  KeepsBytes \/ DropsBytes
<1>1. Given' = <<>>
  <2>1. result'.data = <<>> BY DEF Return
  <2> QED BY <2>1 DEF Given
<1>2. CASE rlock = t
  <2>1. Held' = <<>> BY <1>2 DEF Return, Held
  <2> QED BY <1>1, <2>1 DEF DropsBytes
<1>3. CASE rlock # t
  <2>1. rlock' = rlock BY <1>3 DEF Return
  <2>2. Held' = Held BY <1>3, <2>1 DEF Return, Held, IInv, TypeOK, CallsOK
  <2> QED BY <1>1, <2>2 DEF KeepsBytes
<1> QED BY <1>2, <1>3

(* Every step is one of them.                                              *)
LEMMA BytesEffect ==
  ASSUME IInv, Next
  PROVE  KeepsBytes \/ DropsBytes \/ GivesBytes \/ SkipsBytes \/ MovesBytes
           \/ GetsByte \/ LosesTty
<1>0. TypeOK /\ HandleInv /\ LockInv /\ PollInv BY DEF IInv
<1>a. ASSUME result' = NoResult PROVE Given' = <<>>
  <2>1. result'.data = <<>> BY <1>a DEF NoResult
  <2> QED BY <2>1 DEF Given
<1>b. ASSUME NEW t \in Thread, call[t] \in Reads, pc[t] # "rlock"
      PROVE rlock = t /\ rlock # NoThread /\ Held = (IF moved[t] THEN <<>> ELSE buf[t])
  BY <1>0, <1>b, SerialAssumption DEF LockInv, LockOK, Reads, ReadLocked, Held
<1>1. CASE OwnerStep
  <2>1. Owner /\ Dropped BY <1>0, <1>1, OwnerEffect
  <2>2. rlock = NoThread
    BY <1>0, <2>1 DEF Owner, AllIdle, LockInv, LockOK, ReadLocked, TypeOK, CallsOK
  <2>3. Held' = <<>> BY <2>1, <2>2 DEF Owner, locks, Held
  <2> QED BY <1>a, <2>1, <2>3 DEF Dropped, Owner, DropsBytes
<1>c. CASE OpenerStep
  <2>1. UNCHANGED <<rlock, wlock, pc, call, buf>> /\ result' = NoResult /\ Marked
    BY <1>0, <1>c, OpenerEffect DEF locks
  <2>2. CASE UNCHANGED <<handle, line, moved>>
    BY <1>a, <2>1, <2>2 DEF line, Held, KeepsBytes
  <2>3. CASE Dropped /\ moved' = [t \in Thread |-> moved[t] \/ Underway(t)]
    <3>1. ASSUME rlock # NoThread PROVE moved'[rlock] \/ buf[rlock] = <<>>
      <4>1. rlock \in Thread BY <1>0, <3>1 DEF TypeOK, CallsOK
      <4>2. moved'[rlock] = (moved[rlock] \/ Underway(rlock)) BY <2>3, <4>1
      <4>3. ~Underway(rlock) => buf[rlock] = <<>>
        BY <1>0, <4>1 DEF Underway, LockInv, LockOK, PollInv, PollOK, Reads, WriteLocked
      <4> QED BY <4>2, <4>3, Zenon
    <3>2. Held' = <<>> BY <2>1, <3>1 DEF Held
    <3> QED BY <1>a, <2>1, <2>3, <3>2 DEF Dropped, DropsBytes
  <2> QED BY <2>1, <2>2, <2>3 DEF Marked
<1>d. ASSUME NEW t \in Thread, Abort(t) PROVE DropsBytes
  BY <1>a, <1>d DEF Abort, Held, DropsBytes
<1>2. ASSUME NEW t \in Thread, NEW c \in Calls, Enter(t, c) PROVE KeepsBytes
  BY <1>a, <1>2 DEF Enter, locks, locals, line, object, Held, KeepsBytes
<1>3. ASSUME NEW t \in Thread, LockRead(t) PROVE KeepsBytes
  <2>1. buf[t] = <<>>
    BY <1>0, <1>3, SerialAssumption DEF LockRead, PollInv, PollOK
  <2>2. Held = <<>> /\ Held' = <<>> BY <1>3, <2>1 DEF LockRead, locals, Held
  <2> QED BY <1>3, <1>a, <2>2 DEF LockRead, line, object, KeepsBytes
<1>4. ASSUME NEW t \in Thread, LockWrite(t) PROVE KeepsBytes
  BY <1>4, <1>a DEF LockWrite, locals, line, object, Held, KeepsBytes
<1>5. ASSUME NEW t \in Thread, Read(t)
      PROVE KeepsBytes \/ DropsBytes \/ GivesBytes \/ SkipsBytes \/ MovesBytes
  <2>1. ASSUME Take(t), call[t] \in Reads, pc[t] \in {"run", "ready"}
        PROVE SkipsBytes \/ MovesBytes
    <3>1. PICK k \in Nat : Taken(t, k) BY <1>0, <2>1, TakeEffect
    <3>2. rlock = t /\ rlock # NoThread /\ Held = (IF moved[t] THEN <<>> ELSE buf[t])
      BY <1>b, <2>1
    <3>3. UNCHANGED <<rlock, moved, next, handle>> /\ buf'[t] = buf[t] \o First(k, inq)
          /\ inq' = Rest(k, inq) /\ k \in 0 .. Len(inq) /\ (k > 0 => Live)
      BY <3>1 DEF Taken, Goto, locks, object, IInv, TypeOK, CallsOK
    <3>4. Given' = <<>> BY <1>a, <3>1 DEF Taken, Goto
    <3>5. CASE moved[t]
      <4>1. Held = <<>> /\ Held' = <<>> BY <3>2, <3>3, <3>5 DEF Held
      <4> QED BY <3>3, <3>4, <4>1 DEF SkipsBytes
    <3>6. CASE ~moved[t]
      <4>1. Held' = Held \o First(k, inq) BY <3>2, <3>3, <3>6 DEF Held
      <4> QED BY <3>3, <3>4, <4>1 DEF MovesBytes
    <3> QED BY <3>5, <3>6
  <2>2. ASSUME NEW how, Return(t, how, buf[t]), call[t] \in Reads, pc[t] # "rlock", Stays
        PROVE GivesBytes
    <3>1. rlock = t /\ Held = (IF moved[t] THEN <<>> ELSE buf[t]) BY <1>b, <2>2
    <3>2. Held' = <<>> BY <2>2, <3>1 DEF Return, Held
    <3>3. result'.data = buf[t] /\ result'.moved = moved[t] BY <2>2 DEF Return
    <3>4. Given' = Held
      <4>1. CASE moved[t] BY <3>1, <3>3, <4>1, Zenon DEF Given
      <4>2. CASE ~moved[t] BY <3>1, <3>3, <4>2, Zenon DEF Given
      <4> QED BY <4>1, <4>2
    <3> QED BY <2>2, <3>2, <3>4 DEF Stays, line, GivesBytes
  <2>3. ASSUME NEW l, Goto(t, l), UNCHANGED locals, Stays PROVE KeepsBytes
    BY <1>a, <2>3 DEF Goto, locals, locks, Stays, line, object, Held, KeepsBytes
  <2>4. CASE ReadBegins(t) BY <2>1, <2>4 DEF ReadBegins, At
  <2>5. CASE ReadTimesOut(t) BY <2>2, <2>5 DEF ReadTimesOut, At
  <2>6. CASE WaitReadable(t)
    BY <2>3, <2>6, ReturnBytes DEF WaitReadable, Throw, Stays, line, object
  <2>7. CASE ReadReady(t)
    BY <2>1, <2>7, ReturnBytes DEF ReadReady, At, Throw, Stays, line, object
  <2>8. CASE ReadGot(t) BY <2>2, <2>3, <2>8 DEF ReadGot, At
  <2> QED BY <1>5, <2>4, <2>5, <2>6, <2>7, <2>8 DEF Read
<1>6. ASSUME NEW t \in Thread, Write(t) PROVE KeepsBytes \/ DropsBytes
  <2>1. UNCHANGED <<inq, next, handle>>
    BY <1>6 DEF Write, WriteBegins, WriteTimesOut, WriteSome, WriteThrows, Stays, line, object
  <2>2. CASE \E how : Return(t, how, <<>>) BY <2>1, <2>2, ReturnBytes
  <2>3. CASE (\E l : Goto(t, l)) /\ UNCHANGED <<buf, moved>>
    BY <1>a, <2>1, <2>3 DEF Goto, locks, Held, KeepsBytes
  <2> QED BY <1>6, <2>2, <2>3 DEF Write, WriteBegins, WriteTimesOut, WriteSome, WriteThrows,
             Throw, locals
<1>7. ASSUME NEW t \in Thread, NotOpen(t) \/ Flush(t) \/ FlushOutput(t)
      PROVE KeepsBytes \/ DropsBytes
  BY <1>7, ReturnBytes DEF NotOpen, Flush, FlushOutput, Throw, Stays, line, object
<1>8. ASSUME NEW t \in Thread, FlushInput(t) PROVE DropsBytes
  <2>1. rlock = t BY <1>0, <1>8 DEF FlushInput, At, LockInv, LockOK, ReadLocked
  <2>2. Return(t, "ok", <<>>) BY <1>8 DEF FlushInput
  <2>3. Held' = <<>> /\ Given' = <<>> BY <2>1, <2>2 DEF Return, Held, Given
  <2> QED BY <1>8, <2>3 DEF FlushInput, DropsBytes
<1>9. ASSUME NEW t \in Thread, SetPort(t) PROVE DropsBytes
  <2>1. rlock = t BY <1>0, <1>9, SetPortEffect DEF At, LockInv, LockOK, ReadLocked
  <2>2. PICK how \in {"ok", "error"} : Return(t, how, <<>>) BY <1>0, <1>9, SetPortEffect
  <2>3. Held' = <<>> /\ Given' = <<>> BY <2>1, <2>2 DEF Return, Held, Given
  <2>4. UNCHANGED <<handle, line>> \/ Dropped BY <1>0, <1>9, SetPortEffect
  <2> QED BY <2>3, <2>4 DEF line, Dropped, DropsBytes
<1>10. CASE Environment
  <2>1. ASSUME Outside PROVE Held' = Held /\ Given' = <<>>
    BY <1>a, <2>1 DEF Outside, locks, Held
  <2>2. CASE Arrive BY <2>1, <2>2 DEF Arrive, GetsByte
  <2>3. CASE Hangup
    BY <2>1, <2>3 DEF Hangup, Live, LosesTty, IInv, TypeOK, ObjectOK, Handles
  <2>4. CASE DeviceTakes \/ Attach \/ \E t \in Thread : Expire(t)
    BY <2>1, <2>4 DEF DeviceTakes, Attach, Expire, line, KeepsBytes
  <2> QED BY <1>10, <2>2, <2>3, <2>4 DEF Environment
<1> QED
  BY <1>1, <1>c, <1>d, <1>2, <1>3, <1>4, <1>5, <1>6, <1>7, <1>8, <1>9, <1>10
  DEF Next, OwnerStep, OpenerStep, Step

(* The pieces in order: each is without a gap, and each goes on where the  *)
(* one before it ends, as long as the tty has not been lost in between.    *)
Gapless(s) == Stream!Gapless(s)
GaplessInv ==
  /\ Gapless(Held) /\ Gapless(inq)
  /\ inq # <<>> => next = (LastOf(inq) + 1) % M
  /\ Live /\ Held # <<>> => (IF inq = <<>> THEN next ELSE inq[1]) = (LastOf(Held) + 1) % M

(* Two pieces that fit make one without a gap.                             *)
LEMMA GaplessConcat ==
  ASSUME NEW s \in Seq(Bytes), NEW r \in Seq(Bytes), Gapless(s), Gapless(r),
         s # <<>> /\ r # <<>> => r[1] = (LastOf(s) + 1) % M
  PROVE  /\ s \o r \in Seq(Bytes) /\ Gapless(s \o r)
         /\ r # <<>> => LastOf(s \o r) = LastOf(r)
<1> DEFINE c == s \o r
<1>1. /\ c \in Seq(Bytes) /\ Len(c) = Len(s) + Len(r)
      /\ \A i \in 1 .. Len(s) + Len(r) : c[i] = IF i <= Len(s) THEN s[i] ELSE r[i - Len(s)]
  BY ConcatProperties
<1>2. Len(s) \in Nat /\ Len(r) \in Nat /\ (r # <<>> => Len(r) # 0) /\ (s # <<>> => Len(s) # 0)
  BY EmptySeq, LenProperties
<1> HIDE DEF c
<1>3. ASSUME NEW i \in 1 .. Len(c) - 1 PROVE c[i + 1] = (c[i] + 1) % M
  <2>1. CASE i < Len(s) BY <1>1, <1>2, <2>1 DEF Gapless, Stream!Gapless
  <2>2. CASE i = Len(s)
    <3>1. Len(s) # 0 /\ Len(r) # 0 /\ i \in Nat BY <1>1, <1>2, <2>2
    <3>2. s # <<>> /\ r # <<>> BY <3>1, EmptySeq
    <3>3. c[i] = s[i] BY <1>1, <1>2, <2>2, <3>1
    <3>4. c[i + 1] = r[(i + 1) - Len(s)] BY <1>1, <1>2, <2>2, <3>1
    <3>5. (i + 1) - Len(s) = 1 BY <1>2, <2>2
    <3>6. c[i] = LastOf(s) /\ c[i + 1] = r[1] BY <2>2, <3>3, <3>4, <3>5 DEF LastOf
    <3> QED BY <3>2, <3>6
  <2>3. CASE i > Len(s)
    <3>1. i - Len(s) \in 1 .. Len(r) - 1 BY <1>1, <1>2, <2>3
    <3>2. r[(i - Len(s)) + 1] = (r[i - Len(s)] + 1) % M BY <3>1 DEF Gapless, Stream!Gapless
    <3>3. c[i] = r[i - Len(s)] /\ c[i + 1] = r[(i - Len(s)) + 1] BY <1>1, <1>2, <2>3
    <3> QED BY <3>2, <3>3
  <2> QED BY <1>2, <2>1, <2>2, <2>3
<1>4. r # <<>> => LastOf(c) = LastOf(r) BY <1>1, <1>2 DEF LastOf
<1> QED BY <1>1, <1>3, <1>4 DEF Gapless, Stream!Gapless, c

(* Both parts of a split sequence are without a gap, and fit.              *)
LEMMA GaplessSplit ==
  ASSUME NEW s \in Seq(Bytes), Gapless(s), NEW k \in 0 .. Len(s)
  PROVE  /\ Gapless(First(k, s)) /\ Gapless(Rest(k, s))
         /\ k > 0 /\ k < Len(s) => Rest(k, s)[1] = (LastOf(First(k, s)) + 1) % M
         /\ k < Len(s) => Rest(k, s) # <<>> /\ LastOf(Rest(k, s)) = LastOf(s)
         /\ k = Len(s) => Rest(k, s) = <<>> /\ First(k, s) = s
         /\ k > 0 => First(k, s) # <<>> /\ First(k, s)[1] = s[1]
<1>1. /\ First(k, s) \in Seq(Bytes) /\ Len(First(k, s)) = k
      /\ \A i \in 1 .. k : First(k, s)[i] = s[i]
      /\ Rest(k, s) \in Seq(Bytes) /\ Len(Rest(k, s)) = Len(s) - k
      /\ \A i \in 1 .. Len(s) - k : Rest(k, s)[i] = s[k + i]
      /\ Len(s) \in Nat
  BY Split, LenProperties
<1>2. \A i \in 1 .. Len(s) - 1 : s[i + 1] = (s[i] + 1) % M BY DEF Gapless, Stream!Gapless
<1>3. Gapless(First(k, s)) BY <1>1, <1>2 DEF Gapless, Stream!Gapless
<1>4. Gapless(Rest(k, s))
  <2>1. ASSUME NEW i \in 1 .. Len(Rest(k, s)) - 1
        PROVE Rest(k, s)[i + 1] = (Rest(k, s)[i] + 1) % M
    <3>1. /\ i \in 1 .. Len(s) - k /\ i + 1 \in 1 .. Len(s) - k
          /\ k + i \in 1 .. Len(s) - 1 /\ k + (i + 1) = (k + i) + 1
      BY <1>1
    <3>2. Rest(k, s)[i] = s[k + i] /\ Rest(k, s)[i + 1] = s[(k + i) + 1] BY <1>1, <3>1
    <3> QED BY <1>2, <3>1, <3>2
  <2> QED BY <2>1 DEF Gapless, Stream!Gapless
<1>5. ASSUME k > 0, k < Len(s) PROVE Rest(k, s)[1] = (LastOf(First(k, s)) + 1) % M
  <2>1. k \in 1 .. Len(s) - 1 /\ k \in 1 .. k /\ 1 \in 1 .. Len(s) - k BY <1>1, <1>5
  <2>2. Rest(k, s)[1] = s[k + 1] /\ LastOf(First(k, s)) = s[k] BY <1>1, <2>1 DEF LastOf
  <2> QED BY <1>2, <2>1, <2>2
<1>6. k < Len(s) => Rest(k, s) # <<>> /\ LastOf(Rest(k, s)) = LastOf(s) BY <1>1 DEF LastOf
<1>7. k = Len(s) => Rest(k, s) = <<>> /\ First(k, s) = s
  BY <1>1, SubSeqFull, SubSeqEmpty DEF First, Rest
<1>8. k > 0 => First(k, s) # <<>> /\ First(k, s)[1] = s[1] BY <1>1
<1> QED BY <1>3, <1>4, <1>5, <1>6, <1>7, <1>8

(* The types of the pieces.                                                *)
LEMMA HeldTypes ==
  ASSUME TypeOK PROVE Held \in Seq(Bytes) /\ inq \in Seq(Bytes) /\ next \in Bytes
BY EmptySeq DEF TypeOK, LineOK, CallsOK, Held

(* A sequence of no or one element has no gap.                             *)
LEMMA GaplessShort == Gapless(<<>>) /\ \A e : Gapless(<<e>>)
BY DEF Gapless, Stream!Gapless

(* Every action preserves GaplessInv.                                      *)
LEMMA GaplessStep == IInv /\ IInv' /\ GaplessInv /\ [Next]_vars => GaplessInv'
<1> SUFFICES ASSUME IInv, IInv', GaplessInv, [Next]_vars PROVE GaplessInv'
  OBVIOUS
<1>0. Held \in Seq(Bytes) /\ inq \in Seq(Bytes) /\ next \in Bytes BY HeldTypes DEF IInv
<1>1. CASE KeepsBytes BY <1>1 DEF KeepsBytes, GaplessInv, Live
<1>2. CASE DropsBytes BY <1>2, GaplessShort DEF DropsBytes, GaplessInv
<1>3. CASE GivesBytes BY <1>3, GaplessShort DEF GivesBytes, GaplessInv
<1>a. CASE SkipsBytes
  <2>1. PICK k \in 0 .. Len(inq) : inq' = Rest(k, inq) BY <1>a DEF SkipsBytes
  <2>2. Held' = <<>> /\ next' = next BY <1>a DEF SkipsBytes
  <2>3. Gapless(inq) BY DEF GaplessInv
  <2>4. /\ Gapless(Rest(k, inq))
        /\ k < Len(inq) => LastOf(Rest(k, inq)) = LastOf(inq)
        /\ k = Len(inq) => Rest(k, inq) = <<>>
    BY <1>0, <2>3, GaplessSplit
  <2>5. inq' # <<>> => inq # <<>> /\ LastOf(inq') = LastOf(inq)
    <3>1. Len(inq) \in Nat /\ (k < Len(inq) => inq # <<>>) BY <1>0
    <3> QED BY <2>1, <2>4, <3>1
  <2> QED BY <2>1, <2>2, <2>4, <2>5, GaplessShort DEF GaplessInv
<1>4. CASE MovesBytes
  <2>1. PICK k \in 0 .. Len(inq) :
          /\ k > 0 => Live
          /\ Held' = Held \o First(k, inq) /\ inq' = Rest(k, inq)
    BY <1>4 DEF MovesBytes
  <2>2. UNCHANGED <<next, handle>> BY <1>4 DEF MovesBytes
  <2>3. Gapless(inq) BY DEF GaplessInv
  <2>4. /\ Gapless(First(k, inq)) /\ Gapless(Rest(k, inq))
        /\ k > 0 /\ k < Len(inq) => Rest(k, inq)[1] = (LastOf(First(k, inq)) + 1) % M
        /\ k < Len(inq) => Rest(k, inq) # <<>> /\ LastOf(Rest(k, inq)) = LastOf(inq)
        /\ k = Len(inq) => Rest(k, inq) = <<>> /\ First(k, inq) = inq
        /\ k > 0 => First(k, inq) # <<>> /\ First(k, inq)[1] = inq[1]
    BY <1>0, <2>3, GaplessSplit
  <2>5. First(k, inq) \in Seq(Bytes) /\ Len(First(k, inq)) = k /\ Rest(k, inq) \in Seq(Bytes)
    BY <1>0, Split
  <2>6. CASE k = 0
    <3>1. First(k, inq) = <<>> /\ Rest(k, inq) = inq
      BY <1>0, <2>6, SubSeqFull, SubSeqEmpty DEF First, Rest
    <3>2. Held' = Held /\ inq' = inq BY <1>0, <2>1, <3>1, ConcatEmptySeq
    <3> QED BY <2>2, <3>2 DEF GaplessInv, Live
  <2>7. CASE k > 0
    <3>1. Live /\ inq # <<>> BY <1>0, <2>1, <2>7
    <3>2. Held # <<>> => First(k, inq)[1] = (LastOf(Held) + 1) % M
      BY <2>4, <2>7, <3>1 DEF GaplessInv
    <3>3. Gapless(Held') /\ LastOf(Held') = LastOf(First(k, inq))
      BY <1>0, <2>1, <2>4, <2>5, <2>7, <3>2, GaplessConcat DEF GaplessInv
    <3>4. next = (LastOf(inq) + 1) % M BY <3>1 DEF GaplessInv
    <3>5. CASE k < Len(inq) BY <2>1, <2>2, <2>4, <2>7, <3>3, <3>4, <3>5 DEF GaplessInv
    <3>6. CASE k = Len(inq) BY <2>1, <2>2, <2>4, <3>3, <3>4, <3>6 DEF GaplessInv
    <3> QED BY <1>0, <3>5, <3>6, LenProperties
  <2> QED BY <2>6, <2>7
<1>5. CASE GetsByte
  <2>1. inq' = inq \o <<next>> BY <1>0, <1>5, AppendIsConcat DEF GetsByte
  <2>2. <<next>> \in Seq(Bytes) /\ <<next>> # <<>> /\ <<next>>[1] = next /\ LastOf(<<next>>) = next
    BY <1>0 DEF LastOf
  <2>3. Gapless(inq') /\ LastOf(inq') = next /\ inq' # <<>>
    <3>1. Gapless(inq) /\ Gapless(<<next>>) BY GaplessShort DEF GaplessInv
    <3>2. inq # <<>> => <<next>>[1] = (LastOf(inq) + 1) % M BY <2>2 DEF GaplessInv
    <3>3. Gapless(inq \o <<next>>) /\ LastOf(inq \o <<next>>) = next
      BY <1>0, <2>2, <3>1, <3>2, GaplessConcat
    <3>4. inq' # <<>> BY <1>0, <1>5, AppendProperties DEF GetsByte
    <3> QED BY <2>1, <3>3, <3>4
  <2>4. inq'[1] = IF inq = <<>> THEN next ELSE inq[1]
    BY <1>0, <1>5, AppendProperties, EmptySeq DEF GetsByte
  <2>5. next' = (LastOf(inq') + 1) % M BY <1>5, <2>3 DEF GetsByte
  <2> QED BY <1>5, <2>3, <2>4, <2>5 DEF GetsByte, GaplessInv, Live
<1>6. CASE LosesTty BY <1>6, GaplessShort DEF LosesTty, GaplessInv, Live
<1>7. CASE UNCHANGED vars
  BY <1>7 DEF vars, object, line, locks, locals, GaplessInv, Held, Live
<1> QED BY <1>1, <1>2, <1>3, <1>a, <1>4, <1>5, <1>6, <1>7, BytesEffect

(* The two pieces of what is not yet returned, as ByteStream cuts them.    *)
LEMMA Cuts ==
  ASSUME NEW s \in Seq(Bytes), NEW r \in Seq(Bytes)
  PROVE  /\ SubSeq(s \o r, 1, Len(s)) = s
         /\ SubSeq(s \o r, Len(s) + 1, Len(s \o r)) = r
         /\ SubSeq(s \o r, 1, 0) = <<>>
         /\ Len(s) \in 0 .. Len(s \o r) /\ 0 \in 0 .. Len(s \o r)
<1> DEFINE c == s \o r
<1>1. /\ c \in Seq(Bytes) /\ Len(c) = Len(s) + Len(r) /\ Len(s) \in Nat /\ Len(r) \in Nat
      /\ \A i \in 1 .. Len(s) + Len(r) : c[i] = IF i <= Len(s) THEN s[i] ELSE r[i - Len(s)]
  BY ConcatProperties, LenProperties
<1> HIDE DEF c
<1>2. Len(s) \in 0 .. Len(c) /\ 0 \in 0 .. Len(c) BY <1>1
<1>3. /\ First(Len(s), c) \in Seq(Bytes) /\ Len(First(Len(s), c)) = Len(s)
      /\ \A i \in 1 .. Len(s) : First(Len(s), c)[i] = c[i]
      /\ Rest(Len(s), c) \in Seq(Bytes) /\ Len(Rest(Len(s), c)) = Len(c) - Len(s)
      /\ \A i \in 1 .. Len(c) - Len(s) : Rest(Len(s), c)[i] = c[Len(s) + i]
  BY <1>1, <1>2, Split
<1>4. First(Len(s), c) = s
  <2>1. \A i \in 1 .. Len(s) : First(Len(s), c)[i] = s[i] BY <1>1, <1>3
  <2> QED BY <1>3, <2>1, SeqEqual
<1>5. Rest(Len(s), c) = r
  <2>1. Len(c) - Len(s) = Len(r) BY <1>1
  <2>2. ASSUME NEW i \in 1 .. Len(r) PROVE Rest(Len(s), c)[i] = r[i]
    <3>1. /\ Len(s) + i \in 1 .. Len(s) + Len(r) /\ ~(Len(s) + i <= Len(s))
          /\ (Len(s) + i) - Len(s) = i
      BY <1>1
    <3>2. c[Len(s) + i] = r[i] BY <1>1, <3>1
    <3> QED BY <1>3, <2>1, <3>2
  <2> QED BY <1>3, <2>1, <2>2, SeqEqual
<1>6. SubSeq(c, 1, 0) = <<>> BY SubSeqEmpty
<1> QED BY <1>2, <1>4, <1>5, <1>6 DEF First, Rest, c

(* Every step is a step of ByteStream, or changes nothing it can see.      *)
LEMMA StreamStep == IInv /\ GaplessInv /\ [Next]_vars => [Stream!Next]_(Stream!vars)
<1> SUFFICES ASSUME IInv, GaplessInv, [Next]_vars PROVE [Stream!Next]_(Stream!vars)
  OBVIOUS
<1>0. Held \in Seq(Bytes) /\ inq \in Seq(Bytes) /\ next \in Bytes BY HeldTypes DEF IInv
<1>a. Pending = (IF rlock = NoThread \/ moved[rlock] THEN <<>> ELSE buf[rlock]) \o inq
  BY DEF Pending, Held
<1>b. Pending' = (IF rlock' = NoThread \/ moved'[rlock'] THEN <<>> ELSE buf'[rlock']) \o inq'
  BY DEF Pending, Held
<1>c. Given' = (IF result'.moved THEN <<>> ELSE result'.data) BY DEF Given
<1>1. /\ Pending \in Seq(Bytes) /\ SubSeq(Pending, 1, Len(Pending)) = Pending
      /\ SubSeq(Pending, 1, Len(Held)) = Held
      /\ SubSeq(Pending, Len(Held) + 1, Len(Pending)) = inq
      /\ SubSeq(Pending, 1, 0) = <<>>
      /\ Len(Held) \in 0 .. Len(Pending) /\ 0 \in 0 .. Len(Pending)
      /\ Len(Pending) \in 0 .. Len(Pending)
  <2>1. Pending \in Seq(Bytes) BY <1>0, ConcatProperties DEF Pending
  <2>2. Len(Pending) \in Nat /\ SubSeq(Pending, 1, Len(Pending)) = Pending
    BY <2>1, SubSeqFull, LenProperties
  <2>3. /\ SubSeq(Held \o inq, 1, Len(Held)) = Held
        /\ SubSeq(Held \o inq, Len(Held) + 1, Len(Held \o inq)) = inq
        /\ SubSeq(Held \o inq, 1, 0) = <<>>
        /\ Len(Held) \in 0 .. Len(Held \o inq) /\ 0 \in 0 .. Len(Held \o inq)
    BY <1>0, Cuts
  <2>4. Pending = Held \o inq BY DEF Pending
  <2> QED BY <2>1, <2>2, <2>3, <2>4
<1>2. ASSUME NEW n \in 0 .. Len(Pending), next' = next, Given' = <<>>,
             Pending' = SubSeq(Pending, 1, n) \/ Pending' = SubSeq(Pending, n + 1, Len(Pending))
      PROVE Stream!Lose
  BY <1>2, <1>a, <1>b, <1>c DEF Stream!Lose
<1>3. <<>> \o <<>> = <<>> /\ Held \o <<>> = Held /\ <<>> \o inq = inq
  BY <1>0, ConcatEmptySeq, EmptySeq
<1>4. CASE KeepsBytes
  <2>1. Pending' = Pending BY <1>4 DEF KeepsBytes, Pending
  <2> QED BY <1>1, <1>2, <1>4, <2>1 DEF KeepsBytes, Stream!Next
<1>5. CASE DropsBytes
  <2>1. Pending' = inq \/ Pending' = <<>> BY <1>3, <1>5 DEF DropsBytes, Pending
  <2> QED BY <1>1, <1>2, <1>5, <2>1 DEF DropsBytes, Stream!Next
<1>6. CASE GivesBytes
  <2>1. Pending' = inq BY <1>3, <1>6 DEF GivesBytes, Pending
  <2>2. Given' = Held /\ next' = next BY <1>6 DEF GivesBytes
  <2>3. Stream!Gapless(Held) BY DEF GaplessInv, Gapless
  <2>4. Stream!Receive
    <3>1. /\ Given' = SubSeq(Pending, 1, Len(Held))
          /\ Pending' = SubSeq(Pending, Len(Held) + 1, Len(Pending))
          /\ Stream!Gapless(Given')
      BY <1>1, <2>1, <2>2, <2>3
    <3> QED BY <1>1, <1>a, <1>b, <1>c, <2>2, <3>1 DEF Stream!Receive, Stream!Gapless
  <2> QED BY <2>4 DEF Stream!Next
<1>d. CASE SkipsBytes
  <2>1. PICK k \in 0 .. Len(inq) : inq' = Rest(k, inq) BY <1>d DEF SkipsBytes
  <2>2. Pending = inq BY <1>3, <1>d DEF SkipsBytes, Pending
  <2>3. Rest(k, inq) \in Seq(Bytes) BY <1>0, Split
  <2>4. Pending' = Rest(k, inq) BY <1>d, <2>1, <2>3, ConcatEmptySeq DEF SkipsBytes, Pending
  <2>5. Pending' = SubSeq(Pending, k + 1, Len(Pending)) BY <2>2, <2>4 DEF Rest
  <2> QED BY <1>2, <1>d, <2>2, <2>5 DEF SkipsBytes, Stream!Next
<1>7. CASE MovesBytes
  <2>1. PICK k \in 0 .. Len(inq) : Held' = Held \o First(k, inq) /\ inq' = Rest(k, inq)
    BY <1>7 DEF MovesBytes
  <2>a. First(k, inq) \in Seq(Bytes) /\ Rest(k, inq) \in Seq(Bytes) BY <1>0, Split
  <2>2. First(k, inq) \o Rest(k, inq) = inq BY <1>0, Split
  <2>3. ASSUME NEW f \in Seq(Bytes), NEW r \in Seq(Bytes)
        PROVE (Held \o f) \o r = Held \o (f \o r)
    BY <1>0, ConcatAssociative, SMTT(30)
  <2>4. PICK f \in Seq(Bytes), r \in Seq(Bytes) : f = First(k, inq) /\ r = Rest(k, inq)
    BY <2>a
  <2>5. Pending' = (Held \o f) \o r BY <2>1, <2>4 DEF Pending
  <2>6. Pending = Held \o (f \o r) BY <2>2, <2>4 DEF Pending
  <2>7. Pending' = Pending BY <2>3, <2>5, <2>6
  <2> QED BY <1>1, <1>2, <1>7, <2>7 DEF MovesBytes, Stream!Next
<1>8. CASE GetsByte
  <2>1. Pending' = Held \o Append(inq, next) BY <1>8 DEF GetsByte, Pending
  <2>2. Append(inq, next) = inq \o <<next>> /\ <<next>> \in Seq(Bytes)
    BY <1>0, AppendIsConcat
  <2>3. Held \o (inq \o <<next>>) = (Held \o inq) \o <<next>>
    BY <1>0, <2>2, ConcatAssociative
  <2>4. Append(Pending, next) = Pending \o <<next>> BY <1>0, <1>1, AppendIsConcat
  <2>5. Pending' = Append(Pending, next) BY <2>1, <2>2, <2>3, <2>4 DEF Pending
  <2>6. Stream!Send BY <1>8, <1>a, <1>b, <1>c, <2>5 DEF GetsByte, Stream!Send
  <2> QED BY <2>6 DEF Stream!Next
<1>9. CASE LosesTty
  <2>1. Pending' = Held BY <1>3, <1>9 DEF LosesTty, Pending
  <2> QED BY <1>1, <1>2, <1>9, <2>1 DEF LosesTty, Stream!Next
<1>10. CASE UNCHANGED vars
  BY <1>10 DEF vars, line, locks, locals, Stream!vars
<1> QED BY <1>4, <1>5, <1>6, <1>d, <1>7, <1>8, <1>9, <1>10, BytesEffect

(* SerialPort implements ByteStream: bytes reach the callers in order,     *)
(* without gaps and each of them once, whatever threads read, flush, time  *)
(* out or reopen the port.  Only a call under which it was closed or       *)
(* opened may have a gap.                                                  *)
THEOREM ImplementsByteStream == Spec => StreamInOrder
<1>1. Init => GaplessInv /\ Stream!Init
  <2> SUFFICES ASSUME Init PROVE GaplessInv /\ Stream!Init
    OBVIOUS
  <2>1. Held = <<>> /\ inq = <<>> BY DEF Init, Held
  <2>2. GaplessInv BY <2>1, GaplessShort DEF GaplessInv
  <2>3. <<>> \o <<>> = <<>> BY ConcatEmptySeq, EmptySeq
  <2>4. NoResult.moved = FALSE /\ NoResult.data = <<>> BY DEF NoResult
  <2>5. Stream!Init BY <2>3, <2>4 DEF Init, Stream!Init
  <2> QED BY <2>2, <2>5
<1> QED
  BY <1>1, GaplessStep, StreamStep, Invariance, PTL DEF Spec, StreamInOrder, Stream!Spec

-----------------------------------------------------------------------------
(* Commands.  A write in progress has put its last byte behind everything  *)
(* that is on its way, unless the device has it already; when the tty went *)
(* away under it there is nothing.                                         *)
Follows(a, b) == IF a[2] = Command THEN b[2] = 1 ELSE b = <<a[1], a[2] + 1>>
Ordered(s) == s[1][2] = 1 /\ \A i \in 1 .. Len(s) - 1 : Follows(s[i], s[i + 1])
OnTheWay == cmd \o outq
InProgress(b) == b[2] < Command => pc[b[1]] = "again" /\ put[b[1]] = b[2]

LastPut(t) ==
  put[t] > 0 =>
    /\ outq # <<>> => LastOf(outq) = <<t, put[t]>>
    /\ Live /\ outq = <<>> /\ ~cut => cmd # <<>> /\ LastOf(cmd) = <<t, put[t]>>
    /\ ~Live /\ ~cut => cmd = <<>> /\ outq = <<>>

CommandInv ==
  /\ ~cut /\ OnTheWay # <<>> => Ordered(OnTheWay) /\ InProgress(LastOf(OnTheWay))
  /\ \A t \in Thread : LastPut(t)

(* The first conjunct is CommandsWhole.                                    *)
LEMMA CommandsWholeParts ==
  CommandsWhole <=> (~cut /\ OnTheWay # <<>> => Ordered(OnTheWay) /\ InProgress(LastOf(OnTheWay)))
BY DEF CommandsWhole, OnTheWay, Ordered, Follows, InProgress, LastOf

(* Only the holder of write_mutex has a write in progress.                 *)
LEMMA OnePut == ASSUME IInv, NEW t \in Thread, put[t] > 0 PROVE wlock = t /\ pc[t] = "again"
<1>1. PollOK(t) /\ LockOK(t) BY DEF IInv, PollInv, LockInv
<1>2. put[t] # 0 OBVIOUS
<1>3. pc[t] = "again" BY <1>1, <1>2 DEF PollOK
<1> QED BY <1>1, <1>3 DEF LockOK, WriteLocked

(* The types of what is on its way.                                        *)
LEMMA OnTheWayTypes ==
  ASSUME TypeOK
  PROVE  /\ OnTheWay \in Seq(Written) /\ cmd \in Seq(Written) /\ outq \in Seq(Written)
         /\ OnTheWay # <<>> =>
              LastOf(OnTheWay)[1] \in Thread /\ LastOf(OnTheWay)[2] \in 1 .. Command
<1>1. OnTheWay \in Seq(Written) /\ cmd \in Seq(Written) /\ outq \in Seq(Written)
  BY ConcatProperties DEF TypeOK, LineOK, OnTheWay
<1>2. ASSUME OnTheWay # <<>> PROVE LastOf(OnTheWay) \in Thread \X (1 .. Command)
  <2>1. Len(OnTheWay) \in Nat \ {0} BY <1>1, <1>2, EmptySeq
  <2> QED BY <1>1, <2>1, ElementOfSeq DEF LastOf, Written
<1> QED BY <1>1, <1>2

(* What a step does to the commands.                                       *)
KeepsCommands(t) ==
  /\ UNCHANGED <<handle, outq, cmd>> /\ (cut => cut')
  /\ put[t] > 0 => cut' \/ (cmd = <<>> /\ outq = <<>>)
  /\ put'[t] = 0 /\ \A u \in Thread \ {t} : pc'[u] = pc[u] /\ put'[u] = put[u]

(* A call that ends, or that has not written yet, leaves the commands of   *)
(* the others as they are; its own, if unfinished, is counted as cut.      *)
LEMMA KeepStep ==
  ASSUME IInv, CommandInv, NEW t \in Thread, KeepsCommands(t) PROVE CommandInv'
<1>1. OnTheWay' = OnTheWay BY DEF KeepsCommands, OnTheWay
<1>2. ~cut' => ~cut BY DEF KeepsCommands
<1>3. ASSUME ~cut', OnTheWay' # <<>> PROVE Ordered(OnTheWay') /\ InProgress(LastOf(OnTheWay))'
  <2>1. Ordered(OnTheWay) /\ InProgress(LastOf(OnTheWay)) /\ OnTheWay # <<>>
    BY <1>1, <1>2, <1>3 DEF CommandInv
  <2> DEFINE b == LastOf(OnTheWay)
  <2>2. b[1] \in Thread /\ b[2] \in 1 .. Command BY <2>1, OnTheWayTypes DEF IInv
  <2>3. put[t] > 0 => FALSE
    <3>1. <<>> \o <<>> = <<>> BY ConcatEmptySeq, EmptySeq
    <3> QED BY <1>3, <2>1, <3>1 DEF KeepsCommands, OnTheWay
  <2>4. put[t] \in 0 .. Command BY DEF IInv, TypeOK, CallsOK
  <2>5. InProgress(b)'
    <3> SUFFICES ASSUME b[2] < Command PROVE pc'[b[1]] = "again" /\ put'[b[1]] = b[2]
      BY <1>1 DEF InProgress
    <3>1. pc[b[1]] = "again" /\ put[b[1]] = b[2] BY <2>1 DEF InProgress
    <3>2. b[1] # t BY <2>2, <2>3, <2>4, <3>1
    <3> QED BY <2>2, <3>1, <3>2 DEF KeepsCommands
  <2> QED BY <1>1, <2>1, <2>5
<1>4. \A u \in Thread : LastPut(u)' BY <1>2 DEF KeepsCommands, CommandInv, LastPut, Live
<1> QED BY <1>3, <1>4 DEF KeepsCommands, CommandInv

(* When the output is dropped no write is in progress, and the command     *)
(* that the device has in part, if any, is counted as cut.                 *)
LEMMA DropStep ==
  ASSUME IInv, CommandInv, outq' = <<>>, cmd' = cmd, ~cut' => ~cut /\ cmd = <<>>,
         \A t \in Thread : put'[t] = 0
  PROVE  CommandInv'
<1>1. ~cut' => OnTheWay' = <<>> BY ConcatEmptySeq, EmptySeq DEF OnTheWay
<1>2. \A t \in Thread : LastPut(t)' BY DEF LastPut
<1> QED BY <1>1, <1>2 DEF CommandInv

(* When the port is closed or opened under a write, its command counts as  *)
(* cut; when there is none, what is on its way is whole, or is dropped.    *)
LEMMA MoveStep ==
  ASSUME IInv, CommandInv, Dropped, UNCHANGED <<pc, put>> PROVE CommandInv'
<1>0. ASSUME NEW t \in Thread PROVE put[t] \in Nat BY DEF IInv, TypeOK, CallsOK
<1>1. /\ cmd' = cmd /\ (outq' = outq \/ outq' = <<>>)
      /\ (cut \/ Halfway => cut') /\ (outq' # outq /\ cmd # <<>> => cut')
  <2>1. cmd' = cmd BY DEF Dropped
  <2>2. CASE UNCHANGED <<inq, outq>> /\ cut' = (cut \/ Halfway) BY <2>1, <2>2, Zenon
  <2>3. CASE outq' = <<>> /\ cut' = (cut \/ cmd # <<>> \/ Halfway) BY <2>1, <2>3, Zenon
  <2> QED BY <2>2, <2>3 DEF Dropped
<1>2. CASE Halfway
  <2>1. cut' BY <1>1, <1>2
  <2>2. \A t \in Thread : LastPut(t)' BY <1>1, <2>1 DEF CommandInv, LastPut
  <2> QED BY <2>1, <2>2 DEF CommandInv
<1>3. CASE ~Halfway
  <2>1. \A t \in Thread : put[t] = 0 /\ put'[t] = 0 BY <1>0, <1>3 DEF Halfway
  <2>2. CASE outq' = outq
    <3>1. OnTheWay' = OnTheWay BY <1>1, <2>2 DEF OnTheWay
    <3> QED BY <1>1, <2>1, <3>1 DEF CommandInv, InProgress, LastPut
  <2>3. CASE outq' = <<>> /\ outq' # outq BY <1>1, <2>1, <2>3, DropStep
  <2> QED BY <1>1, <2>2, <2>3
<1> QED BY <1>2, <1>3

(* The last element of a concatenation, and the order of its elements.     *)
LEMMA OrderedConcat ==
  ASSUME NEW s \in Seq(Written), NEW r \in Seq(Written), r # <<>>,
         s # <<>> => Ordered(s) /\ Follows(LastOf(s), r[1]),
         s = <<>> => r[1][2] = 1,
         \A i \in 1 .. Len(r) - 1 : Follows(r[i], r[i + 1])
  PROVE  Ordered(s \o r) /\ LastOf(s \o r) = LastOf(r)
<1> DEFINE c == s \o r
<1>1. /\ c \in Seq(Written) /\ Len(c) = Len(s) + Len(r)
      /\ \A i \in 1 .. Len(s) + Len(r) : c[i] = IF i <= Len(s) THEN s[i] ELSE r[i - Len(s)]
  BY ConcatProperties
<1>2. /\ Len(s) \in Nat /\ Len(r) \in Nat \ {0}
      /\ (s # <<>> => Len(s) # 0) /\ (s = <<>> => Len(s) = 0)
  BY EmptySeq, LenProperties
<1> HIDE DEF c
<1>3. ASSUME NEW i \in 1 .. Len(c) - 1 PROVE Follows(c[i], c[i + 1])
  <2>1. CASE i < Len(s)
    <3>1. s # <<>> /\ i \in 1 .. Len(s) - 1 BY <1>2, <2>1
    <3>2. c[i] = s[i] /\ c[i + 1] = s[i + 1] BY <1>1, <1>2, <2>1
    <3> QED BY <3>1, <3>2 DEF Ordered
  <2>2. CASE i = Len(s)
    <3>1. s # <<>> BY <1>2, <2>2
    <3>2. c[i] = LastOf(s) /\ c[i + 1] = r[1] BY <1>1, <1>2, <2>2 DEF LastOf
    <3> QED BY <3>1, <3>2
  <2>3. CASE i > Len(s)
    <3>1. i - Len(s) \in 1 .. Len(r) - 1 BY <1>1, <1>2, <2>3
    <3>2. Follows(r[i - Len(s)], r[(i - Len(s)) + 1]) BY <3>1
    <3>3. c[i] = r[i - Len(s)] /\ c[i + 1] = r[(i - Len(s)) + 1] BY <1>1, <1>2, <2>3
    <3> QED BY <3>2, <3>3
  <2> QED BY <1>2, <2>1, <2>2, <2>3
<1>4. LastOf(c) = LastOf(r) BY <1>1, <1>2 DEF LastOf
<1>5. c[1][2] = 1
  <2>1. CASE s = <<>> BY <1>1, <1>2, <2>1
  <2>2. CASE s # <<>> BY <1>1, <1>2, <2>2 DEF Ordered
  <2> QED BY <2>1, <2>2
<1> QED BY <1>3, <1>4, <1>5 DEF Ordered, c

(* The last element of a concatenation.                                    *)
LEMMA LastOfConcat ==
  ASSUME NEW S, NEW s \in Seq(S), NEW r \in Seq(S)
  PROVE  /\ r # <<>> => s \o r # <<>> /\ LastOf(s \o r) = LastOf(r)
         /\ r = <<>> => s \o r = s
<1>1. /\ Len(s \o r) = Len(s) + Len(r)
      /\ \A i \in 1 .. Len(s) + Len(r) : (s \o r)[i] = IF i <= Len(s) THEN s[i] ELSE r[i - Len(s)]
  BY ConcatProperties
<1>2. Len(s) \in Nat /\ Len(r) \in Nat /\ (r # <<>> => Len(r) # 0) BY EmptySeq, LenProperties
<1>3. ASSUME r # <<>> PROVE s \o r # <<>> /\ LastOf(s \o r) = LastOf(r)
  <2>1. Len(s \o r) # 0 BY <1>1, <1>2, <1>3
  <2>2. s \o r # <<>> BY <2>1, EmptySeq
  <2> QED BY <1>1, <1>2, <1>3, <2>2 DEF LastOf
<1> QED BY <1>3, ConcatEmptySeq

(* ::write goes on where the call was, or begins behind a whole command.   *)
LEMMA WriteSomeStep ==
  ASSUME IInv, CommandInv, NEW t \in Thread, WriteSome(t) PROVE CommandInv'
<1>0. TypeOK /\ LockInv /\ PollInv BY DEF IInv
<1>1. PICK k \in 1 .. Smaller(Command - put[t], OutSize - Len(outq)) :
        /\ outq' = outq \o [i \in 1 .. k |-> <<t, put[t] + i>>]
        /\ IF put[t] + k = Command
           THEN Return(t, "ok", <<>>)
           ELSE /\ Goto(t, "again")
                /\ put' = [put EXCEPT ![t] = @ + k]
                /\ UNCHANGED <<buf, late, moved>>
  BY DEF WriteSome
<1>2. put[t] \in 0 .. Command /\ Len(outq) \in Nat BY <1>0 DEF TypeOK, CallsOK, LineOK
<1>3. k \in Nat \ {0} /\ put[t] + k <= Command /\ put[t] < Command
  BY <1>1, <1>2, SerialAssumption DEF Smaller
<1>p. PICK p \in Nat : p = put[t] /\ p + k <= Command /\ p < Command BY <1>2, <1>3
<1> DEFINE r == [i \in 1 .. k |-> <<t, p + i>>]
<1>4. /\ r \in Seq(Written) /\ Len(r) = k /\ r # <<>>
      /\ \A i \in 1 .. k : r[i] = <<t, p + i>>
  <2>1. \A i \in 1 .. k : <<t, p + i>> \in Written
    BY <1>3, <1>p, SerialAssumption DEF Written
  <2>2. r \in Seq(Written) /\ Len(r) = k
    BY <1>3, <1>p, SerialAssumption DEF Written
  <2> QED BY <1>3, <2>2
<1>5. UNCHANGED <<handle, cmd, cut>> /\ Live /\ wlock = t
  BY <1>0 DEF WriteSome, object, LockInv, LockOK, WriteLocked
<1>6. ASSUME NEW u \in Thread \ {t} PROVE put[u] = 0 /\ put'[u] = 0 /\ pc'[u] = pc[u]
  <2>1. put[u] \in 0 .. Command BY <1>0 DEF TypeOK, CallsOK
  <2>2. put[u] = 0 BY <1>5, <1>6, <2>1, OnePut, SerialAssumption
  <2> QED BY <1>0, <1>1, <1>6, <2>2 DEF Return, Goto, TypeOK, CallsOK
<1>7. IF p + k = Command THEN put'[t] = 0 ELSE put'[t] = p + k /\ pc'[t] = "again"
  BY <1>0, <1>1, <1>p DEF Return, Goto, TypeOK, CallsOK
<1>8. LastOf(r) = <<t, p + k>> BY <1>3, <1>4 DEF LastOf
<1>9. cmd \in Seq(Written) /\ outq \in Seq(Written) /\ OnTheWay \in Seq(Written)
  BY <1>0, OnTheWayTypes
<1>10. outq' = outq \o r BY <1>1, <1>p
<1> HIDE DEF r
<1>11. outq' # <<>> /\ LastOf(outq') = <<t, p + k>>
  BY <1>4, <1>8, <1>9, <1>10, LastOfConcat
<1>12. OnTheWay' = OnTheWay \o r
  <2>1. ASSUME NEW f \in Seq(Written) PROVE (cmd \o outq) \o f = cmd \o (outq \o f)
    <3>1. cmd \in Seq(Written) /\ outq \in Seq(Written) BY <1>9
    <3> QED BY <3>1, ConcatAssociative, SMTT(30)
  <2> QED BY <1>4, <1>5, <1>10, <2>1 DEF OnTheWay
<1>13. ASSUME ~cut PROVE Ordered(OnTheWay \o r) /\ LastOf(OnTheWay \o r) = LastOf(r)
  <2>1. ASSUME NEW i \in 1 .. Len(r) - 1 PROVE Follows(r[i], r[i + 1])
    <3>0. Len(r) = k /\ k \in Nat /\ p \in Nat /\ p + k <= Command /\ Command \in Nat
      BY <1>3, <1>4, <1>p, SerialAssumption
    <3>1. i \in 1 .. k /\ i + 1 \in 1 .. k /\ p + i < Command /\ p + (i + 1) = (p + i) + 1
      BY <3>0
    <3>2. r[i] = <<t, p + i>> /\ r[i + 1] = <<t, (p + i) + 1>> BY <1>4, <3>1
    <3>3. p + i # Command BY <1>p, <3>1, SerialAssumption
    <3> QED BY <3>2, <3>3 DEF Follows
  <2>2. r[1] = <<t, p + 1>> BY <1>3, <1>4
  <2>3. ASSUME p > 0 PROVE OnTheWay # <<>> /\ LastOf(OnTheWay) = <<t, p>>
    <3>1. LastPut(t) BY DEF CommandInv
    <3>2. CASE outq = <<>> 
      BY <1>5, <1>9, <1>13, <1>p, <2>3, <3>1, <3>2, LastOfConcat DEF LastPut, OnTheWay
    <3>3. CASE outq # <<>> 
      BY <1>5, <1>9, <1>p, <2>3, <3>1, <3>3, LastOfConcat DEF LastPut, OnTheWay
    <3> QED BY <3>2, <3>3
  <2>4. ASSUME OnTheWay # <<>> PROVE Ordered(OnTheWay) /\ Follows(LastOf(OnTheWay), r[1])
    <3>1. Ordered(OnTheWay) /\ InProgress(LastOf(OnTheWay)) BY <1>13, <2>4 DEF CommandInv
    <3>2. CASE p > 0
      <4>1. LastOf(OnTheWay) = <<t, p>> /\ p # Command BY <1>p, <2>3, <3>2, SerialAssumption
      <4> QED BY <2>2, <3>1, <4>1 DEF Follows
    <3>3. CASE p = 0
      <4> DEFINE b == LastOf(OnTheWay)
      <4>1. b[1] \in Thread /\ b[2] \in 1 .. Command BY <1>0, <2>4, OnTheWayTypes
      <4> HIDE DEF b
      <4>2. b[2] = Command
        <5>1. SUFFICES ASSUME b[2] < Command PROVE FALSE
          BY <4>1, SerialAssumption
        <5>2. put[b[1]] = b[2] BY <3>1, <5>1 DEF InProgress, b
        <5>3. b[1] # t
          <6>1. put[t] = 0 BY <1>p, <3>3
          <6>2. b[2] # 0 BY <4>1, SerialAssumption
          <6> QED BY <5>2, <6>1, <6>2
        <5> QED BY <1>6, <4>1, <5>2, <5>3
      <4>3. r[1][2] = 1 BY <2>2, <3>3
      <4> QED BY <3>1, <4>2, <4>3 DEF Follows, b
    <3> QED BY <1>p, <3>2, <3>3
  <2>5. OnTheWay = <<>> => r[1][2] = 1
    <3>1. OnTheWay = <<>> => p = 0 BY <1>p, <2>3
    <3> QED BY <2>2, <3>1
  <2> QED BY <1>4, <1>9, <2>1, <2>4, <2>5, OrderedConcat
<1>14. p + k < Command => pc'[t] = "again" /\ put'[t] = p + k
  BY <1>3, <1>7, <1>p, SerialAssumption
<1>15. ASSUME ~cut' PROVE Ordered(OnTheWay') /\ InProgress(LastOf(OnTheWay))'
  <2>1. Ordered(OnTheWay') /\ LastOf(OnTheWay') = <<t, p + k>>
    BY <1>5, <1>8, <1>12, <1>13, <1>15
  <2>2. <<t, p + k>>[1] = t /\ <<t, p + k>>[2] = p + k OBVIOUS
  <2> QED BY <1>14, <2>1, <2>2 DEF InProgress
<1>16. ASSUME NEW u \in Thread PROVE LastPut(u)'
  <2>1. CASE u = t BY <1>5, <1>7, <1>11, <2>1 DEF LastPut, Live
  <2>2. CASE u # t BY <1>6, <2>2 DEF LastPut
  <2> QED BY <2>1, <2>2
<1> QED BY <1>15, <1>16 DEF CommandInv

(* What follows a whole command begins a command.                          *)
LEMMA OrderedTail ==
  ASSUME NEW s \in Seq(Written), NEW r \in Seq(Written), r # <<>>, Tail(r) # <<>>,
         Ordered(s \o r), Head(r)[2] = Command
  PROVE  Ordered(Tail(r))
<1> DEFINE c == s \o r
           q == Tail(r)
<1>1. /\ Len(c) = Len(s) + Len(r)
      /\ \A i \in 1 .. Len(s) + Len(r) : c[i] = IF i <= Len(s) THEN s[i] ELSE r[i - Len(s)]
  BY ConcatProperties
<1>2. /\ Head(r) = r[1] /\ q \in Seq(Written) /\ Len(q) = Len(r) - 1
      /\ \A i \in 1 .. Len(q) : q[i] = r[i + 1]
  BY HeadTailProperties
<1>3. Len(s) \in Nat /\ Len(r) \in Nat /\ Len(q) \in Nat \ {0}
  BY <1>2, EmptySeq, LenProperties
<1>4. \A i \in 1 .. Len(c) - 1 : Follows(c[i], c[i + 1]) BY DEF Ordered
<1> HIDE DEF c, q
<1>5. ASSUME NEW i \in 1 .. Len(q) PROVE Follows(r[i], q[i])
  <2>1. /\ Len(s) + i \in 1 .. Len(c) - 1 /\ (Len(s) + i) - Len(s) = i /\ ~(Len(s) + i <= Len(s))
        /\ ((Len(s) + i) + 1) - Len(s) = i + 1 /\ ~((Len(s) + i) + 1 <= Len(s))
        /\ Len(s) + i \in 1 .. Len(s) + Len(r) /\ (Len(s) + i) + 1 \in 1 .. Len(s) + Len(r)
    BY <1>1, <1>2, <1>3
  <2>2. c[Len(s) + i] = r[i] /\ c[(Len(s) + i) + 1] = r[i + 1] BY <1>1, <2>1
  <2> QED BY <1>2, <1>4, <2>1, <2>2
<1>6. q[1][2] = 1 BY <1>2, <1>3, <1>5 DEF Follows
<1>7. ASSUME NEW i \in 1 .. Len(q) - 1 PROVE Follows(q[i], q[i + 1])
  <2>1. i \in 1 .. Len(q) /\ i + 1 \in 1 .. Len(q) BY <1>3
  <2> QED BY <1>2, <1>5, <2>1
<1> QED BY <1>6, <1>7 DEF Ordered, q

(* The device takes the first byte of the output.                          *)
LEMMA DeviceTakesStep ==
  ASSUME IInv, CommandInv, DeviceTakes PROVE CommandInv'
<1> DEFINE b == Head(outq)
           done == b[2] = Command
<1>1. /\ Live /\ outq # <<>> /\ outq' = Tail(outq)
      /\ cmd' = IF done \/ cut THEN <<>> ELSE Append(cmd, b)
      /\ cut' = (cut /\ ~(done /\ outq' = <<>>))
      /\ UNCHANGED <<handle, pc, put>>
  BY DEF DeviceTakes, Outside
<1>2. /\ cmd \in Seq(Written) /\ outq \in Seq(Written) /\ b \in Written
      /\ Tail(outq) \in Seq(Written) /\ Len(Tail(outq)) = Len(outq) - 1 /\ Len(outq) \in Nat \ {0}
      /\ b = outq[1] /\ \A i \in 1 .. Len(Tail(outq)) : Tail(outq)[i] = outq[i + 1]
  BY <1>1, OnTheWayTypes, HeadTailProperties, EmptySeq DEF IInv
<1> HIDE DEF b
<1>3. outq' # <<>> => LastOf(outq') = LastOf(outq)
  BY <1>1, <1>2, EmptySeq DEF LastOf
<1>4. ASSUME outq' = <<>> PROVE LastOf(outq) = b
  <2>1. Len(Tail(outq)) = 0 BY <1>1, <1>4
  <2>2. Len(Tail(outq)) = Len(outq) - 1 /\ Len(outq) \in Nat BY <1>2
  <2>3. Len(outq) = 1 BY <2>1, <2>2
  <2> QED BY <1>2, <2>3 DEF LastOf
<1>5. OnTheWay # <<>> /\ LastOf(OnTheWay) = LastOf(outq)
  BY <1>1, <1>2, LastOfConcat DEF OnTheWay
<1>6. ASSUME ~cut, ~done PROVE OnTheWay' = OnTheWay
  <2>1. cmd' = cmd \o <<b>> /\ <<b>> \in Seq(Written) BY <1>1, <1>2, <1>6, AppendIsConcat
  <2>2. ASSUME NEW f \in Seq(Written), NEW g \in Seq(Written)
        PROVE (cmd \o f) \o g = cmd \o (f \o g)
    <3>1. cmd \in Seq(Written) BY <1>2
    <3> QED BY <3>1, ConcatAssociative, SMTT(30)
  <2>3. <<b>> \o Tail(outq) = outq
    <3>1. 1 \in 1 .. Len(outq) /\ Len(outq) \in 1 .. Len(outq) BY <1>2
    <3>2. SubSeq(outq, 1, Len(outq)) = <<outq[1]>> \o SubSeq(outq, 1 + 1, Len(outq))
      BY <1>2, <3>1, SubSeqRecursiveFirst
    <3>3. SubSeq(outq, 1, Len(outq)) = outq /\ Tail(outq) = SubSeq(outq, 2, Len(outq))
      BY <1>1, <1>2, SubSeqFull, TailIsSubSeq
    <3> QED BY <1>2, <3>2, <3>3
  <2>4. OnTheWay' = (cmd \o <<b>>) \o Tail(outq) BY <1>1, <2>1 DEF OnTheWay
  <2>5. (cmd \o <<b>>) \o Tail(outq) = cmd \o (<<b>> \o Tail(outq)) BY <1>2, <2>1, <2>2
  <2> QED BY <2>3, <2>4, <2>5 DEF OnTheWay
<1>7. ASSUME done, ~cut \/ outq' = <<>> PROVE OnTheWay' = outq'
  BY <1>1, <1>2, <1>7, ConcatEmptySeq DEF OnTheWay
<1>8. ASSUME ~cut', OnTheWay' # <<>> PROVE Ordered(OnTheWay') /\ InProgress(LastOf(OnTheWay))'
  <2>1. ~cut
    <3>1. SUFFICES ASSUME cut PROVE FALSE
      OBVIOUS
    <3>2. done /\ outq' = <<>> BY <1>1, <1>8, <3>1
    <3> QED BY <1>7, <1>8, <3>2
  <2>2. Ordered(OnTheWay) /\ InProgress(LastOf(OnTheWay)) BY <1>5, <2>1 DEF CommandInv
  <2>3. CASE ~done BY <1>1, <1>6, <2>1, <2>2, <2>3 DEF InProgress
  <2>4. CASE done
    <3>1. OnTheWay' = outq' /\ outq' # <<>> BY <1>7, <1>8, <2>1, <2>4
    <3>2. Ordered(outq') BY <1>1, <1>2, <2>2, <2>4, <3>1, OrderedTail DEF OnTheWay, b
    <3>3. LastOf(OnTheWay') = LastOf(OnTheWay) BY <1>3, <1>5, <3>1
    <3> QED BY <1>1, <2>2, <3>1, <3>2, <3>3 DEF InProgress
  <2> QED BY <2>3, <2>4
<1>9. ASSUME NEW t \in Thread PROVE LastPut(t)'
  <2> SUFFICES ASSUME put[t] > 0
               PROVE /\ outq' # <<>> => LastOf(outq') = <<t, put[t]>>
                     /\ outq' = <<>> /\ ~cut' => cmd' # <<>> /\ LastOf(cmd') = <<t, put[t]>>
    BY <1>1 DEF LastPut, Live
  <2>1. LastOf(outq) = <<t, put[t]>> BY <1>1 DEF CommandInv, LastPut
  <2>2. put[t] < Command BY OnePut DEF IInv, PollInv, PollOK
  <2>3. ASSUME outq' = <<>>, ~cut' PROVE cmd' # <<>> /\ LastOf(cmd') = <<t, put[t]>>
    <3>1. b = <<t, put[t]>> BY <1>4, <2>1, <2>3
    <3>2. ~done
      <4>1. put[t] # Command BY <2>2, SerialAssumption DEF IInv, TypeOK, CallsOK
      <4> QED BY <3>1, <4>1
    <3>3. cmd' = Append(cmd, b) BY <1>1, <2>3, <3>2
    <3> QED BY <1>2, <3>1, <3>3, AppendProperties, LenProperties DEF LastOf
  <2> QED BY <1>3, <2>1, <2>3
<1> QED BY <1>8, <1>9 DEF CommandInv

(* Every action preserves CommandInv.                                      *)
LEMMA CommandStep == IInv /\ CommandInv /\ [Next]_vars => CommandInv'
<1> SUFFICES ASSUME IInv, CommandInv, [Next]_vars PROVE CommandInv'
  OBVIOUS
<1>0. TypeOK /\ HandleInv /\ LockInv /\ PollInv BY DEF IInv
<1>a. ASSUME NEW t \in Thread, put[t] = 0, UNCHANGED <<handle, outq, cmd, cut, put>>,
             \A u \in Thread \ {t} : pc'[u] = pc[u]
      PROVE CommandInv'
  BY <1>a, KeepStep DEF KeepsCommands
<1>b. ASSUME NEW t \in Thread, NEW how, Return(t, how, <<>>) \/ Return(t, how, buf[t])
      PROVE put'[t] = 0 /\ \A u \in Thread \ {t} : pc'[u] = pc[u] /\ put'[u] = put[u]
  BY <1>0, <1>b DEF Return, TypeOK, CallsOK
<1>c. ASSUME NEW t \in Thread, NEW how, Return(t, how, <<>>) \/ Return(t, how, buf[t]),
             UNCHANGED <<handle, outq, cmd, cut>>, put[t] = 0
      PROVE CommandInv'
  BY <1>b, <1>c, KeepStep DEF KeepsCommands
<1>d. ASSUME NEW t \in Thread PROVE put[t] \in 0 .. Command /\ (pc[t] # "again" => put[t] = 0)
  BY <1>0, <1>d DEF TypeOK, CallsOK, PollInv, PollOK
<1>e. ASSUME NEW t \in Thread, wlock = t PROVE \A u \in Thread \ {t} : put[u] = 0
  BY <1>d, <1>e, OnePut, SerialAssumption
<1>1. CASE OwnerStep
  <2>1. Owner /\ Dropped BY <1>0, <1>1, OwnerEffect
  <2> QED BY <2>1, MoveStep DEF Owner, locals
<1>f. CASE OpenerStep
  <2>1. UNCHANGED <<pc, put>> /\ Marked BY <1>0, <1>f, OpenerEffect
  <2>2. CASE UNCHANGED <<handle, line>>
    BY <2>1, <2>2 DEF line, CommandInv, OnTheWay, InProgress, LastPut, Live
  <2>3. CASE Dropped BY <2>1, <2>3, MoveStep
  <2> QED BY <2>1, <2>2, <2>3 DEF Marked
<1>g. ASSUME NEW t \in Thread, Abort(t) PROVE CommandInv'
  <2>1. outq' = <<>> /\ cmd' = cmd /\ \A u \in Thread : put'[u] = 0 BY <1>g DEF Abort
  <2>2. ~cut' => ~cut /\ cmd = <<>> BY <1>g, Zenon DEF Abort
  <2> QED BY <2>1, <2>2, DropStep
<1>2. ASSUME NEW t \in Thread, NEW c \in Calls, Enter(t, c) PROVE CommandInv'
  BY <1>0, <1>2, <1>a, <1>d DEF Enter, object, line, locals, TypeOK, CallsOK
<1>3. ASSUME NEW t \in Thread, LockRead(t) \/ LockWrite(t) PROVE CommandInv'
  BY <1>0, <1>3, <1>a, <1>d DEF LockRead, LockWrite, object, line, locals, TypeOK, CallsOK
<1>4. ASSUME NEW t \in Thread, Read(t) PROVE CommandInv'
  <2>1. pc[t] # "again" /\ UNCHANGED <<handle, outq, cmd, cut>>
    BY <1>4 DEF Read, ReadBegins, ReadTimesOut, WaitReadable, ReadReady, ReadGot, At, Take, Stays,
       object, line
  <2>2. put[t] = 0 BY <1>d, <2>1
  <2>3. CASE \E how : Return(t, how, <<>>) \/ Return(t, how, buf[t]) BY <1>c, <2>1, <2>2, <2>3
  <2>4. CASE (\E l : Goto(t, l)) /\ UNCHANGED put
    BY <1>0, <1>a, <2>1, <2>2, <2>4 DEF Goto, TypeOK, CallsOK
  <2> QED BY <1>4, <2>3, <2>4 DEF Read, ReadBegins, ReadTimesOut, WaitReadable, ReadReady, ReadGot,
             Take, Throw, locals
<1>5. ASSUME NEW t \in Thread, Write(t) PROVE CommandInv'
  <2>1. CASE WriteBegins(t)
    BY <1>0, <1>a, <1>d, <2>1 DEF WriteBegins, At, Goto, Stays, object, line, locals,
       TypeOK, CallsOK
  <2>2. CASE WriteSome(t) BY <2>2, WriteSomeStep
  <2>3. CASE WriteTimesOut(t)
    <3>1. UNCHANGED <<handle, outq, cmd>> /\ cut' = (cut \/ put[t] > 0)
      BY <2>3 DEF WriteTimesOut, object
    <3>2. (cut => cut') /\ (put[t] > 0 => cut') BY <3>1, Zenon
    <3> QED BY <1>b, <2>3, <3>1, <3>2, KeepStep DEF WriteTimesOut, KeepsCommands
  <2>4. CASE WriteThrows(t)
    <3>1. UNCHANGED <<handle, outq, cmd>> /\ cut' = (cut \/ (put[t] > 0 /\ handle.fd # "dead"))
      BY <2>4 DEF WriteThrows, object
    <3>2. ~Live BY <2>4 DEF WriteThrows
    <3>3. put[t] > 0 /\ ~cut => cmd = <<>> /\ outq = <<>> BY <3>2 DEF CommandInv, LastPut
    <3>4. put'[t] = 0 /\ \A u \in Thread \ {t} : pc'[u] = pc[u] /\ put'[u] = put[u]
      BY <1>b, <2>4 DEF WriteThrows, Throw
    <3>5. cut => cut' BY <3>1, Zenon
    <3> QED BY <3>1, <3>3, <3>4, <3>5, KeepStep DEF KeepsCommands
  <2> QED BY <1>5, <2>1, <2>2, <2>3, <2>4 DEF Write
<1>6. ASSUME NEW t \in Thread, NotOpen(t) \/ Flush(t) \/ FlushInput(t) PROVE CommandInv'
  BY <1>c, <1>d, <1>6 DEF NotOpen, Flush, FlushInput, Throw, At, Stays, object, line
<1>7. ASSUME NEW t \in Thread, FlushOutput(t) PROVE CommandInv'
  <2>1. /\ put[t] = 0 /\ wlock = t /\ Return(t, "ok", <<>>) /\ UNCHANGED <<handle, cmd>>
        /\ outq' = (IF Live THEN <<>> ELSE outq)
        /\ cut' = (cut \/ (Live /\ outq # <<>> /\ cmd # <<>>))
    BY <1>0, <1>7, <1>d DEF FlushOutput, At, object, LockInv, LockOK, WriteLocked
  <2>2. CASE Live /\ outq # <<>>
    <3>1. \A u \in Thread : put'[u] = 0 BY <1>b, <1>e, <2>1
    <3>2. ~cut' => ~cut /\ cmd = <<>> BY <2>1, <2>2, Zenon
    <3>3. outq' = <<>> /\ cmd' = cmd BY <2>1, <2>2
    <3> QED BY <3>1, <3>2, <3>3, DropStep
  <2>3. CASE ~Live \/ outq = <<>>
    <3>1. outq' = outq BY <2>1, <2>3
    <3>2. cut \in BOOLEAN /\ cut' \in BOOLEAN
      <4>1. cut \in BOOLEAN BY <1>0 DEF TypeOK, LineOK
      <4>2. cut' \in BOOLEAN BY <2>1, Zenon
      <4> QED BY <4>1, <4>2
    <3>3. cut' <=> cut BY <2>1, <2>3, Zenon
    <3>4. cut' = cut BY <3>2, <3>3
    <3> QED BY <1>c, <2>1, <3>1, <3>4
  <2> QED BY <2>2, <2>3
<1>8. ASSUME NEW t \in Thread, SetPort(t) PROVE CommandInv'
  <2>1. At(t, "run", {"setPort"}) /\ (UNCHANGED <<handle, line>> \/ Dropped)
    BY <1>0, <1>8, SetPortEffect
  <2>2. PICK how \in {"ok", "error"} : Return(t, how, <<>>) BY <1>0, <1>8, SetPortEffect
  <2>3. wlock = t /\ put[t] = 0 BY <1>0, <1>d, <2>1 DEF At, LockInv, LockOK, WriteLocked
  <2>4. \A u \in Thread : put[u] = 0 /\ put'[u] = 0 BY <1>b, <1>e, <2>2, <2>3
  <2>5. CASE outq' = outq /\ cmd' = cmd /\ (cut => cut')
    <3>1. OnTheWay' = OnTheWay BY <2>5 DEF OnTheWay
    <3>2. ASSUME ~cut, OnTheWay # <<>>
          PROVE Ordered(OnTheWay') /\ InProgress(LastOf(OnTheWay))'
      <4>1. Ordered(OnTheWay) /\ InProgress(LastOf(OnTheWay)) BY <3>2 DEF CommandInv
      <4>2. LastOf(OnTheWay)[1] \in Thread /\ LastOf(OnTheWay)[2] \in 1 .. Command
        BY <1>0, <3>2, OnTheWayTypes
      <4>3. ~(LastOf(OnTheWay)[2] < Command) BY <2>4, <4>1, <4>2, SerialAssumption DEF InProgress
      <4> QED BY <3>1, <4>1, <4>3 DEF InProgress
    <3> QED BY <2>4, <2>5, <3>1, <3>2 DEF CommandInv, LastPut
  <2>6. CASE outq' = <<>> /\ cmd' = cmd /\ (~cut' => ~cut /\ cmd = <<>>)
    BY <2>4, <2>6, DropStep
  <2>7. CASE UNCHANGED <<handle, line>> BY <2>5, <2>7 DEF line
  <2>8. CASE Dropped
    <3>1. cmd' = cmd BY <2>8 DEF Dropped
    <3>2. CASE UNCHANGED <<inq, outq>> /\ cut' = (cut \/ Halfway)
      <4>1. cut => cut' BY <3>2, Zenon
      <4> QED BY <2>5, <3>1, <3>2, <4>1
    <3>3. CASE outq' = <<>> /\ cut' = (cut \/ cmd # <<>> \/ Halfway)
      <4>1. ~cut' => ~cut /\ cmd = <<>> BY <3>3, Zenon
      <4> QED BY <2>6, <3>1, <3>3, <4>1
    <3> QED BY <2>8, <3>2, <3>3 DEF Dropped
  <2> QED BY <2>1, <2>7, <2>8
<1>9. CASE Environment
  <2>1. CASE DeviceTakes BY <2>1, DeviceTakesStep
  <2>2. CASE Hangup
    <3>1. outq' = <<>> /\ cmd' = <<>> /\ ~Live'
      BY <1>0, <2>2 DEF Hangup, Live, TypeOK, ObjectOK, Handles
    <3>2. OnTheWay' = <<>> BY <3>1, ConcatEmptySeq, EmptySeq DEF OnTheWay
    <3> QED BY <3>1, <3>2 DEF CommandInv, LastPut
  <2>3. CASE Arrive \/ Attach \/ \E t \in Thread : Expire(t)
    <3>1. UNCHANGED <<handle, outq, cmd, cut, pc, put>>
      BY <2>3 DEF Arrive, Attach, Expire, Outside, line
    <3> QED BY <3>1 DEF CommandInv, OnTheWay, InProgress, LastPut, Live
  <2> QED BY <1>9, <2>1, <2>2, <2>3 DEF Environment
<1>10. CASE UNCHANGED vars
  BY <1>10 DEF vars, object, line, locals, CommandInv, OnTheWay, InProgress, LastPut, Live
<1> QED
  BY <1>1, <1>f, <1>g, <1>2, <1>3, <1>4, <1>5, <1>6, <1>7, <1>8, <1>9, <1>10
  DEF Next, OwnerStep, OpenerStep, Step

(* Commands of several threads reach the device one after the other and    *)
(* whole, unless a call reported that it wrote less, output was dropped or *)
(* the port was closed or opened under a write.                            *)
THEOREM CommandsAreWhole == Spec => []CommandsWhole
<1>1. Init => CommandInv
  <2>1. <<>> \o <<>> = <<>> BY ConcatEmptySeq, EmptySeq
  <2> QED BY <2>1 DEF Init, CommandInv, OnTheWay, LastPut
<1>2. CommandInv => CommandsWhole BY CommandsWholeParts DEF CommandInv
<1> QED BY <1>1, <1>2, CommandStep, Invariance, PTL DEF Spec
=============================================================================
