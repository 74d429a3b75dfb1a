---------------------------- MODULE QemuBoot_proofs ----------------------------
(***************************************************************************)
(* Proof that the log of a bounded QEMU run is the beginning of what the   *)
(* child wrote, that output_truncated tells whether it is all of it, and   *)
(* that a run that passes was judged by the whole: for output, pipes,      *)
(* chunks and caps of any size, and a child and a descendant that write,   *)
(* fork, ignore SIGTERM and exit whenever they please.  And that the call  *)
(* cannot get stuck nor go on for ever once nobody writes.                 *)
(***************************************************************************)
EXTENDS QemuBoot, TLAPS

Lines == Seq(Line)

Shape ==
    /\ emitted \in Lines /\ inPipe \in Lines /\ buffer \in Lines /\ output \in Lines
    /\ child \in {"running", "zombie", "reaped"}
    /\ descendant \in {"none", "running", "gone"}
    /\ reader \in {"reading", "returned", "ended"}
    /\ truncated \in BOOLEAN /\ closed \in BOOLEAN /\ timedOut \in BOOLEAN
    /\ main \in MainLocation
    /\ stubborn \in BOOLEAN /\ exit \in {"none", "ok", "error"}
    /\ Len(output) <= Cap /\ Len(emitted) <= MaxLines
    /\ Len(inPipe) <= Pipe /\ Len(buffer) <= Chunk

\* How many lines are in the log, in the reader's hands or in the pipe.
Accounted == Len(output) + Len(buffer) + Len(inPipe)

\* The log is the beginning of what was written, the pipe its end and the buffer
\* what stands before the pipe's.
InOrder ==
    /\ Accounted <= Len(emitted)
    /\ \A i \in 1 .. Len(output) : output[i] = emitted[i]
    /\ \A i \in 1 .. Len(buffer) :
          buffer[i] = emitted[Len(emitted) - Len(inPipe) - Len(buffer) + i]
    /\ \A i \in 1 .. Len(inPipe) : inPipe[i] = emitted[Len(emitted) - Len(inPipe) + i]

\* What is missing is missing between the log, which is full, and the buffer.
Gap ==
    /\ truncated <=> Accounted < Len(emitted)
    /\ truncated => Len(output) = Cap

\* Where the child was alone with the pipe, the reader ends at the end of the file.
Drained ==
    /\ main \in {"join", "close", "joinAgain", "done"} => child = "reaped"
    /\ closed => main \in {"joinAgain", "done"}
    /\ main = "done" => reader = "ended"
    /\ Alone /\ main \in {"close", "joinAgain", "done"} => reader = "ended"
    /\ Alone /\ reader = "ended" => buffer = <<>> /\ inPipe = <<>> /\ child # "running"

IInv == Shape /\ InOrder /\ Gap /\ Drained
-------------------------------------------------------------------------------
LEMMA SizesArePositive ==
  /\ Cap \in Nat /\ Cap >= 1 /\ Chunk \in Nat /\ Chunk >= 1
  /\ Pipe \in Nat /\ Pipe >= 1 /\ MaxLines \in Nat
BY SizeAssumption

LEMMA Lengths ==
  ASSUME Shape
  PROVE  /\ Len(emitted) \in Nat /\ Len(inPipe) \in Nat
         /\ Len(buffer) \in Nat /\ Len(output) \in Nat
BY DEF Shape, Lines

LEMMA InitInv == Init => IInv
<1> SUFFICES ASSUME Init PROVE IInv
  OBVIOUS
<1>1. Shape
  <2>1. <<>> \in Lines /\ Len(<<>>) = 0
    BY DEF Lines
  <2> QED
    <3>1. /\ Len(emitted) = 0 /\ Len(inPipe) = 0 /\ Len(buffer) = 0 /\ Len(output) = 0
          /\ emitted \in Lines /\ inPipe \in Lines /\ buffer \in Lines /\ output \in Lines
      BY <2>1 DEF Init
    <3>2. /\ Len(output) <= Cap /\ Len(emitted) <= MaxLines
          /\ Len(inPipe) <= Pipe /\ Len(buffer) <= Chunk
      BY <3>1, SizesArePositive
    <3> QED
      BY <3>1, <3>2 DEF Init, Shape, MainLocation
<1>2. InOrder /\ Gap /\ Drained
  BY DEF Init, InOrder, Gap, Drained, Accounted
<1> QED
  BY <1>1, <1>2 DEF IInv

\* Steps that touch neither the lines nor the log.
LEMMA QuietInv ==
  ASSUME IInv, UNCHANGED <<emitted, inPipe, buffer, output, truncated>>,
         Shape', Drained'
  PROVE  IInv'
BY DEF IInv, InOrder, Gap, Accounted

LEMMA WriteInv ==
  ASSUME IInv, NEW line \in Line, Write(line)
  PROVE  IInv'
<1> USE DEF IInv
<1>1. /\ emitted' \in Lines /\ inPipe' \in Lines
      /\ Len(emitted') = Len(emitted) + 1 /\ Len(inPipe') = Len(inPipe) + 1
      /\ \A i \in 1 .. Len(emitted) : emitted'[i] = emitted[i]
      /\ \A i \in 1 .. Len(inPipe) : inPipe'[i] = inPipe[i]
      /\ emitted'[Len(emitted) + 1] = line /\ inPipe'[Len(inPipe) + 1] = line
  <2>1. emitted \in Seq(Line) /\ inPipe \in Seq(Line)
    BY DEF Shape, Lines
  <2>2. emitted' = Append(emitted, line) /\ inPipe' = Append(inPipe, line)
    BY DEF Write
  <2> QED
    BY <2>1, <2>2 DEF Lines
<1> USE Lengths
<1>2. Shape'
  BY <1>1, SizesArePositive DEF Write, Shape
<1>3. InOrder'
  <2> USE <1>1 DEF Write, InOrder, Accounted
  <2>1. Accounted' <= Len(emitted')
    OBVIOUS
  <2>2. \A i \in 1 .. Len(output') : output'[i] = emitted'[i]
    OBVIOUS
  <2>3. ASSUME NEW i \in 1 .. Len(buffer')
        PROVE  buffer'[i] = emitted'[Len(emitted') - Len(inPipe') - Len(buffer') + i]
    OBVIOUS
  <2>4. ASSUME NEW i \in 1 .. Len(inPipe')
        PROVE  inPipe'[i] = emitted'[Len(emitted') - Len(inPipe') + i]
    <3>1. CASE i = Len(inPipe) + 1
      BY <3>1
    <3>2. CASE i \in 1 .. Len(inPipe)
      BY <3>2
    <3> QED
      BY <3>1, <3>2
  <2> QED
    BY <2>1, <2>2, <2>3, <2>4
<1>4. Gap'
  BY <1>1 DEF Write, Gap, Accounted
<1>5. Drained'
  BY DEF Write, Writers, Drained, Alone
<1> QED
  BY <1>2, <1>3, <1>4, <1>5

LEMMA GatherInv ==
  ASSUME IInv, Gather
  PROVE  IInv'
<1> USE DEF IInv, session
<1>1. /\ buffer' \in Lines /\ inPipe' \in Lines /\ Len(inPipe) >= 1
      /\ Len(buffer') = Len(buffer) + 1 /\ Len(inPipe') = Len(inPipe) - 1
      /\ \A i \in 1 .. Len(buffer) : buffer'[i] = buffer[i]
      /\ buffer'[Len(buffer) + 1] = inPipe[1]
      /\ \A i \in 1 .. Len(inPipe') : inPipe'[i] = inPipe[i + 1]
  <2>1. buffer \in Seq(Line) /\ inPipe \in Seq(Line) /\ inPipe # <<>>
    BY DEF Gather, Shape, Lines
  <2>2. buffer' = Append(buffer, Head(inPipe)) /\ inPipe' = Tail(inPipe)
    BY DEF Gather
  <2>3. Head(inPipe) = inPipe[1] /\ inPipe[1] \in Line /\ Len(inPipe) >= 1
    BY <2>1
  <2>4. /\ Tail(inPipe) \in Seq(Line) /\ Len(Tail(inPipe)) = Len(inPipe) - 1
        /\ \A i \in 1 .. Len(Tail(inPipe)) : Tail(inPipe)[i] = inPipe[i + 1]
    BY <2>1
  <2>5. /\ Append(buffer, inPipe[1]) \in Seq(Line)
        /\ Len(Append(buffer, inPipe[1])) = Len(buffer) + 1
        /\ \A i \in 1 .. Len(buffer) : Append(buffer, inPipe[1])[i] = buffer[i]
        /\ Append(buffer, inPipe[1])[Len(buffer) + 1] = inPipe[1]
    BY <2>1, <2>3
  <2> QED
    BY <2>2, <2>3, <2>4, <2>5 DEF Lines
<1> USE Lengths
<1>2. Shape'
  BY <1>1, SizesArePositive DEF Gather, Shape
<1>3. InOrder'
  <2> USE <1>1 DEF Gather, InOrder, Accounted
  <2>1. Accounted' <= Len(emitted') /\ \A i \in 1 .. Len(output') : output'[i] = emitted'[i]
    OBVIOUS
  <2>2. ASSUME NEW i \in 1 .. Len(buffer')
        PROVE  buffer'[i] = emitted'[Len(emitted') - Len(inPipe') - Len(buffer') + i]
    <3>1. CASE i = Len(buffer) + 1
      <4>1. inPipe[1] = emitted[Len(emitted) - Len(inPipe) + 1]
        OBVIOUS
      <4>2. Len(emitted') - Len(inPipe') - Len(buffer') + i = Len(emitted) - Len(inPipe) + 1
        BY <3>1
      <4> QED
        BY <3>1, <4>1, <4>2
    <3>2. CASE i \in 1 .. Len(buffer)
      BY <3>2
    <3> QED
      BY <3>1, <3>2
  <2>3. ASSUME NEW i \in 1 .. Len(inPipe')
        PROVE  inPipe'[i] = emitted'[Len(emitted') - Len(inPipe') + i]
    <3>1. i + 1 \in 1 .. Len(inPipe)
      OBVIOUS
    <3>2. Len(emitted') - Len(inPipe') + i = Len(emitted) - Len(inPipe) + (i + 1)
      OBVIOUS
    <3> QED
      BY <3>1, <3>2
  <2> QED
    BY <2>1, <2>2, <2>3
<1>4. Gap'
  BY <1>1 DEF Gather, Gap, Accounted
<1>5. Drained'
  BY DEF Gather, Drained, Alone
<1> QED
  BY <1>2, <1>3, <1>4, <1>5

\* What still fits is kept; what does not makes the log a truncated one.
LEMMA KeepInv ==
  ASSUME IInv, Keep
  PROVE  IInv'
<1> USE DEF IInv, session
<1> DEFINE remaining == Cap - Len(output)
           kept == IF Len(buffer) <= remaining THEN buffer ELSE SubSeq(buffer, 1, remaining)
<1>1. remaining \in Nat
  BY SizesArePositive DEF Shape, Lines
<1>2. /\ kept \in Lines
      /\ Len(kept) = IF Len(buffer) <= remaining THEN Len(buffer) ELSE remaining
      /\ \A i \in 1 .. Len(kept) : kept[i] = buffer[i]
  BY <1>1 DEF Shape, Lines
<1>3. /\ output' = output \o kept /\ buffer' = <<>>
      /\ truncated' <=> (truncated \/ Len(buffer) > remaining)
  BY DEF Keep
<1> HIDE DEF kept
<1>4. /\ output' \in Lines /\ Len(output') = Len(output) + Len(kept)
      /\ \A i \in 1 .. Len(output) : output'[i] = output[i]
      /\ \A i \in 1 .. Len(kept) : output'[Len(output) + i] = kept[i]
  <2>1. output \in Seq(Line) /\ kept \in Seq(Line)
    BY <1>2 DEF Shape, Lines
  <2>2. /\ output \o kept \in Seq(Line) /\ Len(output \o kept) = Len(output) + Len(kept)
        /\ \A i \in 1 .. Len(output) : (output \o kept)[i] = output[i]
        /\ \A i \in 1 .. Len(kept) : (output \o kept)[Len(output) + i] = kept[i]
    BY <2>1
  <2> QED
    BY <1>3, <2>2 DEF Lines
<1> USE Lengths
<1>5. Shape'
  BY <1>1, <1>2, <1>3, <1>4, SizesArePositive DEF Keep, Shape, Lines
<1>6. InOrder'
  <2>1. Accounted' <= Len(emitted')
    BY <1>1, <1>2, <1>3, <1>4 DEF Keep, InOrder, Accounted, Shape, Lines
  <2>2. ASSUME NEW i \in 1 .. Len(output') PROVE output'[i] = emitted'[i]
    <3>1. CASE i \in 1 .. Len(output)
      BY <1>4, <3>1 DEF Keep, InOrder
    <3>2. CASE i > Len(output)
      <4> DEFINE j == i - Len(output)
      <4>1. j \in 1 .. Len(kept) /\ i = Len(output) + j
        <5>1. Len(kept) \in Nat
          BY <1>2 DEF Lines
        <5> QED
          BY <1>4, <3>2, <5>1
      <4> HIDE DEF j
      <4>2. output'[i] = buffer[j] /\ j \in 1 .. Len(buffer) /\ kept # <<>>
        BY <1>1, <1>2, <1>4, <4>1 DEF Shape, Lines
      <4>3. ~truncated
        BY <1>1, <1>2, <4>1, SizesArePositive DEF Gap
      <4>4. Len(emitted) - Len(inPipe) - Len(buffer) = Len(output)
        BY <4>3 DEF Gap, InOrder, Accounted, Shape, Lines
      <4> QED
        BY <4>1, <4>2, <4>4 DEF InOrder, Keep
    <3> QED
      BY <3>1, <3>2 DEF Shape, Lines
  <2>3. UNCHANGED <<emitted, inPipe>> /\ Len(buffer') = 0
    BY <1>3 DEF Keep
  <2> QED
    BY <2>1, <2>2, <2>3 DEF InOrder
<1>7. Gap'
  <2>1. UNCHANGED <<emitted, inPipe>> /\ Len(buffer') = 0
    BY <1>3 DEF Keep
  <2>2. CASE Len(buffer) <= remaining
    <3>1. Len(output') = Len(output) + Len(buffer)
      BY <1>2, <1>4, <2>2
    <3>3. truncated' <=> truncated
      BY <1>1, <1>3, <2>2
    <3>2. Len(output') <= Cap
      BY <1>5 DEF Shape
    <3> QED
      BY <2>1, <3>1, <3>2, <3>3, SizesArePositive DEF Gap, Accounted
  <2>3. CASE Len(buffer) > remaining
    <3>1. Len(output') = Cap
      BY <1>1, <1>2, <1>4, <2>3, SizesArePositive
    <3>4. truncated'
      BY <1>3, <2>3
    <3>2. Len(output) + Len(buffer) > Cap
      BY <2>3, SizesArePositive
    <3>3. Accounted' < Len(emitted')
      BY <2>1, <3>1, <3>2, SizesArePositive DEF InOrder, Accounted
    <3> QED
      BY <3>1, <3>3, <3>4 DEF Gap
  <2> QED
    BY <1>1, <2>2, <2>3
<1>8. Drained'
  BY DEF Keep, Drained, Alone
<1> QED
  BY <1>5, <1>6, <1>7, <1>8

LEMMA SessionInv ==
  ASSUME IInv, Session
  PROVE  IInv'
<1> USE DEF IInv, session, drain
<1>1. ASSUME NEW line \in Line, Write(line) PROVE IInv'
  BY <1>1, WriteInv
<1>2. ASSUME NEW code \in {"ok", "error"}, Exit(code) PROVE IInv'
  <2>1. Shape' /\ Drained'
    BY <1>2 DEF Exit, Shape, Drained, Alone, Lines
  <2> QED
    BY <1>2, <2>1, QuietInv DEF Exit
<1>3. CASE Fork
  <2>1. Shape' /\ Drained'
    BY <1>3 DEF Fork, Shape, Drained, Alone, Lines
  <2> QED
    BY <1>3, <2>1, QuietInv DEF Fork
<1>4. CASE DescendantExits
  <2>1. Shape' /\ Drained'
    BY <1>4 DEF DescendantExits, Shape, Drained, Alone, Lines
  <2> QED
    BY <1>4, <2>1, QuietInv DEF DescendantExits
<1> QED
  BY <1>1, <1>2, <1>3, <1>4 DEF Session

LEMMA ReaderInv ==
  ASSUME IInv, ReaderThread
  PROVE  IInv'
<1> USE DEF IInv, session, drain
<1>1. CASE ReadReturns
  <2>1. Shape' /\ Drained'
    BY <1>1, SizesArePositive DEF ReadReturns, EndOfFile, Writers, Shape, Drained, Alone
  <2> QED
    BY <1>1, <2>1, QuietInv DEF ReadReturns
<1>2. CASE ReadRaises
  <2>1. Shape' /\ Drained'
    BY <1>2 DEF ReadRaises, Shape, Drained, Alone, Lines
  <2> QED
    BY <1>2, <2>1, QuietInv DEF ReadRaises
<1> QED
  BY <1>1, <1>2, GatherInv, KeepInv DEF ReaderThread

LEMMA MainInv ==
  ASSUME IInv, MainThread
  PROVE  IInv'
<1> USE DEF IInv, session, drain
<1>1. Shape'
  <2> USE DEF Shape, MainLocation
  <2>1. CASE WaitReturns \/ GraceWaitReturns \/ WaitKilledReturns
    BY <2>1 DEF WaitReturns, GraceWaitReturns, WaitKilledReturns, Reap
  <2>2. CASE Terminate
    BY <2>2 DEF Terminate
  <2>3. CASE Kill
    BY <2>3 DEF Kill
  <2>4. CASE WaitTimesOut \/ GraceEnds \/ Join \/ Close \/ JoinAgain
    BY <2>4 DEF WaitTimesOut, GraceEnds, Join, Close, JoinAgain
  <2> QED
    BY <2>1, <2>2, <2>3, <2>4 DEF MainThread
<1>2. Drained'
  BY DEF MainThread, WaitReturns, WaitTimesOut, Terminate, GraceWaitReturns, GraceEnds,
         Kill, WaitKilledReturns, Join, Close, JoinAgain, Reap, Writers, Shape, Drained,
         Alone
<1>3. UNCHANGED <<emitted, inPipe, buffer, output, truncated>>
  BY DEF MainThread, WaitReturns, WaitTimesOut, Terminate, GraceWaitReturns, GraceEnds,
         Kill, WaitKilledReturns, Join, Close, JoinAgain, Reap
<1> QED
  BY <1>1, <1>2, <1>3, QuietInv

LEMMA StutterInv ==
  ASSUME IInv, UNCHANGED vars
  PROVE  IInv'
BY DEF IInv, vars, session, drain, Shape, InOrder, Gap, Drained, Accounted, Alone

\* The log, the reader's buffer and the pipe hold what was written in its order,
\* with at most one gap, behind a full log.
THEOREM Invariant == Spec => []IInv
<1>1. IInv /\ [Next]_vars => IInv'
  BY SessionInv, ReaderInv, MainInv, StutterInv DEF Next
<1> QED
  BY InitInv, <1>1, PTL DEF Spec

LEMMA LogsAreSequences ==
  ASSUME NEW limit \in Nat, NEW log \in Lines, Len(log) <= limit
  PROVE  log \in Log(limit)
<1>1. Len(log) \in 0 .. limit /\ log \in [1 .. Len(log) -> Line]
  BY DEF Lines
<1> QED
  BY <1>1 DEF Log

\* The log stays within its cap, the pipe and the buffer within their sizes.
THEOREM TypeCorrect == Spec => []TypeOK
<1>1. IInv => TypeOK
  BY SizesArePositive, LogsAreSequences DEF IInv, Shape, TypeOK
<1> QED
  BY <1>1, Invariant, PTL

LEMMA PrefixFromInv == IInv => LogIsPrefix
<1> SUFFICES ASSUME IInv, main = "done" 
             PROVE  IsPrefix(output, emitted) /\ (Alone => (truncated <=> output # emitted))
  BY DEF LogIsPrefix
<1> USE DEF IInv
<1>1. Len(output) <= Len(emitted)
  BY DEF InOrder, Accounted, Shape, Lines
<1>2. SubSeq(output, 1, Len(output)) = SubSeq(emitted, 1, Len(output))
  BY <1>1 DEF InOrder, Shape, Lines
<1>3. ASSUME Alone PROVE truncated <=> output # emitted
  <2>1. Len(buffer) = 0 /\ Len(inPipe) = 0
    BY <1>3 DEF Drained
  <2>2. truncated <=> Len(output) # Len(emitted)
    BY <1>1, <2>1 DEF Gap, Accounted, Shape, Lines
  <2>3. ASSUME Len(output) = Len(emitted) PROVE output = emitted
    BY <2>3 DEF InOrder, Shape, Lines
  <2> QED
    BY <2>2, <2>3
<1> QED
  BY <1>1, <1>2, <1>3 DEF IsPrefix

\* The log is a beginning of what the child and its descendant wrote, whatever
\* they did and whenever the stream was closed; where the child had the pipe to
\* itself output_truncated tells whether the log is the whole.
THEOREM PrefixCorrect == Spec => []LogIsPrefix
BY Invariant, PrefixFromInv, PTL

\* A run that passes was judged by all the child ever wrote.
THEOREM VerdictCorrect == Spec => []VerdictSeesWholeLog
<1>1. IInv => VerdictSeesWholeLog
  BY PrefixFromInv DEF LogIsPrefix, VerdictSeesWholeLog, Passed
<1> QED
  BY <1>1, Invariant, PTL
-------------------------------------------------------------------------------
(* The safety half of Returns. *)

\* Where the guards of the main thread let it go on.
MainCanMove ==
    \/ main \in {"wait", "terminate", "graceWait", "kill"}
    \/ main = "waitKilled" /\ child = "zombie"
    \/ main = "join" /\ (reader = "ended" \/ Writers)
    \/ main = "close" /\ (reader # "reading" \/ closed)
    \/ main = "joinAgain" /\ reader = "ended"

\* Where the guards of the reader thread let it go on.
ReaderCanMove ==
    \/ reader = "returned"
    \/ reader = "reading" /\ (closed \/ inPipe # <<>> \/ Len(buffer) = Chunk \/ EndOfFile)

NeverStuck ==
    main # "done" /\ descendant # "running" => MainCanMove \/ ReaderCanMove

Stage ==
    CASE main = "wait" -> 8 [] main = "terminate" -> 7 [] main = "graceWait" -> 6
      [] main = "kill" -> 5 [] main = "waitKilled" -> 4 [] main = "join" -> 3
      [] main = "close" -> 2 [] main = "joinAgain" -> 1 [] OTHER -> 0

Reading == CASE reader = "reading" -> 2 [] reader = "returned" -> 1 [] OTHER -> 0

\* What the two threads have left to do with what has been written so far.
Work == Stage + Reading + 3 * Len(inPipe) + 2 * Len(buffer)

WorkInNat == Work \in Nat

\* Every step of a thread is work done, and only a line written is work added.
WorkIsDone ==
    [][/\ ReaderThread \/ MainThread => Work' < Work
       /\ Work' > Work => Writers /\ \E line \in Line : Write(line)]_vars

\* Before the child is waited for it is not, after SIGKILL it is dead, the second
\* join comes after the close, and read returns nothing but at the end.
Poised ==
    /\ main \in {"wait", "terminate", "graceWait", "kill"} => child # "reaped"
    /\ main = "waitKilled" => child = "zombie"
    /\ main = "joinAgain" => closed
    /\ reader = "returned" => buffer # <<>>

\* Where the run stands each thread finds what it goes on from.
LEMMA PoisedAlways == Spec => []Poised
<1>1. Init => Poised
  BY DEF Init, Poised
<1>2. IInv /\ Poised /\ [Next]_vars => Poised'
  <2> SUFFICES ASSUME IInv, Poised, [Next]_vars PROVE Poised'
    OBVIOUS
  <2> USE DEF session, drain
  <2>1. CASE Session
    BY <2>1 DEF Session, Write, Exit, Fork, DescendantExits, Poised
  <2>2. CASE Gather \/ Keep \/ ReadRaises
    BY <2>2 DEF Gather, Keep, ReadRaises, Poised
  <2>3. CASE ReadReturns
    BY <2>3 DEF ReadReturns, Poised
  <2>4. CASE MainThread
    <3>1. CASE WaitReturns \/ GraceWaitReturns \/ WaitKilledReturns
      BY <3>1 DEF WaitReturns, GraceWaitReturns, WaitKilledReturns, Reap, Poised
    <3>2. CASE Terminate
      BY <3>2 DEF Terminate, Poised
    <3>3. CASE Kill
      BY <3>3 DEF Kill, Poised, IInv, Shape
    <3>4. CASE WaitTimesOut \/ GraceEnds \/ Join \/ Close \/ JoinAgain
      BY <3>4 DEF WaitTimesOut, GraceEnds, Join, Close, JoinAgain, Poised
    <3> QED
      BY <2>4, <3>1, <3>2, <3>3, <3>4 DEF MainThread
  <2>5. CASE UNCHANGED vars
    BY <2>5 DEF vars, Poised
  <2> QED
    BY <2>1, <2>2, <2>3, <2>4, <2>5 DEF Next, ReaderThread
<1> QED
  BY <1>1, <1>2, Invariant, PTL DEF Spec

\* Before the call has returned one of the two threads can go on, whatever the
\* child did, unless a descendant keeps the pipe open: no read waits for a line
\* that nobody writes, no join for a thread that waits for the close, and no
\* close for the lock of a read that never returns.
THEOREM NeverStuckAlways == Spec => []NeverStuck
<1>1. IInv /\ Poised => NeverStuck
  <2> SUFFICES ASSUME IInv, Poised, main # "done", descendant # "running"
               PROVE  MainCanMove \/ ReaderCanMove
    BY DEF NeverStuck
  <2>1. CASE main \in {"wait", "terminate", "graceWait", "kill", "waitKilled"}
    BY <2>1 DEF Poised, MainCanMove
  <2>2. CASE main \in {"join", "close", "joinAgain"}
    <3>1. child = "reaped" /\ ~Writers
      BY <2>2 DEF IInv, Drained, Writers
    <3>2. reader \in {"reading", "returned", "ended"}
      BY DEF IInv, Shape
    <3> QED
      BY <2>2, <3>1, <3>2 DEF Poised, MainCanMove, ReaderCanMove, EndOfFile
  <2> QED
    BY <2>1, <2>2 DEF IInv, Shape, MainLocation
<1> QED
  BY <1>1, Invariant, PoisedAlways, PTL

Counted ==
    /\ Work \in Nat /\ Stage \in 0 .. 8 /\ Reading \in 0 .. 2
    /\ Len(inPipe) \in Nat /\ Len(buffer) \in Nat

LEMMA ShapeIsCounted == Shape => Counted
<1> SUFFICES ASSUME Shape PROVE Counted
  OBVIOUS
<1>1. Stage \in 0 .. 8
  BY DEF Stage
<1>2. Reading \in 0 .. 2
  BY DEF Reading
<1> QED
  BY <1>1, <1>2, Lengths DEF Work, Counted

LEMMA MainWorks ==
  ASSUME Counted, Counted', MainThread
  PROVE  Work' < Work
<1> USE DEF session, drain
<1>1. Stage' < Stage
  BY DEF MainThread, WaitReturns, WaitTimesOut, Terminate, GraceWaitReturns, GraceEnds,
         Kill, WaitKilledReturns, Join, Close, JoinAgain, Reap, Stage
<1>2. UNCHANGED <<inPipe, buffer, reader>>
  BY DEF MainThread, WaitReturns, WaitTimesOut, Terminate, GraceWaitReturns, GraceEnds,
         Kill, WaitKilledReturns, Join, Close, JoinAgain, Reap
<1>3. Reading' = Reading
  BY <1>2 DEF Reading
<1>4. Len(inPipe') = Len(inPipe) /\ Len(buffer') = Len(buffer)
  BY <1>2
<1> QED
  BY <1>1, <1>3, <1>4 DEF Work, Counted

LEMMA ReaderWorks ==
  ASSUME Shape, Counted, Counted', Poised, ReaderThread
  PROVE  Work' < Work
<1> USE DEF session, drain
<1>1. main' = main
  BY DEF ReaderThread, Gather, ReadReturns, Keep, ReadRaises
<1>2. Stage' = Stage
  BY <1>1 DEF Stage
<1>3. CASE Gather
  <2>1. Reading' = Reading
    BY <1>3 DEF Gather, Reading
  <2>2. Len(inPipe') = Len(inPipe) - 1 /\ Len(buffer') = Len(buffer) + 1
    <3>1. inPipe \in Seq(Line) /\ inPipe # <<>> /\ buffer \in Seq(Line)
      BY <1>3 DEF Gather, Shape, Lines
    <3>2. inPipe' = Tail(inPipe) /\ buffer' = Append(buffer, Head(inPipe))
      BY <1>3 DEF Gather
    <3>3. Head(inPipe) \in Line
      BY <3>1
    <3> QED
      BY <3>1, <3>2, <3>3
  <2> QED
    BY <1>2, <2>1, <2>2 DEF Work, Counted
<1>4. CASE ReadReturns \/ ReadRaises
  <2>1. Reading' < Reading
    BY <1>4 DEF ReadReturns, ReadRaises, Reading
  <2>2. Len(inPipe') = Len(inPipe) /\ Len(buffer') = Len(buffer)
    BY <1>4 DEF ReadReturns, ReadRaises
  <2> QED
    BY <1>2, <2>1, <2>2 DEF Work, Counted
<1>5. CASE Keep
  <2>1. Reading = 1 /\ Reading' = 2
    BY <1>5 DEF Keep, Reading
  <2>2. Len(buffer) >= 1 /\ Len(buffer') = 0 /\ Len(inPipe') = Len(inPipe)
    BY <1>5 DEF Keep, Poised, Shape, Lines
  <2> QED
    BY <1>2, <2>1, <2>2 DEF Work, Counted
<1> QED
  BY <1>3, <1>4, <1>5 DEF ReaderThread

\* What the two threads have left to do is a number that every step of theirs
\* brings down and that only a new line brings up: when nobody writes any more
\* the call returns after so many of their steps.
THEOREM CountsDown == Spec => []WorkInNat /\ WorkIsDone
<1>1. IInv => WorkInNat
  BY ShapeIsCounted DEF IInv, WorkInNat, Counted
<1>2. IInv => Counted
  BY ShapeIsCounted DEF IInv
<1>3. IInv /\ Counted /\ Counted' /\ Poised /\ [Next]_vars =>
         [/\ ReaderThread \/ MainThread => Work' < Work
          /\ Work' > Work => Writers /\ \E line \in Line : Write(line)]_vars
  <2> SUFFICES ASSUME IInv, Counted, Counted', Poised, Next
               PROVE  /\ ReaderThread \/ MainThread => Work' < Work
                      /\ Work' > Work => Writers /\ \E line \in Line : Write(line)
    OBVIOUS
  <2>1. Shape /\ Work \in Nat /\ Work' \in Nat
    BY DEF IInv, Counted
  <2>2. ReaderThread \/ MainThread => Work' < Work
    BY <2>1, MainWorks, ReaderWorks
  <2>3. (\E line \in Line : Write(line)) => Writers
    BY DEF Write
  <2>4. ASSUME \/ \E code \in {"ok", "error"} : Exit(code)
               \/ Fork \/ DescendantExits
        PROVE  Work' = Work
    <3>1. UNCHANGED <<inPipe, buffer, reader, main>>
      BY <2>4 DEF Exit, Fork, DescendantExits, drain
    <3>2. Stage' = Stage /\ Reading' = Reading
      BY <3>1 DEF Stage, Reading
    <3> QED
      BY <3>1, <3>2 DEF Work
  <2> QED
    BY <2>1, <2>2, <2>3, <2>4 DEF Next, Session
<1> QED
  BY <1>1, <1>2, <1>3, Invariant, PoisedAlways, PTL DEF Spec, WorkIsDone
===============================================================================
