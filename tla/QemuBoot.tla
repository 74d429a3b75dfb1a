------------------------------- MODULE QemuBoot -------------------------------
(***************************************************************************)
(* run_qemu_boot (boot_harness.py 557-667) and the verdict of its result   *)
(* (QEMUBootResult.passed, 104-125): a child process in a session of its   *)
(* own, a thread that drains its output through a pipe and a bounded log,  *)
(* and the main thread that waits, terminates, kills, joins and closes.    *)
(*                                                                         *)
(* The child and the operating system are external.  The child writes      *)
(* lines, may ignore SIGTERM, may exit by itself at any time, and, where   *)
(* Forks is TRUE, may leave a descendant that inherits the pipe and may    *)
(* ignore SIGTERM too.  A line is an ordinary one, one that an expected    *)
(* pattern finds or one that a fatal pattern finds, all of one size.       *)
(***************************************************************************)
EXTENDS Naturals, Sequences, SequencesExt

CONSTANTS MaxLines,     \* bound: lines written in a run
          Pipe,         \* lines a pipe holds
          Chunk,        \* lines in a read of 64 KiB
          Cap,          \* max_output_bytes, in lines
          Forks         \* whether the child may leave a descendant

ASSUME SizeAssumption == {Pipe, Chunk, Cap} \subseteq Nat \ {0} /\ MaxLines \in Nat
ASSUME ForksAssumption == Forks \in BOOLEAN

Line == {"log", "contact", "fatal"}

VARIABLES
    \* the child's session
    child,        \* the child itself
    stubborn,     \* whether it ignores SIGTERM
    exit,         \* its exit status: "ok", "error", or "none" while it runs
    descendant,   \* a process it left behind with the pipe open
    emitted,      \* history: every line written to the pipe
    \* the pipe and the reader thread
    inPipe,       \* lines in the pipe
    buffer,       \* lines read(65536) has gathered so far
    reader,       \* where drain_output is
    output,       \* chunks
    truncated,    \* output_truncated
    closed,       \* process.stdout has been closed
    \* the main thread
    main,         \* where run_qemu_boot is
    timedOut      \* timed_out

session == <<child, stubborn, exit, descendant, emitted>>
drain   == <<inPipe, buffer, reader, output, truncated, closed>>
vars    == <<session, drain, main, timedOut>>

MainLocation == {"wait", "terminate", "graceWait", "kill", "waitKilled",
                 "join", "close", "joinAgain", "done"}

Log(limit) == UNION {[1 .. n -> Line] : n \in 0 .. limit}

TypeOK ==
    /\ child \in {"running", "zombie", "reaped"}
    /\ stubborn \in BOOLEAN
    /\ exit \in {"none", "ok", "error"}
    /\ descendant \in {"none", "running", "gone"}
    /\ emitted \in Log(MaxLines)
    /\ inPipe \in Log(Pipe)
    /\ buffer \in Log(Chunk)
    /\ reader \in {"reading", "returned", "ended"}
    /\ output \in Log(Cap)
    /\ truncated \in BOOLEAN
    /\ closed \in BOOLEAN
    /\ main \in MainLocation
    /\ timedOut \in BOOLEAN

\* Popen has returned and the reader thread is started.
Init ==
    /\ child = "running" /\ stubborn \in BOOLEAN /\ exit = "none"
    /\ descendant = "none"
    /\ emitted = <<>> /\ inPipe = <<>> /\ buffer = <<>>
    /\ reader = "reading"
    /\ output = <<>> /\ truncated = FALSE /\ closed = FALSE
    /\ main = "wait"
    /\ timedOut = FALSE
-------------------------------------------------------------------------------
(* The child's session, external. *)

Writers == child = "running" \/ descendant = "running"

\* A line fits into the pipe, or its writer blocks.
Write(line) ==
    /\ Writers
    /\ Len(emitted) < MaxLines
    /\ Len(inPipe) < Pipe
    /\ emitted' = Append(emitted, line)
    /\ inPipe' = Append(inPipe, line)
    /\ UNCHANGED <<child, stubborn, exit, descendant, buffer, reader, output,
                   truncated, closed, main, timedOut>>

Exit(code) ==
    /\ child = "running"
    /\ child' = "zombie"
    /\ exit' = code
    /\ UNCHANGED <<stubborn, descendant, emitted, drain, main, timedOut>>

Fork ==
    /\ Forks
    /\ child = "running"
    /\ descendant = "none"
    /\ descendant' = "running"
    /\ UNCHANGED <<child, stubborn, exit, emitted, drain, main, timedOut>>

DescendantExits ==
    /\ descendant = "running"
    /\ descendant' = "gone"
    /\ UNCHANGED <<child, stubborn, exit, emitted, drain, main, timedOut>>
-------------------------------------------------------------------------------
(* The reader thread: drain_output. *)

\* Inside read(65536), which holds the lock of the buffered stream: it gathers
\* what the pipe has and goes on until it has a whole chunk.
Gather ==
    /\ reader = "reading" /\ ~closed
    /\ inPipe # <<>> /\ Len(buffer) < Chunk
    /\ buffer' = Append(buffer, Head(inPipe))
    /\ inPipe' = Tail(inPipe)
    /\ UNCHANGED <<session, reader, output, truncated, closed, main, timedOut>>

EndOfFile == inPipe = <<>> /\ ~Writers

\* Fault: what is left when the pipe closes is less than a chunk and lost.
ReadReturnsWholeChunks ==
    /\ reader = "reading" /\ ~closed
    /\ Len(buffer) = Chunk \/ EndOfFile
    /\ reader' = IF Len(buffer) < Chunk THEN "ended" ELSE "returned"
    /\ UNCHANGED <<session, inPipe, buffer, output, truncated, closed, main,
                   timedOut>>

\* read returns a whole chunk, or what there is at the end of the file.
ReadReturns ==
    /\ reader = "reading" /\ ~closed
    /\ Len(buffer) = Chunk \/ EndOfFile
    /\ reader' = IF buffer = <<>> THEN "ended" ELSE "returned"
    /\ UNCHANGED <<session, inPipe, buffer, output, truncated, closed, main,
                   timedOut>>

\* Fault: the cap is not applied.
KeepAll ==
    /\ reader = "returned"
    /\ output' = output \o buffer
    /\ buffer' = <<>>
    /\ reader' = "reading"
    /\ UNCHANGED <<session, inPipe, truncated, closed, main, timedOut>>

\* The body of the loop: what still fits into the log is kept.
Keep ==
    /\ reader = "returned"
    /\ LET remaining == Cap - Len(output)
       IN  /\ output' = output \o
                        (IF Len(buffer) <= remaining THEN buffer
                         ELSE SubSeq(buffer, 1, remaining))
           /\ truncated' = (truncated \/ Len(buffer) > remaining)
    /\ buffer' = <<>>
    /\ reader' = "reading"
    /\ UNCHANGED <<session, inPipe, closed, main, timedOut>>

\* The stream was closed between two reads: ValueError.
ReadRaises ==
    /\ reader = "reading" /\ closed
    /\ reader' = "ended"
    /\ UNCHANGED <<session, inPipe, buffer, output, truncated, closed, main,
                   timedOut>>

ReaderThread == Gather \/ ReadReturns \/ Keep \/ ReadRaises
-------------------------------------------------------------------------------
(* The main thread: run_qemu_boot. *)

Reap(next) ==
    /\ child = "zombie"
    /\ child' = "reaped"
    /\ main' = next
    /\ UNCHANGED <<stubborn, exit, descendant, emitted, drain, timedOut>>

\* process.wait(timeout=timeout): the child has exited in time, or the time is
\* up, which a child that exits at that moment does not prevent.
WaitReturns == main = "wait" /\ Reap("join")

WaitTimesOut ==
    /\ main = "wait"
    /\ timedOut' = TRUE
    /\ main' = "terminate"
    /\ UNCHANGED <<session, drain>>

\* killpg(SIGTERM): the whole session gets it, a child already dead does not
\* notice; what the descendant does about it is up to the descendant.
Terminate ==
    /\ main = "terminate"
    /\ IF child = "running" /\ ~stubborn
       THEN child' = "zombie" /\ exit' = "error"
       ELSE UNCHANGED <<child, exit>>
    /\ descendant' \in (IF descendant = "running" THEN {"running", "gone"}
                                                  ELSE {descendant})
    /\ main' = "graceWait"
    /\ UNCHANGED <<stubborn, emitted, drain, timedOut>>

\* process.wait(timeout=2.0).
GraceWaitReturns == main = "graceWait" /\ Reap("join")

\* Fault: SIGKILL is not sent.
GraceEndsWithoutKill ==
    /\ main = "graceWait"
    /\ main' = "waitKilled"
    /\ UNCHANGED <<session, drain, timedOut>>

\* The two seconds after SIGTERM are over.
GraceEnds ==
    /\ main = "graceWait"
    /\ main' = "kill"
    /\ UNCHANGED <<session, drain, timedOut>>

\* killpg(SIGKILL), which nobody survives, and process.wait().
Kill ==
    /\ main = "kill"
    /\ IF child = "running" THEN child' = "zombie" /\ exit' = "error"
                            ELSE UNCHANGED <<child, exit>>
    /\ descendant' = IF descendant = "running" THEN "gone" ELSE descendant
    /\ main' = "waitKilled"
    /\ UNCHANGED <<stubborn, emitted, drain, timedOut>>

WaitKilledReturns == main = "waitKilled" /\ Reap("join")

\* reader.join(timeout=2.0).  Two seconds are ample for what a pipe holds, so
\* the join times out only if somebody may still write to it.
Join ==
    /\ main = "join"
    /\ reader = "ended" \/ Writers
    /\ main' = "close"
    /\ UNCHANGED <<session, drain, timedOut>>

\* process.stdout.close() takes the lock that a read in progress holds.
Close ==
    /\ main = "close"
    /\ reader # "reading" \/ closed
    /\ closed' = TRUE
    /\ main' = IF reader = "ended" THEN "done" ELSE "joinAgain"
    /\ UNCHANGED <<session, inPipe, buffer, reader, output, truncated, timedOut>>

\* reader.join(timeout=1.0): the reader ends by itself, its stream being closed.
JoinAgain ==
    /\ main = "joinAgain"
    /\ reader = "ended"
    /\ main' = "done"
    /\ UNCHANGED <<session, drain, timedOut>>

MainThread ==
    \/ WaitReturns \/ WaitTimesOut \/ Terminate \/ GraceWaitReturns \/ GraceEnds
    \/ Kill \/ WaitKilledReturns \/ Join \/ Close \/ JoinAgain

Session ==
    \/ \E line \in Line : Write(line)
    \/ \E code \in {"ok", "error"} : Exit(code)
    \/ Fork \/ DescendantExits

Next == Session \/ ReaderThread \/ MainThread

\* Both threads run and timeouts expire; nothing is assumed of the child and its
\* descendant but that SIGKILL ends them (Kill).
Spec == Init /\ [][Next]_vars /\ WF_vars(ReaderThread) /\ WF_vars(MainThread)
-------------------------------------------------------------------------------
Occurs(line, log) == \E i \in DOMAIN log : log[i] = line

\* Fault: a truncated log is trusted.
PassedIfTruncated(expected) ==
    /\ ~Occurs("fatal", output)
    /\ expected => Occurs("contact", output) /\ (timedOut \/ exit = "ok")
    /\ ~expected => ~timedOut /\ exit = "ok"

\* QEMUBootResult.passed for one fatal pattern and one expected pattern or none:
\* with none the child has to end by itself.
Passed(expected) ==
    /\ ~Occurs("fatal", output)
    /\ ~truncated
    /\ expected => Occurs("contact", output) /\ (timedOut \/ exit = "ok")
    /\ ~expected => ~timedOut /\ exit = "ok"

\* Nothing but the child itself ever had the pipe.
Alone == descendant = "none"

\* A run that passes is judged by everything the child ever wrote: the contact
\* asked for was there, and no fatal line was lost past the cap, in a chunk not
\* yet complete or in the pipe when the child was killed.
VerdictSeesWholeLog ==
    main = "done" /\ Alone =>
        \A expected \in BOOLEAN : Passed(expected) =>
            (expected => Occurs("contact", emitted)) /\ ~Occurs("fatal", emitted)

\* The log is what was written, from the beginning and without a gap, even when
\* the stream is closed under the reader; and output_truncated tells exactly
\* whether something is missing at the end.
LogIsPrefix ==
    main = "done" => /\ IsPrefix(output, emitted)
                     /\ Alone => (truncated <=> output # emitted)

\* The call returns with the child waited for, though the child hangs, ignores
\* SIGTERM or exits as the time is up, provided that a descendant it leaves does
\* not run for ever.
Returns ==
    <>[](descendant # "running") => <>(main = "done" /\ child = "reaped")

\* The docstring of run_qemu_boot, line 565: "enforce a hard timeout".
HardTimeout == <>(main = "done")
===============================================================================
