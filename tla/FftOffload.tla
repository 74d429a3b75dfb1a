------------------------------ MODULE FftOffload ------------------------------
(***************************************************************************)
(* firmware/neptune_fft_streamer.c, lines 352-473 and 764-784: one block   *)
(* of samples on its way through the two buffers the streamer shares with  *)
(* the FFT accelerator.                                                    *)
(*                                                                         *)
(* The CPU copies a block piece by piece into the input buffer, programs   *)
(* the accelerator, polls its STATUS against a deadline and reads the      *)
(* output one channel at a time.  The accelerator is not part of this      *)
(* repository; docs/P210_FFT_ABI.md tells firmware to treat it as          *)
(* asynchronous, so here it reads and writes the buffers in steps of its   *)
(* own, may fail at any of them and may never finish.                      *)
(*                                                                         *)
(* A block is named by the sequence number it is captured for and the      *)
(* attempt of capture_iio_frame that captured it.  Memory is modelled by   *)
(* the blocks whose samples went into it.                                  *)
(***************************************************************************)
EXTENDS Naturals

CONSTANTS Pieces,            \* read(2) calls it takes to fill the input buffer
          MaxAttempts,       \* CONFIG_CAPTURE_ATTEMPTS
          SequenceModulus    \* 2^32: SEQUENCE is a 32-bit register

ASSUME PiecesAssumption == Pieces \in Nat \ {0}
ASSUME AttemptsAssumption == MaxAttempts \in Nat \ {0}
ASSUME SequenceAssumption == SequenceModulus \in Nat \ {0, 1}

Piece    == 1 .. Pieces
Channel  == 0 .. 1                        \* FFT_CHANNELS
Sequence == 0 .. SequenceModulus - 1
Block    == Sequence \X (0 .. MaxAttempts - 1)

VARIABLES
    \* the CPU
    pc,          \* where main and run_fft are
    sequence,    \* frame counter of main
    attempt,     \* attempt of capture_iio_frame
    received,    \* pieces of the block read so far
    status,      \* the STATUS value run_fft read last
    expired,     \* whether the five-second deadline has passed
    channel,     \* the channel whose packet is built next
    packet,      \* the blocks the latest packet was computed from
    \* memory
    input, output,
    \* the accelerator
    busy, done, error,     \* STATUS bits
    request,               \* SEQUENCE
    result,                \* RESULT_SEQUENCE
    bins,                  \* channels' worth of BINS_WRITTEN
    work,                  \* the samples it has read: piece -> blocks
    stored                 \* the channels whose bins it has written

cpu    == <<pc, sequence, attempt, received, status, expired, channel, packet>>
device == <<busy, done, error, request, result, bins, work, stored>>
vars   == <<cpu, input, output, device>>

CurrentBlock == <<sequence, attempt>>

Polling == {"poll", "deadline"}

Location ==
    {"frame", "capture", "clear", "program", "start", "check", "publish",
     "failed"} \cup Polling

Status == [busy : BOOLEAN, done : BOOLEAN]

TypeOK ==
    /\ pc \in Location
    /\ sequence \in Sequence
    /\ attempt \in 0 .. MaxAttempts - 1
    /\ received \in 0 .. Pieces
    /\ status \in Status
    /\ expired \in BOOLEAN
    /\ channel \in Channel
    /\ packet \in SUBSET Block
    /\ input \in [Piece -> SUBSET Block]
    /\ output \in [Channel -> SUBSET Block]
    /\ busy \in BOOLEAN /\ done \in BOOLEAN /\ error \in BOOLEAN
    /\ request \in Sequence /\ result \in Sequence
    /\ bins \in {0, 2}
    /\ work \in [Piece -> SUBSET Block]
    /\ stored \in SUBSET Channel

\* Memory nobody has written yet, and the accelerator after reset.
Init ==
    /\ pc = "frame"
    /\ sequence = 0 /\ attempt = 0 /\ received = 0
    /\ status = [busy |-> FALSE, done |-> FALSE]
    /\ expired = FALSE
    /\ channel = 0 /\ packet = {}
    /\ input = [p \in Piece |-> {}]
    /\ output = [c \in Channel |-> {}]
    /\ busy = FALSE /\ done = FALSE /\ error = FALSE
    /\ request = 0 /\ result = 0 /\ bins = 0
    /\ work = [p \in Piece |-> {}] /\ stored = {}
-------------------------------------------------------------------------------
(* The CPU. *)

\* Fault: the frame counter outgrows the register.
BeginFrameUnbounded ==
    /\ pc = "frame"
    /\ sequence' = sequence + 1
    /\ attempt' = 0
    /\ received' = 0
    /\ pc' = "capture"
    /\ UNCHANGED <<status, expired, channel, packet, input, output, device>>

\* main, for a client that is connected: sequence++ and the call of
\* capture_iio_frame.
BeginFrame ==
    /\ pc = "frame"
    /\ sequence' = (sequence + 1) % SequenceModulus
    /\ attempt' = 0
    /\ received' = 0
    /\ pc' = "capture"
    /\ UNCHANGED <<status, expired, channel, packet, input, output, device>>

\* capture_iio_block: a read(2) delivers the next piece of the block.
CapturePiece ==
    /\ pc = "capture"
    /\ received < Pieces
    /\ input' = [input EXCEPT ![received + 1] = {CurrentBlock}]
    /\ received' = received + 1
    /\ UNCHANGED <<pc, sequence, attempt, status, expired, channel, packet,
                   output, device>>

\* Fault: the next attempt does not start reading from the beginning.
DiscardBlockKeepingPieces ==
    /\ pc = "capture"
    /\ received = Pieces
    /\ attempt + 1 < MaxAttempts
    /\ attempt' = attempt + 1
    /\ received' = Pieces - 1
    /\ UNCHANGED <<pc, sequence, status, expired, channel, packet, input,
                   output, device>>

\* capture_iio_frame: the configuration changed under the block (SpectrumConfig
\* says when); the next attempt reads a whole new block.
DiscardBlock ==
    /\ pc = "capture"
    /\ received = Pieces
    /\ attempt + 1 < MaxAttempts
    /\ attempt' = attempt + 1
    /\ received' = 0
    /\ UNCHANGED <<pc, sequence, status, expired, channel, packet, input,
                   output, device>>

AcceptBlock ==
    /\ pc = "capture"
    /\ received = Pieces
    /\ pc' = "clear"
    /\ UNCHANGED <<sequence, attempt, received, status, expired, channel,
                   packet, input, output, device>>

\* run_fft: acknowledge what an earlier run may have left in STATUS.
ClearStatus ==
    /\ pc = "clear"
    /\ done' = FALSE /\ error' = FALSE
    /\ pc' = "program"
    /\ UNCHANGED <<sequence, attempt, received, status, expired, channel,
                   packet, input, output, busy, request, result, bins, work,
                   stored>>

\* run_fft: the descriptor, of which only SEQUENCE differs from run to run.
\* The accelerator ignores configuration writes while BUSY.
Program ==
    /\ pc = "program"
    /\ request' = IF busy THEN request ELSE sequence
    /\ pc' = "start"
    /\ UNCHANGED <<sequence, attempt, received, status, expired, channel,
                   packet, input, output, busy, done, error, result, bins,
                   work, stored>>

\* The accelerator's answer to START: it begins a run, or reports an error (a
\* descriptor it refuses, or a START while BUSY).
AcceleratorStart ==
    /\ done' = FALSE
    /\ \/ ~busy /\ busy' = TRUE /\ error' = FALSE
       \/ busy' = busy /\ error' = TRUE
    /\ work' = [p \in Piece |-> {}] /\ stored' = {}
    /\ UNCHANGED <<request, result, bins>>

\* run_fft: write START and compute the deadline.
Start ==
    /\ pc = "start"
    /\ AcceleratorStart
    /\ expired' = FALSE
    /\ pc' = "poll"
    /\ UNCHANGED <<sequence, attempt, received, status, channel, packet, input,
                   output>>

\* run_fft: read STATUS once.
Poll ==
    /\ pc = "poll"
    /\ status' = [busy |-> busy, done |-> done]
    /\ pc' = IF error THEN "failed" ELSE IF done THEN "check" ELSE "deadline"
    /\ UNCHANGED <<sequence, attempt, received, expired, channel, packet,
                   input, output, device>>

\* Fault: polling without a deadline.
TestNoDeadline ==
    /\ pc = "deadline"
    /\ pc' = "poll"
    /\ UNCHANGED <<sequence, attempt, received, status, expired, channel,
                   packet, input, output, device>>

\* The loop condition: another read of STATUS unless the deadline has passed.
TestDeadline ==
    /\ pc = "deadline"
    /\ pc' = IF expired THEN "check" ELSE "poll"
    /\ UNCHANGED <<sequence, attempt, received, status, expired, channel,
                   packet, input, output, device>>

\* CLOCK_MONOTONIC passes the deadline.
Expire ==
    /\ pc \in Polling
    /\ ~expired
    /\ expired' = TRUE
    /\ UNCHANGED <<pc, sequence, attempt, received, status, channel, packet,
                   input, output, device>>

\* run_fft after the loop: the status read last, then what the run reports.
ResultsValid ==
    /\ status.done /\ ~status.busy
    /\ result = sequence
    /\ bins = 2

\* Fault: a run without a result costs its frame only.
CheckResultAndSkip ==
    /\ pc = "check"
    /\ pc' = IF ResultsValid THEN "publish" ELSE "frame"
    /\ channel' = 0
    /\ UNCHANGED <<sequence, attempt, received, status, expired, packet, input,
                   output, device>>

CheckResult ==
    /\ pc = "check"
    /\ pc' = IF ResultsValid THEN "publish" ELSE "failed"
    /\ channel' = 0
    /\ UNCHANGED <<sequence, attempt, received, status, expired, packet, input,
                   output, device>>

\* main: the packet of one channel is encoded from the output buffer; when the
\* last one has been sent the client is paced and may have another frame.
BuildPacket ==
    /\ pc = "publish"
    /\ packet' = output[channel]
    /\ IF channel + 1 \in Channel
       THEN channel' = channel + 1 /\ pc' = pc
       ELSE channel' = 0 /\ pc' = "frame"
    /\ UNCHANGED <<sequence, attempt, received, status, expired, input, output,
                   device>>

\* main: the packet built last cannot be sent, and the client is dropped before
\* the other channel's is built.  (After the last packet it is the same as going
\* on: no frame is in progress.)
DropClient ==
    /\ pc = "publish"
    /\ channel # 0
    /\ channel' = 0 /\ pc' = "frame"
    /\ UNCHANGED <<sequence, attempt, received, status, expired, packet, input,
                   output, device>>

\* A failed read of the block, or the last attempt discarded: fail() exits.
CaptureFailure ==
    /\ pc = "capture"
    /\ pc' = "failed"
    /\ UNCHANGED <<sequence, attempt, received, status, expired, channel,
                   packet, input, output, device>>

\* The steps of a frame that has been begun.
Frame == \/ CapturePiece \/ DiscardBlock \/ AcceptBlock \/ ClearStatus
         \/ Program \/ Start \/ Poll \/ TestDeadline \/ CheckResult
         \/ BuildPacket \/ DropClient

Cpu == BeginFrame \/ Frame
-------------------------------------------------------------------------------
(* The accelerator, external to this repository. *)

Running == busy /\ ~done

\* It reads a piece of the input, in no particular order.
LoadPiece(p) ==
    /\ Running
    /\ work[p] = {}
    /\ work' = [work EXCEPT ![p] = input[p]]
    /\ UNCHANGED <<cpu, input, output, busy, done, error, request, result, bins,
                   stored>>

Loaded == \A p \in Piece : work[p] # {}

Transform == UNION {work[p] : p \in Piece}

\* It writes a channel's bins, which depend on every piece of the input.
StoreChannel(c) ==
    /\ Running
    /\ Loaded
    /\ output' = [output EXCEPT ![c] = Transform]
    /\ stored' = stored \cup {c}
    /\ UNCHANGED <<cpu, input, busy, done, error, request, result, bins, work>>

\* With all bins written it reports the run; BUSY drops with DONE or later.
Complete ==
    /\ Running
    /\ stored = Channel
    /\ result' = request
    /\ bins' = 2
    /\ done' = TRUE
    /\ busy' \in BOOLEAN
    /\ UNCHANGED <<cpu, input, output, error, request, work, stored>>

Settle ==
    /\ busy /\ done
    /\ busy' = FALSE
    /\ UNCHANGED <<cpu, input, output, done, error, request, result, bins, work,
                   stored>>

\* A DMA access fails: ERROR, and no result.
Abort ==
    /\ Running
    /\ busy' = FALSE /\ error' = TRUE
    /\ UNCHANGED <<cpu, input, output, done, request, result, bins, work, stored>>

Accelerator ==
    \/ \E p \in Piece : LoadPiece(p)
    \/ \E c \in Channel : StoreChannel(c)
    \/ Complete \/ Settle \/ Abort

Next == Cpu \/ Expire \/ CaptureFailure \/ Accelerator

\* The streamer ends the frame it has begun and time passes; no client need ask
\* for another frame, and the accelerator is under no obligation.
Spec == Init /\ [][Next]_vars /\ WF_vars(Frame) /\ WF_vars(Expire)
-------------------------------------------------------------------------------
\* While the accelerator works on the buffers the CPU keeps off them: it waits,
\* or it has given up for good.  A run that outlives its deadline is therefore
\* never followed by a capture into the buffer it still reads.
BuffersNotShared == Running => pc \in Polling \cup {"check", "failed"}

\* Both packets of a frame are computed from the block accepted for its
\* sequence number, all of it and nothing else: no piece of a discarded
\* attempt, of the previous frame or of an unfinished run.
PacketsFromAcceptedBlock ==
    [][BuildPacket => packet' = {CurrentBlock}]_vars

\* run_fft comes to an end although the accelerator may hang.
OffloadEnds == pc \in Polling ~> pc \in {"publish", "failed"}
===============================================================================
