-------------------------- MODULE FftOffload_proofs --------------------------
(***************************************************************************)
(* Proofs about FftOffload, for blocks of any number of pieces, any limit  *)
(* of attempts and any width of the sequence register.                     *)
(***************************************************************************)
EXTENDS FftOffload, TLAPS

\* From the acceptance of a block to the last packet built from it.
Offloading == {"clear", "program", "start", "check", "publish"} \cup Polling

\* The input buffer holds the block being captured, as far as it has been read,
\* and keeps it while the accelerator may still read it.
InputInv ==
    /\ pc = "capture" =>
           \A p \in Piece : p <= received => input[p] = {CurrentBlock}
    /\ (pc \in Offloading \/ busy) => \A p \in Piece : input[p] = {CurrentBlock}

\* The accelerator is busy only while the CPU waits for it, or for ever.
BusyInv == busy => pc \in Polling \cup {"check", "failed"}

\* A run reads the current block, and reports DONE with both channels written.
RunInv ==
    (pc \in Polling \cup {"check"} \/ busy) =>
        /\ \A p \in Piece : work[p] \in {{}, {CurrentBlock}}
        /\ \A c \in stored : output[c] = {CurrentBlock}
        /\ done => stored = Channel

\* What the CPU saw in STATUS still holds: DONE is not withdrawn, and BUSY does
\* not return after it.
StatusInv ==
    /\ pc = "deadline" => ~status.done
    /\ pc = "check" => /\ status.done => done
                       /\ (status.done /\ ~status.busy) => ~busy

OutputInv == pc = "publish" => \A c \in Channel : output[c] = {CurrentBlock}

IInv == TypeOK /\ InputInv /\ BusyInv /\ RunInv /\ StatusInv /\ OutputInv

-------------------------------------------------------------------------------
USE PiecesAssumption, AttemptsAssumption, SequenceAssumption

\* A transform of nothing but the current block is the current block's.
LEMMA TransformLemma ==
    ASSUME Loaded, \A p \in Piece : work[p] \in {{}, {CurrentBlock}}
    PROVE  Transform = {CurrentBlock}
<1>1. \A p \in Piece : work[p] = {CurrentBlock}
  BY DEF Loaded
<1>2. 1 \in Piece
  BY DEF Piece
<1>3. \A b \in Transform : b = CurrentBlock
  BY <1>1 DEF Transform
<1>4. CurrentBlock \in Transform
  BY <1>1, <1>2 DEF Transform
<1>5. QED
  BY <1>3, <1>4

\* The invariant holds at reset.
LEMMA InitInv == Init => IInv
<1> SUFFICES ASSUME Init PROVE IInv
  OBVIOUS
<1>1. TypeOK
  <2>1. /\ input \in [Piece -> SUBSET Block] /\ work \in [Piece -> SUBSET Block]
        /\ output \in [Channel -> SUBSET Block]
    BY DEF Init
  <2>2. /\ sequence \in Sequence /\ request \in Sequence /\ result \in Sequence
        /\ attempt \in 0 .. MaxAttempts - 1 /\ received \in 0 .. Pieces
        /\ channel \in Channel /\ bins \in {0, 2}
    BY DEF Init, Sequence, Channel
  <2>3. /\ pc \in Location /\ status \in Status
        /\ packet \in SUBSET Block /\ stored \in SUBSET Channel
    BY DEF Init, Location, Status
  <2>4. /\ expired \in BOOLEAN
        /\ busy \in BOOLEAN /\ done \in BOOLEAN /\ error \in BOOLEAN
    BY DEF Init
  <2>5. QED
    BY <2>1, <2>2, <2>3, <2>4 DEF TypeOK
<1>2. InputInv /\ BusyInv /\ RunInv /\ StatusInv /\ OutputInv
  BY DEF Init, InputInv, BusyInv, RunInv, StatusInv, OutputInv, Offloading,
     Polling
<1>3. QED
  BY <1>1, <1>2 DEF IInv

\* BeginFrame preserves the invariant.
LEMMA BeginFrameInv ==
    ASSUME IInv, BeginFrame PROVE IInv'
<1> USE DEF IInv, BeginFrame, device, Polling
<1>1. TypeOK'
  BY DEF TypeOK, Location, Status, Piece, Channel, Sequence, Block, CurrentBlock
<1>2. InputInv'
  BY DEF TypeOK, InputInv, BusyInv, Offloading, Piece, CurrentBlock
<1>3. BusyInv'
  BY DEF BusyInv, StatusInv
<1>4. RunInv'
  BY DEF TypeOK, InputInv, BusyInv, RunInv, Offloading, CurrentBlock
<1>5. StatusInv'
  BY DEF TypeOK, StatusInv, Status
<1>6. OutputInv'
  BY DEF OutputInv, BusyInv, RunInv, StatusInv, CurrentBlock
<1>7. QED
  BY <1>1, <1>2, <1>3, <1>4, <1>5, <1>6

\* CapturePiece preserves the invariant.
LEMMA CapturePieceInv ==
    ASSUME IInv, CapturePiece PROVE IInv'
<1> USE DEF IInv, CapturePiece, device, Polling
<1>1. TypeOK'
  BY DEF TypeOK, Location, Status, Piece, Channel, Sequence, Block, CurrentBlock
<1>2. InputInv'
  BY DEF TypeOK, InputInv, BusyInv, Offloading, Piece, CurrentBlock
<1>3. BusyInv'
  BY DEF BusyInv, StatusInv
<1>4. RunInv'
  BY DEF TypeOK, InputInv, BusyInv, RunInv, Offloading, CurrentBlock
<1>5. StatusInv'
  BY DEF TypeOK, StatusInv, Status
<1>6. OutputInv'
  BY DEF OutputInv, BusyInv, RunInv, StatusInv, CurrentBlock
<1>7. QED
  BY <1>1, <1>2, <1>3, <1>4, <1>5, <1>6

\* DiscardBlock preserves the invariant.
LEMMA DiscardBlockInv ==
    ASSUME IInv, DiscardBlock PROVE IInv'
<1> USE DEF IInv, DiscardBlock, device, Polling
<1>1. TypeOK'
  BY DEF TypeOK, Location, Status, Piece, Channel, Sequence, Block, CurrentBlock
<1>2. InputInv'
  BY DEF TypeOK, InputInv, BusyInv, Offloading, Piece, CurrentBlock
<1>3. BusyInv'
  BY DEF BusyInv, StatusInv
<1>4. RunInv'
  BY DEF TypeOK, InputInv, BusyInv, RunInv, Offloading, CurrentBlock
<1>5. StatusInv'
  BY DEF TypeOK, StatusInv, Status
<1>6. OutputInv'
  BY DEF OutputInv, BusyInv, RunInv, StatusInv, CurrentBlock
<1>7. QED
  BY <1>1, <1>2, <1>3, <1>4, <1>5, <1>6

\* AcceptBlock preserves the invariant.
LEMMA AcceptBlockInv ==
    ASSUME IInv, AcceptBlock PROVE IInv'
<1> USE DEF IInv, AcceptBlock, device, Polling
<1>1. TypeOK'
  BY DEF TypeOK, Location, Status, Piece, Channel, Sequence, Block, CurrentBlock
<1>2. InputInv'
  BY DEF TypeOK, InputInv, BusyInv, Offloading, Piece, CurrentBlock
<1>3. BusyInv'
  BY DEF BusyInv, StatusInv
<1>4. RunInv'
  BY DEF TypeOK, InputInv, BusyInv, RunInv, Offloading, CurrentBlock
<1>5. StatusInv'
  BY DEF TypeOK, StatusInv, Status
<1>6. OutputInv'
  BY DEF OutputInv, BusyInv, RunInv, StatusInv, CurrentBlock
<1>7. QED
  BY <1>1, <1>2, <1>3, <1>4, <1>5, <1>6

\* ClearStatus preserves the invariant.
LEMMA ClearStatusInv ==
    ASSUME IInv, ClearStatus PROVE IInv'
<1> USE DEF IInv, ClearStatus, device, Polling
<1>1. TypeOK'
  BY DEF TypeOK, Location, Status, Piece, Channel, Sequence, Block, CurrentBlock
<1>2. InputInv'
  BY DEF TypeOK, InputInv, BusyInv, Offloading, Piece, CurrentBlock
<1>3. BusyInv'
  BY DEF BusyInv, StatusInv
<1>4. RunInv'
  BY DEF TypeOK, InputInv, BusyInv, RunInv, Offloading, CurrentBlock
<1>5. StatusInv'
  BY DEF TypeOK, StatusInv, Status
<1>6. OutputInv'
  BY DEF OutputInv, BusyInv, RunInv, StatusInv, CurrentBlock
<1>7. QED
  BY <1>1, <1>2, <1>3, <1>4, <1>5, <1>6

\* Program preserves the invariant.
LEMMA ProgramInv ==
    ASSUME IInv, Program PROVE IInv'
<1> USE DEF IInv, Program, device, Polling
<1>1. TypeOK'
  BY DEF TypeOK, Location, Status, Piece, Channel, Sequence, Block, CurrentBlock
<1>2. InputInv'
  BY DEF TypeOK, InputInv, BusyInv, Offloading, Piece, CurrentBlock
<1>3. BusyInv'
  BY DEF BusyInv, StatusInv
<1>4. RunInv'
  BY DEF TypeOK, InputInv, BusyInv, RunInv, Offloading, CurrentBlock
<1>5. StatusInv'
  BY DEF TypeOK, StatusInv, Status
<1>6. OutputInv'
  BY DEF OutputInv, BusyInv, RunInv, StatusInv, CurrentBlock
<1>7. QED
  BY <1>1, <1>2, <1>3, <1>4, <1>5, <1>6

\* Start preserves the invariant.
LEMMA StartInv ==
    ASSUME IInv, Start PROVE IInv'
<1> USE DEF IInv, Start, AcceleratorStart, device, Polling
<1>1. TypeOK'
  BY DEF TypeOK, Location, Status, Piece, Channel, Sequence, Block, CurrentBlock
<1>2. InputInv'
  BY DEF TypeOK, InputInv, BusyInv, Offloading, Piece, CurrentBlock
<1>3. BusyInv'
  BY DEF BusyInv, StatusInv
<1>4. RunInv'
  BY DEF TypeOK, InputInv, BusyInv, RunInv, Offloading, CurrentBlock
<1>5. StatusInv'
  BY DEF TypeOK, StatusInv, Status
<1>6. OutputInv'
  BY DEF OutputInv, BusyInv, RunInv, StatusInv, CurrentBlock
<1>7. QED
  BY <1>1, <1>2, <1>3, <1>4, <1>5, <1>6

\* Poll preserves the invariant.
LEMMA PollInv ==
    ASSUME IInv, Poll PROVE IInv'
<1> USE DEF IInv, Poll, device, Polling
<1>1. TypeOK'
  BY DEF TypeOK, Location, Status, Piece, Channel, Sequence, Block, CurrentBlock
<1>2. InputInv'
  BY DEF TypeOK, InputInv, BusyInv, Offloading, Piece, CurrentBlock
<1>3. BusyInv'
  BY DEF BusyInv, StatusInv
<1>4. RunInv'
  BY DEF TypeOK, InputInv, BusyInv, RunInv, Offloading, CurrentBlock
<1>5. StatusInv'
  BY DEF TypeOK, StatusInv, Status
<1>6. OutputInv'
  BY DEF OutputInv, BusyInv, RunInv, StatusInv, CurrentBlock
<1>7. QED
  BY <1>1, <1>2, <1>3, <1>4, <1>5, <1>6

\* TestDeadline preserves the invariant.
LEMMA TestDeadlineInv ==
    ASSUME IInv, TestDeadline PROVE IInv'
<1> USE DEF IInv, TestDeadline, device, Polling
<1>1. TypeOK'
  BY DEF TypeOK, Location, Status, Piece, Channel, Sequence, Block, CurrentBlock
<1>2. InputInv'
  BY DEF TypeOK, InputInv, BusyInv, Offloading, Piece, CurrentBlock
<1>3. BusyInv'
  BY DEF BusyInv, StatusInv
<1>4. RunInv'
  BY DEF TypeOK, InputInv, BusyInv, RunInv, Offloading, CurrentBlock
<1>5. StatusInv'
  BY DEF TypeOK, StatusInv, Status
<1>6. OutputInv'
  BY DEF OutputInv, BusyInv, RunInv, StatusInv, CurrentBlock
<1>7. QED
  BY <1>1, <1>2, <1>3, <1>4, <1>5, <1>6

\* CheckResult preserves the invariant.
LEMMA CheckResultInv ==
    ASSUME IInv, CheckResult PROVE IInv'
<1> USE DEF IInv, CheckResult, ResultsValid, device, Polling
<1>1. TypeOK'
  BY DEF TypeOK, Location, Status, Piece, Channel, Sequence, Block, CurrentBlock
<1>2. InputInv'
  BY DEF TypeOK, InputInv, BusyInv, Offloading, Piece, CurrentBlock
<1>3. BusyInv'
  BY DEF BusyInv, StatusInv
<1>4. RunInv'
  BY DEF TypeOK, InputInv, BusyInv, RunInv, Offloading, CurrentBlock
<1>5. StatusInv'
  BY DEF TypeOK, StatusInv, Status
<1>6. OutputInv'
  BY DEF OutputInv, BusyInv, RunInv, StatusInv, CurrentBlock
<1>7. QED
  BY <1>1, <1>2, <1>3, <1>4, <1>5, <1>6

\* BuildPacket preserves the invariant.
LEMMA BuildPacketInv ==
    ASSUME IInv, BuildPacket PROVE IInv'
<1> USE DEF IInv, BuildPacket, device, Polling
<1>1. TypeOK'
  BY DEF TypeOK, Location, Status, Piece, Channel, Sequence, Block, CurrentBlock
<1>2. InputInv'
  BY DEF TypeOK, InputInv, BusyInv, Offloading, Piece, CurrentBlock
<1>3. BusyInv'
  BY DEF BusyInv, StatusInv
<1>4. RunInv'
  BY DEF TypeOK, InputInv, BusyInv, RunInv, Offloading, CurrentBlock
<1>5. StatusInv'
  BY DEF TypeOK, StatusInv, Status
<1>6. OutputInv'
  BY DEF OutputInv, BusyInv, RunInv, StatusInv, CurrentBlock
<1>7. QED
  BY <1>1, <1>2, <1>3, <1>4, <1>5, <1>6

\* DropClient preserves the invariant.
LEMMA DropClientInv ==
    ASSUME IInv, DropClient PROVE IInv'
<1> USE DEF IInv, DropClient, device, Polling
<1>1. TypeOK'
  BY DEF TypeOK, Location, Status, Piece, Channel, Sequence, Block, CurrentBlock
<1>2. InputInv'
  BY DEF TypeOK, InputInv, BusyInv, Offloading, Piece, CurrentBlock
<1>3. BusyInv'
  BY DEF BusyInv, StatusInv
<1>4. RunInv'
  BY DEF TypeOK, InputInv, BusyInv, RunInv, Offloading, CurrentBlock
<1>5. StatusInv'
  BY DEF TypeOK, StatusInv, Status
<1>6. OutputInv'
  BY DEF OutputInv, BusyInv, RunInv, StatusInv, CurrentBlock
<1>7. QED
  BY <1>1, <1>2, <1>3, <1>4, <1>5, <1>6

\* Expire preserves the invariant.
LEMMA ExpireInv ==
    ASSUME IInv, Expire PROVE IInv'
<1> USE DEF IInv, Expire, device, Polling
<1>1. TypeOK'
  BY DEF TypeOK, Location, Status, Piece, Channel, Sequence, Block, CurrentBlock
<1>2. InputInv'
  BY DEF TypeOK, InputInv, BusyInv, Offloading, Piece, CurrentBlock
<1>3. BusyInv'
  BY DEF BusyInv, StatusInv
<1>4. RunInv'
  BY DEF TypeOK, InputInv, BusyInv, RunInv, Offloading, CurrentBlock
<1>5. StatusInv'
  BY DEF TypeOK, StatusInv, Status
<1>6. OutputInv'
  BY DEF OutputInv, BusyInv, RunInv, StatusInv, CurrentBlock
<1>7. QED
  BY <1>1, <1>2, <1>3, <1>4, <1>5, <1>6

\* CaptureFailure preserves the invariant.
LEMMA CaptureFailureInv ==
    ASSUME IInv, CaptureFailure PROVE IInv'
<1> USE DEF IInv, CaptureFailure, device, Polling
<1>1. TypeOK'
  BY DEF TypeOK, Location, Status, Piece, Channel, Sequence, Block, CurrentBlock
<1>2. InputInv'
  BY DEF TypeOK, InputInv, BusyInv, Offloading, Piece, CurrentBlock
<1>3. BusyInv'
  BY DEF BusyInv, StatusInv
<1>4. RunInv'
  BY DEF TypeOK, InputInv, BusyInv, RunInv, Offloading, CurrentBlock
<1>5. StatusInv'
  BY DEF TypeOK, StatusInv, Status
<1>6. OutputInv'
  BY DEF OutputInv, BusyInv, RunInv, StatusInv, CurrentBlock
<1>7. QED
  BY <1>1, <1>2, <1>3, <1>4, <1>5, <1>6

\* LoadPiece preserves the invariant.
LEMMA LoadPieceInv ==
    ASSUME IInv, NEW p \in Piece, LoadPiece(p) PROVE IInv'
<1> USE DEF IInv, LoadPiece, Running, cpu, Polling
<1>1. TypeOK'
  BY DEF TypeOK, Location, Status, Piece, Channel, Sequence, Block, CurrentBlock
<1>2. InputInv'
  BY DEF TypeOK, InputInv, BusyInv, Offloading, Piece, CurrentBlock
<1>3. BusyInv'
  BY DEF BusyInv, StatusInv
<1>4. RunInv'
  BY DEF TypeOK, InputInv, BusyInv, RunInv, Offloading, CurrentBlock
<1>5. StatusInv'
  BY DEF TypeOK, StatusInv, Status
<1>6. OutputInv'
  BY DEF OutputInv, BusyInv, RunInv, StatusInv, CurrentBlock
<1>7. QED
  BY <1>1, <1>2, <1>3, <1>4, <1>5, <1>6

\* StoreChannel preserves the invariant.
LEMMA StoreChannelInv ==
    ASSUME IInv, NEW c \in Channel, StoreChannel(c) PROVE IInv'
<1> USE DEF IInv, StoreChannel, Running, cpu, Polling
<1>0. Transform = {CurrentBlock} /\ CurrentBlock \in Block
  BY TransformLemma DEF RunInv, TypeOK, Block, CurrentBlock
<1>1. TypeOK'
  BY <1>0 DEF TypeOK, Location, Status, Piece, Channel, Sequence, Block, CurrentBlock
<1>2. InputInv'
  BY DEF TypeOK, InputInv, BusyInv, Offloading, Piece, CurrentBlock
<1>3. BusyInv'
  BY DEF BusyInv, StatusInv
<1>4. RunInv'
  BY <1>0 DEF TypeOK, InputInv, BusyInv, RunInv, Offloading, CurrentBlock
<1>5. StatusInv'
  BY DEF TypeOK, StatusInv, Status
<1>6. OutputInv'
  BY DEF OutputInv, BusyInv, RunInv, StatusInv, CurrentBlock
<1>7. QED
  BY <1>1, <1>2, <1>3, <1>4, <1>5, <1>6

\* Complete preserves the invariant.
LEMMA CompleteInv ==
    ASSUME IInv, Complete PROVE IInv'
<1> USE DEF IInv, Complete, Running, cpu, Polling
<1>1. TypeOK'
  BY DEF TypeOK, Location, Status, Piece, Channel, Sequence, Block, CurrentBlock
<1>2. InputInv'
  BY DEF TypeOK, InputInv, BusyInv, Offloading, Piece, CurrentBlock
<1>3. BusyInv'
  BY DEF BusyInv, StatusInv
<1>4. RunInv'
  BY DEF TypeOK, InputInv, BusyInv, RunInv, Offloading, CurrentBlock
<1>5. StatusInv'
  BY DEF TypeOK, StatusInv, Status
<1>6. OutputInv'
  BY DEF OutputInv, BusyInv, RunInv, StatusInv, CurrentBlock
<1>7. QED
  BY <1>1, <1>2, <1>3, <1>4, <1>5, <1>6

\* Settle preserves the invariant.
LEMMA SettleInv ==
    ASSUME IInv, Settle PROVE IInv'
<1> USE DEF IInv, Settle, cpu, Polling
<1>1. TypeOK'
  BY DEF TypeOK, Location, Status, Piece, Channel, Sequence, Block, CurrentBlock
<1>2. InputInv'
  BY DEF TypeOK, InputInv, BusyInv, Offloading, Piece, CurrentBlock
<1>3. BusyInv'
  BY DEF BusyInv, StatusInv
<1>4. RunInv'
  BY DEF TypeOK, InputInv, BusyInv, RunInv, Offloading, CurrentBlock
<1>5. StatusInv'
  BY DEF TypeOK, StatusInv, Status
<1>6. OutputInv'
  BY DEF OutputInv, BusyInv, RunInv, StatusInv, CurrentBlock
<1>7. QED
  BY <1>1, <1>2, <1>3, <1>4, <1>5, <1>6

\* Abort preserves the invariant.
LEMMA AbortInv ==
    ASSUME IInv, Abort PROVE IInv'
<1> USE DEF IInv, Abort, Running, cpu, Polling
<1>1. TypeOK'
  BY DEF TypeOK, Location, Status, Piece, Channel, Sequence, Block, CurrentBlock
<1>2. InputInv'
  BY DEF TypeOK, InputInv, BusyInv, Offloading, Piece, CurrentBlock
<1>3. BusyInv'
  BY DEF BusyInv, StatusInv
<1>4. RunInv'
  BY DEF TypeOK, InputInv, BusyInv, RunInv, Offloading, CurrentBlock
<1>5. StatusInv'
  BY DEF TypeOK, StatusInv, Status
<1>6. OutputInv'
  BY DEF OutputInv, BusyInv, RunInv, StatusInv, CurrentBlock
<1>7. QED
  BY <1>1, <1>2, <1>3, <1>4, <1>5, <1>6

\* Every step preserves it.
LEMMA StepInv == IInv /\ [Next]_vars => IInv'
<1> SUFFICES ASSUME IInv, [Next]_vars PROVE IInv'
  OBVIOUS
<1>1. CASE UNCHANGED vars
  BY <1>1 DEF vars, cpu, device, IInv, TypeOK, InputInv, BusyInv, RunInv,
     StatusInv, OutputInv, CurrentBlock
<1>2. CASE Cpu
  BY <1>2, BeginFrameInv, CapturePieceInv, DiscardBlockInv, AcceptBlockInv,
     ClearStatusInv, ProgramInv, StartInv, PollInv, TestDeadlineInv,
     CheckResultInv, BuildPacketInv, DropClientInv DEF Cpu, Frame
<1>3. CASE Expire \/ CaptureFailure
  BY <1>3, ExpireInv, CaptureFailureInv
<1>4. CASE Accelerator
  BY <1>4, LoadPieceInv, StoreChannelInv, CompleteInv, SettleInv, AbortInv
     DEF Accelerator
<1>5. QED
  BY <1>1, <1>2, <1>3, <1>4 DEF Next

\* Hence it always holds.
LEMMA Invariance == Spec => []IInv
BY InitInv, StepInv, PTL DEF Spec

\* Every variable has its type; received never exceeds the buffer.
THEOREM TypeCorrect == Spec => []TypeOK
<1>1. IInv => TypeOK
  BY DEF IInv
<1>2. QED
  BY <1>1, Invariance, PTL

\* The CPU never fills the input or reads the output of a run in progress,
\* however long the accelerator takes.
THEOREM NoSharing == Spec => []BuffersNotShared
<1>1. IInv => BuffersNotShared
  BY DEF IInv, BusyInv, BuffersNotShared, Running
<1>2. QED
  BY <1>1, Invariance, PTL

\* Every packet is computed from the block accepted for its sequence number.
THEOREM PacketsCorrect == Spec => PacketsFromAcceptedBlock
<1>1. ASSUME IInv, BuildPacket PROVE packet' = {CurrentBlock}
  BY <1>1 DEF IInv, TypeOK, OutputInv, BuildPacket
<1>2. IInv /\ [Next]_vars => [BuildPacket => packet' = {CurrentBlock}]_vars
  BY <1>1
<1>3. QED
  BY <1>2, Invariance, PTL DEF Spec, PacketsFromAcceptedBlock
==============================================================================
