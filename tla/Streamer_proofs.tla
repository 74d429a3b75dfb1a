---------------------------- MODULE Streamer_proofs ----------------------------
(***************************************************************************)
(* Proof that the state of the streamer keeps its types, that each         *)
(* connection gets whole packets in order and that main does only so much  *)
(* for a client that does not read, for any number of peers, any packet    *)
(* and buffer sizes and any width of the frame counter.                    *)
(***************************************************************************)
EXTENDS Streamer, TLAPS

Sending == pc \in {"check", "send", "wait"}

\* The latest bytes on the connection are of the current frame.
OfThisFrame == wire.first > 0 /\ wire.sequence = sequence /\ wire.frame = frame

\* They end a frame's second packet.
EndsFrame == wire.first > 0 /\ wire.last = Pieces /\ wire.channel = 1

\* Nothing of the current frame is sent yet, and it follows the one before.
AtStart ==
    /\ sent = 0 /\ channel = 0
    /\ wire = Silence \/ /\ EndsFrame /\ sequence = Successor(wire.sequence)
                         /\ frame.epoch = wire.frame.epoch => frame.config = wire.frame.config

\* One packet of it, or a part of a packet.
BetweenPackets == sent = 0 /\ channel = 1 /\ OfThisFrame /\ wire.last = Pieces /\ wire.channel = 0

InsidePacket == sent > 0 /\ OfThisFrame /\ wire.last = sent /\ wire.channel = channel

\* Part of the current frame is on the connection.
Begun == sent > 0 \/ channel = 1

\* What main believes to have sent is what is on the connection, and after a
\* late part of a frame it does not get to another send.
WireInv ==
    /\ pc \in {"accept", "failed"} => wire = Silence
    /\ pc = "frame" => wire = Silence \/ (EndsFrame /\ OfThisFrame /\ delivered)
    /\ pc = "pace" => EndsFrame /\ OfThisFrame /\ delivered
    /\ Sending => delivered /\ sent < Pieces /\ (AtStart \/ BetweenPackets \/ InsidePacket)
    /\ Sending /\ Begun /\ wire.late => expired /\ pc # "send"

IInv == TypeOK /\ WireInv
-------------------------------------------------------------------------------
LEMMA SizesArePositive ==
  /\ Pieces \in Nat /\ Pieces >= 1 /\ Buffer \in Nat /\ Buffer >= 1
  /\ QueueLimit \in Nat /\ QueueLimit >= 1
BY SizeAssumption

LEMMA SuccessorIsSequence == ASSUME NEW s \in Sequence PROVE (s + 1) % SequenceModulus \in Sequence
BY SequenceAssumption DEF Sequence

LEMMA SilenceIsBurst == Silence \in Burst /\ Silence.first = 0
<1>1. 0 \in Sequence /\ 0 \in 0 .. EpochModulus - 1
  BY SequenceAssumption, EpochAssumption DEF Sequence
<1> QED
  BY <1>1, SizesArePositive DEF Silence, Burst, Channel, Metadata

\* A new frame has its place in the field, and another epoch unless it has the
\* configuration of the frame before.
LEMMA DeliverLemma ==
  ASSUME frame \in Metadata, Source!Deliver
  PROVE  /\ delivered' = TRUE /\ frame' \in Metadata
         /\ delivered /\ frame'.epoch = frame.epoch => frame'.config = frame.config
<1>1. PICK config \in Config, steps \in 0 .. MaxStep :
          /\ frame' = [config |-> config, epoch |-> Source!Advance(frame.epoch, steps)]
          /\ (delivered /\ steps = 0) => config = frame.config
  BY DEF Source!Deliver
<1>2. frame.epoch \in 0 .. EpochModulus - 1
  BY DEF Metadata
<1>3. Source!Advance(frame.epoch, steps) \in 0 .. EpochModulus - 1
  BY <1>2, EpochAssumption DEF Source!Advance
<1>4. Source!Advance(frame.epoch, steps) = frame.epoch => steps = 0
  BY <1>2, EpochAssumption DEF Source!Advance
<1> QED
  BY <1>1, <1>3, <1>4 DEF Source!Deliver, Metadata

LEMMA InitInv == Init => IInv
<1> SUFFICES ASSUME Init PROVE IInv
  OBVIOUS
<1>1. 0 \in Sequence /\ 0 \in 0 .. EpochModulus - 1
  BY SequenceAssumption, EpochAssumption DEF Sequence
<1>2. frame \in Metadata /\ delivered \in BOOLEAN
  BY <1>1 DEF Init, Source!Init, Metadata
<1>3. queue \in Seq(Client) /\ Len(queue) <= QueueLimit /\ room \in 0 .. Buffer /\ sent \in 0 .. Pieces
  BY SizesArePositive DEF Init
<1>4. TypeOK
  <2>1. sequence \in Sequence /\ channel \in Channel /\ wire \in Burst
    BY <1>1, SilenceIsBurst DEF Init, Channel
  <2>2. /\ pc \in Location /\ client \in Client \cup {NoClient} /\ expired \in BOOLEAN
        /\ peer \in [Client -> PeerState] /\ unread \in SUBSET Client
    BY DEF Init, Location, PeerState
  <2> QED
    BY <1>2, <1>3, <2>1, <2>2 DEF TypeOK
<1>5. WireInv
  BY DEF Init, WireInv, Sending
<1> QED
  BY <1>4, <1>5 DEF IInv

LEMMA DisconnectType ==
  ASSUME TypeOK, NEW c, Disconnect(c)
  PROVE  /\ client' \in Client \cup {NoClient} /\ peer' \in [Client -> PeerState]
         /\ unread' \in SUBSET Client /\ room' \in 0 .. Buffer
         /\ wire' \in Burst /\ wire' = Silence
<1>1. Buffer \in 0 .. Buffer
  BY SizesArePositive
<1> QED
  BY <1>1, SilenceIsBurst DEF TypeOK, Disconnect, PeerState

LEMMA DropInv ==
  ASSUME IInv, Drop
  PROVE  IInv'
<1>1. TypeOK'
  <2>1. 0 \in 0 .. Pieces /\ 0 \in Channel
    BY SizesArePositive DEF Channel
  <2> QED
    BY <2>1, DisconnectType DEF IInv, Drop, TypeOK, Location
<1>2. WireInv'
  BY DisconnectType DEF IInv, Drop, WireInv, Sending
<1> QED
  BY <1>1, <1>2 DEF IInv

\* The next connection, if it can be configured.
LEMMA AcceptInv ==
  ASSUME IInv, Accept \/ AcceptAndReject
  PROVE  IInv'
<1> USE DEF IInv
<1>1. /\ Tail(queue) \in Seq(Client) /\ Len(Tail(queue)) <= QueueLimit
      /\ Head(queue) \in Client
  <2>1. queue \in Seq(Client) /\ queue # <<>> /\ Len(queue) <= QueueLimit
    BY DEF Accept, AcceptAndReject, TypeOK
  <2> QED
    BY <2>1, SizesArePositive
<1>2. CASE Accept
  <2>1. TypeOK'
    BY <1>1, <1>2 DEF Accept, TypeOK, Location
  <2>2. WireInv'
    BY <1>2 DEF Accept, WireInv, Sending
  <2> QED
    BY <2>1, <2>2
<1>3. CASE AcceptAndReject
  <2>1. TypeOK'
    BY <1>1, <1>3, DisconnectType DEF AcceptAndReject, TypeOK
  <2>2. WireInv'
    BY <1>3, DisconnectType DEF AcceptAndReject, WireInv, Sending
  <2> QED
    BY <2>1, <2>2
<1> QED
  BY <1>2, <1>3

LEMMA ProduceFrameInv ==
  ASSUME IInv, ProduceFrame
  PROVE  IInv'
<1> USE DEF IInv, net
<1>1. /\ frame' \in Metadata /\ delivered' = TRUE
      /\ delivered /\ frame'.epoch = frame.epoch => frame'.config = frame.config
  BY DeliverLemma DEF TypeOK, ProduceFrame
<1>2. TypeOK'
  <2>1. sequence' \in Sequence /\ 0 \in Channel /\ 0 \in 0 .. Pieces
    BY SuccessorIsSequence, SizesArePositive DEF TypeOK, ProduceFrame, Channel
  <2> QED
    BY <1>1, <2>1 DEF ProduceFrame, TypeOK, Location
<1>3. AtStart'
  BY <1>1 DEF ProduceFrame, WireInv, AtStart, EndsFrame, OfThisFrame, Successor
<1>4. WireInv'
  BY <1>1, <1>3, SizesArePositive DEF ProduceFrame, WireInv, Sending, Begun
<1> QED
  BY <1>2, <1>4

LEMMA FatalInv ==
  ASSUME IInv, Fatal
  PROVE  IInv'
<1> USE DEF IInv
<1>1. <<>> \in Seq(Client) /\ Len(<<>>) <= QueueLimit /\ Buffer \in 0 .. Buffer
  BY SizesArePositive
<1>2. TypeOK'
  BY <1>1, SilenceIsBurst DEF Fatal, TypeOK, Location, PeerState
<1>3. WireInv'
  BY DEF Fatal, WireInv, Sending
<1> QED
  BY <1>2, <1>3

\* A send continues what is on the connection, and main notes how far it got.
LEMMA SendInv ==
  ASSUME IInv, NEW count \in 1 .. Pieces, Send(count)
  PROVE  IInv' /\ Continues(wire, wire')
<1> USE DEF IInv
<1>1. /\ sent \in Nat /\ sent < Pieces /\ sent + count \in 1 .. Pieces
      /\ sent + 1 \in 1 .. Pieces /\ room - count \in 0 .. Buffer
  BY SizesArePositive DEF Send, TypeOK, WireInv, Sending
<1>2. /\ wire'.sequence = sequence /\ wire'.channel = channel /\ wire'.first = sent + 1
      /\ wire'.last = sent + count /\ wire'.frame = frame /\ wire'.late = expired
  BY DEF Send
<1>3. wire' \in Burst
  BY <1>1 DEF Send, TypeOK, Burst
<1>4. channel \in {0, 1} /\ Channel = {0, 1}
  BY DEF TypeOK, Channel
<1>5. TypeOK'
  <2>1. CASE sent + count < Pieces
    BY <1>1, <1>3, <2>1 DEF Send, TypeOK, Location
  <2>2. CASE sent + count = Pieces
    <3>1. sent' = 0 /\ channel' \in Channel /\ pc' \in {"check", "pace"}
      BY <1>4, <2>2, SizesArePositive DEF Send
    <3> QED
      BY <1>1, <1>3, <3>1, SizesArePositive DEF Send, TypeOK, Location
  <2>3. sent + count < Pieces \/ sent + count = Pieces
    BY <1>1, SizesArePositive
  <2> QED
    BY <2>1, <2>2, <2>3
<1>6. WireInv'
  <2>1. delivered /\ UNCHANGED <<sequence, delivered, frame>> /\ OfThisFrame'
    BY <1>1, <1>2 DEF Send, WireInv, Sending, OfThisFrame
  <2>2. wire'.late => expired' /\ pc' # "send"
    BY <1>2 DEF Send
  <2>3. CASE sent + count < Pieces
    BY <1>1, <1>2, <2>1, <2>2, <2>3 DEF Send, WireInv, Sending, InsidePacket
  <2>4. CASE sent + count = Pieces /\ channel = 0
    BY <1>1, <1>2, <1>4, <2>1, <2>2, <2>4, SizesArePositive DEF Send, WireInv, Sending, BetweenPackets
  <2>5. CASE sent + count = Pieces /\ channel = 1
    BY <1>1, <1>2, <1>4, <2>1, <2>5 DEF Send, WireInv, Sending, EndsFrame
  <2>6. sent + count < Pieces \/ sent + count = Pieces
    BY <1>1, SizesArePositive
  <2> QED
    BY <1>4, <2>3, <2>4, <2>5, <2>6
<1>7. Continues(wire, wire')
  <2>1. CASE AtStart
    BY <1>2, <2>1, SilenceIsBurst DEF AtStart, EndsFrame, Continues
  <2>2. Begun => ~wire.late
    BY DEF Send, WireInv, Sending
  <2>3. CASE BetweenPackets
    BY <1>2, <2>2, <2>3 DEF BetweenPackets, OfThisFrame, Begun, Continues
  <2>4. CASE InsidePacket
    BY <1>1, <1>2, <2>2, <2>4 DEF InsidePacket, OfThisFrame, Begun, Continues
  <2> QED
    BY <2>1, <2>3, <2>4 DEF Send, WireInv, Sending
<1> QED
  BY <1>5, <1>6, <1>7

\* Steps of main that move neither the frame nor the bytes.
LEMMA WaitInv ==
  ASSUME IInv,
         \/ CheckDeadline \/ SendInterrupted \/ SendWouldBlock \/ BecomesWritable
         \/ NextFrame \/ Expire
  PROVE  IInv'
<1> USE DEF IInv, net, CheckDeadline, SendInterrupted, SendWouldBlock, BecomesWritable,
            NextFrame, Expire
<1>1. TypeOK'
  BY DEF TypeOK, Location
<1>2. WireInv'
  BY DEF WireInv, Sending, AtStart, BetweenPackets, InsidePacket, OfThisFrame, EndsFrame, Begun
<1> QED
  BY <1>1, <1>2

LEMMA EnvironmentInv ==
  ASSUME IInv, Environment
  PROVE  IInv'
<1> USE DEF IInv, server
<1>1. UNCHANGED <<server, wire>>
  BY DEF Environment, Connect, PeerMoves, PeerWrites, PeerReads
<1>2. WireInv'
  BY <1>1 DEF WireInv, Sending, AtStart, BetweenPackets, InsidePacket, OfThisFrame, EndsFrame, Begun
<1>3. ASSUME NEW c \in Client, Connect(c) PROVE TypeOK'
  <2>1. queue' \in Seq(Client) /\ Len(queue') <= QueueLimit
    <3>1. queue \in Seq(Client) /\ Len(queue) < QueueLimit /\ queue' = Append(queue, c)
      BY <1>3 DEF Connect, TypeOK
    <3> QED
      BY <3>1, SizesArePositive
  <2> QED
    BY <1>3, <2>1 DEF Connect, TypeOK, PeerState
<1>4. ASSUME NEW c \in Client, PeerMoves(c) PROVE TypeOK'
  BY <1>4 DEF PeerMoves, TypeOK, PeerState
<1>5. ASSUME NEW c \in Client, PeerWrites(c) PROVE TypeOK'
  BY <1>5 DEF PeerWrites, TypeOK
<1>6. ASSUME PeerReads PROVE TypeOK'
  <2>1. room + 1 \in 0 .. Buffer
    BY <1>6, SizesArePositive DEF PeerReads, TypeOK
  <2> QED
    BY <1>6, <2>1 DEF PeerReads, TypeOK
<1> QED
  BY <1>2, <1>3, <1>4, <1>5, <1>6 DEF Environment

LEMMA StepInv == IInv /\ [Next]_vars => IInv'
<1> SUFFICES ASSUME IInv, [Next]_vars PROVE IInv'
  OBVIOUS
<1>1. ASSUME Server PROVE IInv'
  BY <1>1, AcceptInv, ProduceFrameInv, SendInv, WaitInv, DropInv
  DEF Server, SendTimesOut, SendFails, WaitTimesOut, LeaveClient
<1>2. CASE UNCHANGED vars
  BY <1>2 DEF IInv, TypeOK, WireInv, Sending, AtStart, BetweenPackets, InsidePacket,
              OfThisFrame, EndsFrame, Begun, vars, server, net
<1> QED
  BY <1>1, <1>2, WaitInv, FatalInv, EnvironmentInv DEF Next

LEMMA Invariance == Spec => []IInv
BY InitInv, StepInv, PTL DEF Spec

\* Every variable keeps its type; the frame counter stays in its field.
THEOREM TypeCorrect == Spec => []TypeOK
<1>1. IInv => TypeOK
  BY DEF IInv
<1> QED
  BY <1>1, Invariance, PTL

\* What a connection gets is whole packets in order, of consecutive frames, and
\* a packet cut short is the last it gets, as is what is sent of a frame after its
\* deadline: whatever is sent at once, interrupted, stalled or dropped, and
\* whichever peers come and go.
THEOREM StreamCorrect == Spec => StreamIsWellFormed
<1>1. ASSUME IInv, Next, wire' # wire, wire' # Silence PROVE Continues(wire, wire')
  <2>1. CASE \E count \in 1 .. Pieces : Send(count)
    BY <1>1, <2>1, SendInv
  <2>2. CASE AcceptAndReject \/ Fatal \/ SendTimesOut \/ SendFails \/ WaitTimesOut \/ LeaveClient
    BY <1>1, <2>2
    DEF AcceptAndReject, Fatal, SendTimesOut, SendFails, WaitTimesOut, LeaveClient, Drop,
        Disconnect
  <2>3. CASE \/ Accept \/ ProduceFrame \/ CheckDeadline \/ SendWouldBlock \/ BecomesWritable
             \/ NextFrame \/ SendInterrupted \/ Expire \/ Environment
    BY <1>1, <2>3
    DEF Accept, ProduceFrame, CheckDeadline, SendWouldBlock, BecomesWritable, NextFrame,
        SendInterrupted, Expire, Environment, Connect, PeerMoves, PeerWrites, PeerReads
  <2> QED
    BY <1>1, <2>1, <2>2, <2>3 DEF Next, Server
<1>2. IInv /\ [Next]_vars =>
         [(wire' # wire /\ wire' # Silence) => Continues(wire, wire')]_vars
  BY <1>1
<1> QED
  BY <1>2, Invariance, PTL DEF Spec, StreamIsWellFormed
-------------------------------------------------------------------------------
(* The safety half of DeadClientsAreDropped. *)

\* The client that is served takes nothing from its connection: it has stopped
\* reading, for now or for ever, or it has closed.
Deserted == Connected /\ peer[client] \notin {"reading", "halfClosed"}

Stage ==
    CASE pc = "pace" -> 6
      [] pc = "frame" -> 5
      [] pc = "wait" /\ ~expired /\ room > 0 -> 4
      [] pc = "check" /\ ~expired -> 3
      [] pc = "send" -> 2
      [] OTHER -> 1

\* What main can still do for a client that takes nothing: fill its buffer, and
\* between two sends go from the pacing to the end of the wait.
Patience == 8 * room + Stage

\* Every step of main for such a client uses up some of it, an interrupted send
\* too once the deadline has passed; and nothing but an interruption before the
\* deadline restores any.
PatienceRunsOut ==
    [][Deserted /\ Deserted' =>
           /\ Server \/ (expired /\ SendInterrupted) => Patience' < Patience
           /\ Patience' > Patience => ~expired /\ SendInterrupted]_vars

Counted == Stage \in 1 .. 6 /\ room \in Nat

PatienceInNat == Patience \in Nat

LEMMA WeighingRoomAndStage ==
  ASSUME NEW r \in Nat, NEW s \in Nat, NEW i \in 1 .. 6, NEW j \in 1 .. 6
  PROVE  /\ 8 * r + i \in Nat
         /\ s = r /\ j <= i => 8 * s + j <= 8 * r + i
         /\ s = r /\ j < i => 8 * s + j < 8 * r + i
         /\ s < r => 8 * s + j < 8 * r + i
OBVIOUS

LEMMA PatienceIsCounted == TypeOK => Counted /\ PatienceInNat
<1> SUFFICES ASSUME TypeOK PROVE Counted /\ PatienceInNat
  OBVIOUS
<1>1. Stage \in 1 .. 6
  BY DEF Stage
<1>2. room \in Nat
  BY SizesArePositive DEF TypeOK
<1> QED
  BY <1>1, <1>2 DEF Counted, PatienceInNat, Patience

\* Between two clients there is none.
NobodyServed == pc \in {"accept", "failed"} => client = NoClient

LEMMA NobodyServedAlways == Spec => []NobodyServed
<1>1. Init => NobodyServed
  BY DEF Init, NobodyServed
<1>2. TypeOK /\ NobodyServed /\ [Next]_vars => NobodyServed'
  <2> SUFFICES ASSUME TypeOK, NobodyServed, [Next]_vars PROVE NobodyServed'
    OBVIOUS
  <2>1. CASE AcceptAndReject \/ Fatal \/ SendTimesOut \/ SendFails \/ WaitTimesOut \/ LeaveClient
    BY <2>1 DEF AcceptAndReject, Fatal, SendTimesOut, SendFails, WaitTimesOut, LeaveClient,
                Drop, Disconnect, NobodyServed
  <2>2. CASE \E count \in 1 .. Pieces : Send(count)
    BY <2>2 DEF Send, NobodyServed
  <2>3. CASE \/ Accept \/ ProduceFrame \/ CheckDeadline \/ SendWouldBlock \/ BecomesWritable
             \/ NextFrame \/ SendInterrupted \/ Expire
    BY <2>3 DEF Accept, ProduceFrame, CheckDeadline, SendWouldBlock, BecomesWritable,
                NextFrame, SendInterrupted, Expire, NobodyServed
  <2>4. CASE Environment \/ UNCHANGED vars
    BY <2>4 DEF Environment, Connect, PeerMoves, PeerWrites, PeerReads, server, vars,
                NobodyServed
  <2> QED
    BY <2>1, <2>2, <2>3, <2>4 DEF Next, Server
<1> QED
  BY <1>1, <1>2, TypeCorrect, PTL DEF Spec

LEMMA StagesGoDown ==
  ASSUME Counted, Counted',
         \/ ProduceFrame \/ CheckDeadline \/ SendWouldBlock \/ BecomesWritable \/ NextFrame
         \/ expired /\ SendInterrupted
  PROVE  Patience' < Patience
<1>1. room' = room /\ Stage' < Stage
  BY DEF ProduceFrame, CheckDeadline, SendWouldBlock, BecomesWritable, NextFrame,
         SendInterrupted, net, Stage, Counted
<1> QED
  BY <1>1, WeighingRoomAndStage DEF Patience, Counted

LEMMA SendingTakesRoom ==
  ASSUME Counted, Counted', NEW count \in 1 .. Pieces, Send(count)
  PROVE  Patience' < Patience
<1>1. room' < room
  BY SizesArePositive DEF Send, Counted
<1> QED
  BY <1>1, WeighingRoomAndStage DEF Patience, Counted

LEMMA ExpiryTakesPatience ==
  ASSUME Counted, Counted', Expire
  PROVE  Patience' <= Patience
<1>1. room' = room /\ Stage' <= Stage
  BY DEF Expire, net, Stage, Counted
<1> QED
  BY <1>1, WeighingRoomAndStage DEF Patience, Counted

\* A client that has gone or does not read is served only for so many steps of
\* main: however much it lets be sent, wherever it stops and however often a
\* send is interrupted, since the deadline of a frame is not renewed.
THEOREM PatienceCorrect == Spec => []PatienceInNat /\ PatienceRunsOut
<1>1. TypeOK => Counted /\ PatienceInNat
  BY PatienceIsCounted
<1>2. ASSUME TypeOK, Counted, Counted', NobodyServed, Deserted, Deserted', Next
      PROVE  /\ Server \/ (expired /\ SendInterrupted) => Patience' < Patience
             /\ Patience' > Patience => ~expired /\ SendInterrupted
  <2>1. Patience \in Nat /\ Patience' \in Nat
    BY <1>2, WeighingRoomAndStage DEF Patience, Counted
  <2>2. CASE Server \/ (expired /\ SendInterrupted)
    <3>1. Patience' < Patience
      <4>1. CASE \/ ProduceFrame \/ CheckDeadline \/ SendWouldBlock \/ BecomesWritable
                 \/ NextFrame \/ (expired /\ SendInterrupted)
        BY <1>2, <4>1, StagesGoDown
      <4>2. CASE \E count \in 1 .. Pieces : Send(count)
        BY <1>2, <4>2, SendingTakesRoom
      <4>3. ~(Accept \/ AcceptAndReject \/ SendTimesOut \/ SendFails \/ WaitTimesOut \/ LeaveClient)
        BY <1>2 DEF NobodyServed, Deserted, Connected, Accept, AcceptAndReject, SendTimesOut,
                    SendFails, WaitTimesOut, LeaveClient, Drop, Disconnect
      <4> QED
        BY <2>2, <4>1, <4>2, <4>3 DEF Server
    <3> QED
      BY <2>1, <3>1
  <2>3. CASE ~Server /\ ~(expired /\ SendInterrupted)
    <3>1. CASE Expire
      BY <1>2, <2>1, <2>3, <3>1, ExpiryTakesPatience
    <3>2. CASE Environment
      <4>1. UNCHANGED <<pc, expired, room>>
        BY <1>2, <3>2 DEF Environment, Connect, PeerMoves, PeerWrites, PeerReads, server, Deserted
      <4>2. Patience' = Patience
        BY <4>1 DEF Patience, Stage
      <4> QED
        BY <2>1, <2>3, <4>2
    <3>3. CASE SendInterrupted
      BY <2>3, <3>3
    <3>4. ~Fatal
      BY <1>2 DEF Deserted, Connected, Fatal
    <3> QED
      BY <1>2, <2>3, <3>1, <3>2, <3>3, <3>4 DEF Next
  <2> QED
    BY <2>2, <2>3
<1>3. TypeOK /\ Counted /\ Counted' /\ NobodyServed /\ [Next]_vars =>
         [Deserted /\ Deserted' =>
             /\ Server \/ (expired /\ SendInterrupted) => Patience' < Patience
             /\ Patience' > Patience => ~expired /\ SendInterrupted]_vars
  BY <1>2
<1> QED
  BY <1>1, <1>3, TypeCorrect, NobodyServedAlways, PTL DEF Spec, PatienceRunsOut
===============================================================================
