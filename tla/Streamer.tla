------------------------------- MODULE Streamer -------------------------------
(***************************************************************************)
(* firmware/neptune_fft_streamer.c, lines 535-669 and 719-809: main and    *)
(* the path of a frame's two packets to the one client that is served.     *)
(*                                                                         *)
(* The metadata of a frame comes from capture_iio_frame, here by its       *)
(* abstract specification FrameSource (SpectrumConfig implements it); the  *)
(* bins come from run_fft (FftOffload), of which only that it may fail     *)
(* matters here.  The kernel's side of a TCP connection is external: a     *)
(* queue of connections not yet accepted, room in the send buffer that the *)
(* peer's reading frees, and the ways a peer can leave.                    *)
(*                                                                         *)
(* wire is a history variable: the bytes the latest successful send(2) put *)
(* on the current connection.                                              *)
(***************************************************************************)
EXTENDS Naturals, Sequences

CONSTANTS Client,            \* peers
          NoClient,          \* main is between two clients
          QueueLimit,        \* connections the kernel keeps for accept(2)
          Pieces,            \* a packet, in units a send(2) may split it at
          Buffer,            \* a socket's send buffer, in the same units
          SequenceModulus,   \* 2^32
          Config, Unset, EpochModulus, MaxStep     \* see FrameSource

ASSUME ClientAssumption == NoClient \notin Client
ASSUME SizeAssumption == {QueueLimit, Pieces, Buffer} \subseteq Nat \ {0}
ASSUME EpochAssumption == MaxStep \in Nat /\ EpochModulus \in Nat /\ MaxStep < EpochModulus
ASSUME SequenceAssumption == SequenceModulus \in Nat \ {0, 1}

Channel  == 0 .. 1                       \* FFT_CHANNELS
Sequence == 0 .. SequenceModulus - 1
Metadata == [config : Config \cup {Unset}, epoch : 0 .. EpochModulus - 1]

VARIABLES
    \* main
    pc,          \* where main is
    client,      \* the accepted connection
    sequence,    \* the frame counter, kept across connections
    delivered, frame,    \* FrameSource: the current frame's metadata
    channel,     \* the packet being sent
    sent,        \* the part of it that has been sent
    expired,     \* whether send_deadline has passed
    \* the kernel and the peers
    queue,       \* connections waiting to be accepted
    peer,        \* what each peer does
    unread,      \* the peers that sent bytes, which nobody ever reads
    room,        \* free space in the send buffer of the accepted connection
    wire         \* history

server == <<pc, client, sequence, delivered, frame, channel, sent, expired>>
net    == <<queue, peer, unread, room>>
vars   == <<server, net, wire>>

Source == INSTANCE FrameSource

Location  == {"accept", "frame", "check", "send", "wait", "pace", "failed"}
PeerState == {"away", "reading", "stalled", "halfClosed", "closed"}

\* Pieces first .. last of a packet, and whether send_deadline had passed when
\* they were sent; first = 0 stands for a silent connection.
Burst == [sequence : Sequence, channel : Channel, first : 0 .. Pieces,
          last : 0 .. Pieces, frame : Metadata, late : BOOLEAN]

Silence == [sequence |-> 0, channel |-> 0, first |-> 0, last |-> 0,
            frame |-> [config |-> Unset, epoch |-> 0], late |-> FALSE]

TypeOK ==
    /\ pc \in Location
    /\ client \in Client \cup {NoClient}
    /\ sequence \in Sequence
    /\ delivered \in BOOLEAN
    /\ frame \in Metadata
    /\ channel \in Channel
    /\ sent \in 0 .. Pieces
    /\ expired \in BOOLEAN
    /\ queue \in Seq(Client) /\ Len(queue) <= QueueLimit
    /\ peer \in [Client -> PeerState]
    /\ unread \in SUBSET Client
    /\ room \in 0 .. Buffer
    /\ wire \in Burst

Init ==
    /\ pc = "accept"
    /\ client = NoClient
    /\ sequence = 0
    /\ Source!Init
    /\ channel = 0 /\ sent = 0
    /\ expired = FALSE
    /\ queue = <<>>
    /\ peer = [c \in Client |-> "away"]
    /\ unread = {}
    /\ room = Buffer
    /\ wire = Silence
-------------------------------------------------------------------------------
(* main and the functions it sends with. *)

Connected == client # NoClient

\* Close the connection of c: its peer sees the end of the stream.
Disconnect(c) ==
    /\ client' = NoClient
    /\ peer' = [peer EXCEPT ![c] = "away"]
    /\ unread' = unread \ {c}
    /\ room' = Buffer
    /\ wire' = Silence

\* Lines 805-806: shutdown, close, and back to accept.
Drop ==
    /\ Disconnect(client)
    /\ pc' = "accept"
    /\ sent' = 0 /\ channel' = 0
    /\ UNCHANGED <<sequence, delivered, frame, expired, queue>>

\* accept(2) returns the connection at the head of the queue.
Accept ==
    /\ pc = "accept"
    /\ queue # <<>>
    /\ queue' = Tail(queue)
    /\ client' = Head(queue)
    /\ pc' = "frame"
    /\ UNCHANGED <<sequence, delivered, frame, channel, sent, expired, peer,
                   unread, room, wire>>

\* The same, but configure_client_socket fails: the connection is closed.
AcceptAndReject ==
    /\ pc = "accept"
    /\ queue # <<>>
    /\ queue' = Tail(queue)
    /\ Disconnect(Head(queue))
    /\ UNCHANGED <<pc, sequence, delivered, frame, channel, sent, expired>>

\* Fault: the frame counter outgrows its field.
ProduceFrameUnbounded ==
    /\ pc = "frame"
    /\ sequence' = sequence + 1
    /\ Source!Deliver
    /\ channel' = 0 /\ sent' = 0
    /\ expired' = FALSE
    /\ pc' = "check"
    /\ UNCHANGED <<client, net, wire>>

\* sequence++, capture_iio_frame and run_fft; then send_deadline starts, once
\* for both packets.
ProduceFrame ==
    /\ pc = "frame"
    /\ sequence' = (sequence + 1) % SequenceModulus
    /\ Source!Deliver
    /\ channel' = 0 /\ sent' = 0
    /\ expired' = FALSE
    /\ pc' = "check"
    /\ UNCHANGED <<client, net, wire>>

\* fail() in accept, capture_iio_frame or run_fft: the streamer exits, and with
\* it goes every connection.
Fatal ==
    /\ pc \in {"accept", "frame"}
    /\ pc' = "failed"
    /\ client' = NoClient
    /\ queue' = <<>>
    /\ peer' = [c \in Client |-> "away"]
    /\ unread' = {}
    /\ room' = Buffer
    /\ wire' = Silence
    /\ UNCHANGED <<sequence, delivered, frame, channel, sent, expired>>

\* Fault: the deadline is left to the waits.
CheckNothing ==
    /\ pc = "check"
    /\ pc' = "send"
    /\ UNCHANGED <<client, sequence, delivered, frame, channel, sent, expired,
                   net, wire>>

\* The head of send_all_socket's loop: no send begins after the deadline.
CheckDeadline ==
    /\ pc = "check"
    /\ ~expired
    /\ pc' = "send"
    /\ UNCHANGED <<client, sequence, delivered, frame, channel, sent, expired,
                   net, wire>>

SendTimesOut ==
    /\ pc = "check"
    /\ expired
    /\ Drop

\* send(2) takes some of what is left of the packet.  When it has taken all of
\* it main turns to the next packet or, after the last one, paces itself.
Send(count) ==
    /\ pc = "send"
    /\ count <= room /\ count <= Pieces - sent
    /\ room' = room - count
    /\ wire' = [sequence |-> sequence, channel |-> channel,
                first |-> sent + 1, last |-> sent + count, frame |-> frame,
                late |-> expired]
    /\ IF sent + count < Pieces
       THEN sent' = sent + count /\ channel' = channel /\ pc' = "check"
       ELSE /\ sent' = 0
            /\ IF channel + 1 \in Channel
               THEN channel' = channel + 1 /\ pc' = "check"
               ELSE channel' = 0 /\ pc' = "pace"
    /\ UNCHANGED <<client, sequence, delivered, frame, expired, queue, peer,
                   unread>>

\* send(2) is interrupted (EINTR), or finds the buffer full (EAGAIN).
SendInterrupted ==
    /\ pc = "send"
    /\ pc' = "check"
    /\ UNCHANGED <<client, sequence, delivered, frame, channel, sent, expired,
                   net, wire>>

SendWouldBlock ==
    /\ pc = "send"
    /\ room = 0
    /\ pc' = "wait"
    /\ UNCHANGED <<client, sequence, delivered, frame, channel, sent, expired,
                   net, wire>>

PeerGone == peer[client] = "closed"

\* send(2) or poll(2) reports a connection the peer has closed or reset.
SendFails ==
    /\ pc \in {"send", "wait"}
    /\ PeerGone
    /\ Drop

\* wait_socket_writable: poll(2) reports room, or the deadline passes first.
BecomesWritable ==
    /\ pc = "wait"
    /\ ~expired
    /\ room > 0
    /\ pc' = "check"
    /\ UNCHANGED <<client, sequence, delivered, frame, channel, sent, expired,
                   net, wire>>

\* Fault: a frame that cannot be sent in time is abandoned, its client is not.
WaitTimesOutAndSkips ==
    /\ pc = "wait"
    /\ expired
    /\ pc' = "frame"
    /\ UNCHANGED <<client, sequence, delivered, frame, channel, sent, expired,
                   net, wire>>

\* Fault: every wait gets two seconds of its own.
WaitRestartsDeadline ==
    /\ pc = "wait"
    /\ expired
    /\ expired' = FALSE
    /\ pc' = "check"
    /\ UNCHANGED <<client, sequence, delivered, frame, channel, sent, net, wire>>

\* poll(2) returns 0, or is not called any more: ETIMEDOUT.
WaitTimesOut ==
    /\ pc = "wait"
    /\ expired
    /\ Drop

\* socket_peer_closed: a peek sees the peer's FIN, unless bytes it sent earlier
\* are still in front of it, or the error a reset left behind.
PeerClosed ==
    \/ peer[client] \in {"halfClosed", "closed"} /\ client \notin unread
    \/ PeerGone

\* After the pacing sleep.
NextFrame ==
    /\ pc = "pace"
    /\ peer[client] \notin {"halfClosed", "closed"} \/ client \in unread
    /\ pc' = "frame"
    /\ UNCHANGED <<client, sequence, delivered, frame, channel, sent, expired,
                   net, wire>>

LeaveClient ==
    /\ pc = "pace"
    /\ PeerClosed
    /\ Drop

Server ==
    \/ Accept \/ AcceptAndReject \/ ProduceFrame
    \/ CheckDeadline \/ SendTimesOut
    \/ (\E count \in 1 .. Pieces : Send(count)) \/ SendWouldBlock \/ SendFails
    \/ BecomesWritable \/ WaitTimesOut \/ NextFrame \/ LeaveClient

\* CLOCK_MONOTONIC passes send_deadline.
Expire ==
    /\ pc \in {"check", "send", "wait"}
    /\ ~expired
    /\ expired' = TRUE
    /\ UNCHANGED <<pc, client, sequence, delivered, frame, channel, sent, net,
                   wire>>
-------------------------------------------------------------------------------
(* The kernel and the peers, external to this repository. *)

Open(c) == peer[c] # "away"

Connect(c) ==
    /\ pc # "failed"
    /\ ~Open(c)
    /\ Len(queue) < QueueLimit
    /\ queue' = Append(queue, c)
    /\ peer' = [peer EXCEPT ![c] = "reading"]
    /\ UNCHANGED <<server, unread, room, wire>>

\* A peer stops reading, resumes, shuts down its own direction or closes.
PeerMoves(c) ==
    /\ \E s \in PeerState :
          /\ <<peer[c], s>> \in {<<"reading", "stalled">>, <<"stalled", "reading">>,
                                 <<"reading", "halfClosed">>, <<"reading", "closed">>,
                                 <<"stalled", "closed">>, <<"halfClosed", "closed">>}
          /\ peer' = [peer EXCEPT ![c] = s]
    /\ UNCHANGED <<server, queue, unread, room, wire>>

\* A peer sends something although the protocol has nothing for it to say.
PeerWrites(c) ==
    /\ peer[c] \in {"reading", "stalled"}
    /\ c \notin unread
    /\ unread' = unread \cup {c}
    /\ UNCHANGED <<server, queue, peer, room, wire>>

PeerReads ==
    /\ Connected
    /\ peer[client] \in {"reading", "halfClosed"}
    /\ room < Buffer
    /\ room' = room + 1
    /\ UNCHANGED <<server, queue, peer, unread, wire>>

Environment ==
    \/ \E c \in Client : Connect(c) \/ PeerMoves(c) \/ PeerWrites(c)
    \/ PeerReads

Next == Server \/ SendInterrupted \/ Expire \/ Fatal \/ Environment

\* The streamer runs and time passes.  Peers, signals and failures are under no
\* obligation.
Spec == Init /\ [][Next]_vars /\ WF_vars(Server) /\ WF_vars(Expire)
-------------------------------------------------------------------------------
Successor(s) == (s + 1) % SequenceModulus

\* What may follow the bytes of burst b on one connection.
Continues(b, d) ==
    \/ /\ b.first = 0
       /\ d.channel = 0 /\ d.first = 1
    \/ /\ b.first > 0 /\ b.last < Pieces /\ ~b.late
       /\ d.first = b.last + 1
       /\ <<d.sequence, d.channel, d.frame>> = <<b.sequence, b.channel, b.frame>>
    \/ /\ b.last = Pieces /\ b.channel = 0 /\ ~b.late
       /\ d.channel = 1 /\ d.first = 1
       /\ <<d.sequence, d.frame>> = <<b.sequence, b.frame>>
    \/ /\ b.last = Pieces /\ b.channel = 1
       /\ d.channel = 0 /\ d.first = 1
       /\ d.sequence = Successor(b.sequence)
       /\ d.frame.epoch = b.frame.epoch => d.frame.config = b.frame.config

\* Whatever stalls, interruptions and partial sends there are, the bytes of a
\* connection are whole packets in order, channel 0 before channel 1 of the same
\* frame, frames with consecutive numbers, two of one epoch with one
\* configuration; and a packet cut short is the last thing a client gets.  One
\* send that had begun may be completed after send_deadline, and is the last of
\* its frame, however small the parts a slow peer lets through.
StreamIsWellFormed ==
    [][(wire' # wire /\ wire' # Silence) => Continues(wire, wire')]_vars

\* A client that has gone, or stays connected and stops reading, does not keep
\* the single place of a client for ever.
DeadClientsAreDropped ==
    []<>(Connected => peer[client] \in {"reading", "halfClosed"})
===============================================================================
