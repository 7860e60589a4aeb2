--------------------------- MODULE ReliableStream ---------------------------
(***************************************************************************)
(* One direction of one reliable stream of a ReliableStreamConnection      *)
(* (common/net/reliable_stream_connection.cpp): the sending end queues     *)
(* messages as numbered packets, keeps them in sent_packets and resends    *)
(* them until they are acknowledged; the receiving end acknowledges, holds *)
(* packets that came early in packet_queue, reassembles fragments and      *)
(* hands messages to its application. Between them is UDP.                 *)
(*                                                                         *)
(* The hold buffer (m_buffered_packets, Combined datagrams) only delays    *)
(* and groups what UDP may delay and lose anyway: a packet given to        *)
(* InternalBufferedSend is in flight at once here. The resend timer is     *)
(* abstracted to "may have elapsed", so m_acked_since_last_resend, which   *)
(* only lets a resend come sooner, is not kept.                            *)
(***************************************************************************)
EXTENDS SequenceCompare, Sequences, FiniteSets

CONSTANTS
    MaxInFlight,    \* environment bound: packets queued beyond the oldest one not settled
    ResendWindow,   \* MAX_CLIENT_RECV_PACKETS_PER_WINDOW, 300 in the code
    MaxParts,       \* the longest message, in packets
    MaxPackets,     \* bound on the packets numbered in a behaviour
    Closers         \* the ends that may close or go stale

ASSUME StreamAssumption ==
    /\ MaxInFlight \in 1 .. HalfWindow
    /\ ResendWindow \in Nat \ {0}
    /\ MaxParts \in Nat \ {0}
    /\ MaxPackets \in Nat
    /\ Closers \subseteq {"sender", "receiver"}

VARIABLES
    \* sending end
    sequence_out,           \* number of the next reliable packet
    sent_packets,           \* packets not acknowledged yet, keyed by their seq
    \* receiving end
    sequence_in,            \* number of the packet expected next
    packet_queue,           \* packets that came early, keyed by their seq
    fragment_packet,        \* the chunks of the message being reassembled
    fragment_total_bytes,   \* its length, 0 when none is being reassembled
    \* both ends and the network
    status,                 \* m_status of each end, "Gone" once out of m_connections
    toReceiver, toSender,   \* datagrams in flight
    \* history
    wire,                   \* every packet numbered so far, in order
    submitted,              \* every message queued so far
    accepted,               \* how many packets sequence_in has counted, not wrapped
    delivered               \* every message handed to the receiving application

senderVars   == <<sequence_out, sent_packets, wire, submitted>>
receiverVars == <<sequence_in, packet_queue, fragment_packet,
                  fragment_total_bytes, accepted, delivered>>
vars == <<senderVars, receiverVars, status, toReceiver, toSender>>

Ends == {"sender", "receiver"}

(***************************************************************************)
(* Datagrams. n is the position of a packet in wire: no handler reads it,  *)
(* it tells which packet a wrapped seq stands for. A message is the        *)
(* sequence of its chunks; one longer than a packet goes as fragments, and *)
(* only the first of them carries the total size.                          *)
(***************************************************************************)
Chunk == (Nat \X Nat)

DataPackets ==
    [op : {"Packet", "Fragment"}, n : Nat, seq : SeqNumbers, total : Nat, data : Chunk]
Acks == [op : {"Ack", "OutOfOrderAck"}, n : Nat, seq : SeqNumbers]
Disconnects == [op : {"SessionDisconnect"}]
Disconnect == [op |-> "SessionDisconnect"]

Message(id, parts) == [i \in 1 .. parts |-> <<id, i>>]

\* uint16_t addition: sequence_out++ and sequence_in++.
SlipNoWrap(seq, count) == seq + count
Advance(seq, count) == (seq + count) % SeqMod

\* InternalQueuePacket's packets for a message of that many parts.
PacketsOf(id, parts) ==
    [i \in 1 .. parts |->
        [op    |-> IF parts > 1 THEN "Fragment" ELSE "Packet",
         n     |-> Len(wire) + i - 1,
         seq   |-> Advance(sequence_out, i - 1),
         total |-> IF parts > 1 /\ i = 1 THEN parts ELSE 0,
         data  |-> <<id, i>>]]

\* sent_packets.emplace and packet_queue.emplace keep the packet already there.
Emplace(packets, new) ==
    packets \cup {p \in new : \A q \in packets : q.seq # p.seq}

(***************************************************************************)
(* The two assumptions about the environment, which the code does not      *)
(* enforce. The application never runs more than MaxInFlight packets ahead *)
(* of the oldest one not settled (there is no flow control), and UDP does  *)
(* not bring back a datagram after HalfWindow later packets were numbered. *)
(***************************************************************************)
WithinFlight(total) ==
    /\ total - accepted <= MaxInFlight
    /\ \A p \in sent_packets : total - p.n <= MaxInFlight

NotTooOld(datagrams, total) ==
    {d \in datagrams : d.op = "SessionDisconnect" \/ d.n + HalfWindow >= total}

-----------------------------------------------------------------------------
Init ==
    /\ sequence_out = 0
    /\ sent_packets = {}
    /\ sequence_in = 0
    /\ packet_queue = {}
    /\ fragment_packet = <<>>
    /\ fragment_total_bytes = 0
    /\ status = [e \in Ends |-> "Connected"]
    /\ toReceiver = {}
    /\ toSender = {}
    /\ wire = <<>>
    /\ submitted = <<>>
    /\ accepted = 0
    /\ delivered = <<>>

\* QueuePacket: the status is not looked at, a closing connection still queues.
QueuePacket(parts) ==
    LET packets == PacketsOf(Len(submitted) + 1, parts)
        new     == {packets[i] : i \in 1 .. parts}
        count   == Len(wire) + parts
    IN  /\ status["sender"] # "Gone"
        /\ count <= MaxPackets
        /\ WithinFlight(count)
        /\ sent_packets' = Emplace(sent_packets, new)
        /\ sequence_out' = Advance(sequence_out, parts)
        /\ wire' = wire \o packets
        /\ submitted' = Append(submitted, Message(Len(submitted) + 1, parts))
        /\ toReceiver' = NotTooOld(toReceiver \cup new, count)
        /\ toSender' = NotTooOld(toSender, count)
        /\ UNCHANGED <<receiverVars, status>>

(***************************************************************************)
(* ProcessResend. sent_packets is a std::map keyed by the wrapped number:  *)
(* a round resends its first ResendWindow entries in that order, which     *)
(* after a wrap are not the oldest ones.                                   *)
(***************************************************************************)
ResendRound ==
    {p \in sent_packets :
        Cardinality({q \in sent_packets : q.seq < p.seq}) < ResendWindow}

ProcessResend ==
    /\ status["sender"] # "Gone"
    /\ sent_packets # {}
    /\ toReceiver' = toReceiver \cup ResendRound
    /\ UNCHANGED <<senderVars, receiverVars, status, toSender>>

\* Ack(seq): everything that is not ahead of seq has arrived.
SlipAckIgnoresWrap(seq) == {p \in sent_packets : p.seq > seq}
NotCoveredBy(seq) == {p \in sent_packets : CompareSequence(seq, p.seq) = "Future"}

ReceiveAck(ack) ==
    /\ status["sender"] # "Gone"
    /\ ack.op = "Ack"
    /\ sent_packets' = NotCoveredBy(ack.seq)
    /\ UNCHANGED <<sequence_out, wire, submitted, receiverVars, status, toReceiver, toSender>>

\* OutOfOrderAck(seq): exactly seq has arrived.
SlipKeepsAcked(seq) == sent_packets
Without(seq) == {p \in sent_packets : p.seq # seq}

ReceiveOutOfOrderAck(ack) ==
    /\ status["sender"] # "Gone"
    /\ ack.op = "OutOfOrderAck"
    /\ sent_packets' = Without(ack.seq)
    /\ UNCHANGED <<sequence_out, wire, submitted, receiverVars, status, toReceiver, toSender>>

-----------------------------------------------------------------------------
(***************************************************************************)
(* The OP_Packet and OP_Fragment arms of ProcessDecodedPacket, for a       *)
(* packet that came as a datagram or out of packet_queue. "queue" is       *)
(* packet_queue as the caller left it.                                     *)
(***************************************************************************)
Reply(op, n, seq) == toSender' = toSender \cup {[op |-> op, n |-> n, seq |-> seq]}

\* A closing end refuses packets, but not fragments.
Refused(p) == p.op = "Packet" /\ status["receiver"] = "Disconnecting"

Refuse(p, queue) ==
    /\ Refused(p)
    /\ packet_queue' = queue
    /\ toSender' = toSender \cup {Disconnect}
    /\ UNCHANGED <<sequence_in, fragment_packet, fragment_total_bytes, accepted, delivered>>

HoldFuture(p, queue) ==
    /\ ~Refused(p)
    /\ CompareSequence(sequence_in, p.seq) = "Future"
    /\ Reply("OutOfOrderAck", p.n, p.seq)
    /\ packet_queue' = Emplace(queue, {p})
    /\ UNCHANGED <<sequence_in, fragment_packet, fragment_total_bytes, accepted, delivered>>

SlipPastNotAcked(p, queue) ==
    /\ ~Refused(p)
    /\ CompareSequence(sequence_in, p.seq) = "Past"
    /\ packet_queue' = queue
    /\ UNCHANGED <<toSender, sequence_in, fragment_packet, fragment_total_bytes, accepted, delivered>>

AckPast(p, queue) ==
    /\ ~Refused(p)
    /\ CompareSequence(sequence_in, p.seq) = "Past"
    /\ Reply("Ack", accepted - 1, (sequence_in - 1) % SeqMod)
    /\ packet_queue' = queue
    /\ UNCHANGED <<sequence_in, fragment_packet, fragment_total_bytes, accepted, delivered>>

\* Whether the chunks collected so far are the whole message.
SlipSecondFragmentCompletes(body) == Len(body) >= 2
SlipWaitsForOneMore(body) == Len(body) > fragment_total_bytes
Complete(body) == Len(body) >= fragment_total_bytes

\* The payload of an accepted packet: a message, its first part or a next part.
Reassemble(p) ==
    \/ /\ p.op = "Packet"
       /\ delivered' = Append(delivered, <<p.data>>)
       /\ UNCHANGED <<fragment_packet, fragment_total_bytes>>
    \/ /\ p.op = "Fragment"
       /\ fragment_total_bytes = 0
       /\ fragment_total_bytes' = p.total
       /\ fragment_packet' = <<p.data>>
       /\ UNCHANGED delivered
    \/ /\ p.op = "Fragment"
       /\ fragment_total_bytes # 0
       /\ LET body == Append(fragment_packet, p.data)
          IN  IF Complete(body)
              THEN /\ delivered' = Append(delivered, body)
                   /\ fragment_packet' = <<>>
                   /\ fragment_total_bytes' = 0
              ELSE /\ fragment_packet' = body
                   /\ UNCHANGED <<delivered, fragment_total_bytes>>

SlipLeftInQueue(queue, seq) == queue
RemoveFromQueue(queue, seq) == {q \in queue : q.seq # seq}

AcceptCurrent(p, queue) ==
    /\ ~Refused(p)
    /\ CompareSequence(sequence_in, p.seq) = "Current"
    /\ packet_queue' = RemoveFromQueue(queue, p.seq)
    /\ Reply("Ack", accepted, sequence_in)
    /\ sequence_in' = Advance(sequence_in, 1)
    /\ accepted' = accepted + 1
    /\ Reassemble(p)

ProcessDecodedPacket(p, queue) ==
    /\ \/ Refuse(p, queue)
       \/ HoldFuture(p, queue)
       \/ AckPast(p, queue)
       \/ AcceptCurrent(p, queue)
    /\ UNCHANGED <<senderVars, status, toReceiver>>

ReceiveData(p) ==
    /\ status["receiver"] # "Gone"
    /\ p.op \in {"Packet", "Fragment"}
    /\ ProcessDecodedPacket(p, packet_queue)

(***************************************************************************)
(* One turn of ProcessQueue's loop: the application's callback runs in it  *)
(* and may queue or close before the next turn. The packet leaves the      *)
(* queue before it is handled.                                             *)
(***************************************************************************)
ProcessQueue(p) ==
    /\ status["receiver"] # "Gone"
    /\ p.seq = sequence_in
    /\ ProcessDecodedPacket(p, packet_queue \ {p})

-----------------------------------------------------------------------------
\* Datagrams to the other end.
SendDisconnect(from) ==
    IF from = "sender"
    THEN /\ toReceiver' = toReceiver \cup {Disconnect}
         /\ UNCHANGED toSender
    ELSE /\ toSender' = toSender \cup {Disconnect}
         /\ UNCHANGED toReceiver

\* Close(), called by the application or, at the sender, by the resend timeout.
Close(e) ==
    /\ e \in Closers
    /\ status[e] = "Connected"
    /\ status' = [status EXCEPT ![e] = "Disconnecting"]
    /\ SendDisconnect(e)
    /\ UNCHANGED <<senderVars, receiverVars>>

\* OP_SessionDisconnect: answered in kind by an end that was open or closing.
ReceiveDisconnect(e) ==
    /\ Disconnect \in (IF e = "sender" THEN toSender ELSE toReceiver)
    /\ status[e] # "Gone"
    /\ status' = [status EXCEPT ![e] = "Disconnecting"]
    /\ SendDisconnect(e)
    /\ UNCHANGED <<senderVars, receiverVars>>

\* Manager::Process drops a connection: closed long enough, or nothing heard.
CloseTimeElapsed(e) ==
    /\ status[e] = "Disconnecting"
    /\ status' = [status EXCEPT ![e] = "Gone"]
    /\ SendDisconnect(e)
    /\ UNCHANGED <<senderVars, receiverVars>>

Stale(e) ==
    /\ e \in Closers
    /\ status[e] = "Connected"
    /\ status' = [status EXCEPT ![e] = "Gone"]
    /\ UNCHANGED <<senderVars, receiverVars, toReceiver, toSender>>

\* UDP: a datagram stays in flight (it may come again) until it is lost.
Lose ==
    /\ \/ /\ \E d \in toReceiver : toReceiver' = toReceiver \ {d}
          /\ UNCHANGED toSender
       \/ /\ \E d \in toSender : toSender' = toSender \ {d}
          /\ UNCHANGED toReceiver
    /\ UNCHANGED <<senderVars, receiverVars, status>>

-----------------------------------------------------------------------------
Next ==
    \/ \E parts \in 1 .. MaxParts : QueuePacket(parts)
    \/ ProcessResend
    \/ \E ack \in toSender : ReceiveAck(ack)
    \/ \E ack \in toSender : ReceiveOutOfOrderAck(ack)
    \/ \E p \in toReceiver : ReceiveData(p)
    \/ \E p \in packet_queue : ProcessQueue(p)
    \/ \E e \in Ends : Close(e)
    \/ \E e \in Ends : ReceiveDisconnect(e)
    \/ \E e \in Ends : CloseTimeElapsed(e)
    \/ \E e \in Ends : Stale(e)
    \/ Lose

Spec == Init /\ [][Next]_vars
(***************************************************************************)
(* What scheduling and UDP guarantee. Manager::Process and ProcessResend   *)
(* run on every tick of the event loop's timer, and a resend delay never   *)
(* exceeds resend_delay_max, so a round comes again while packets wait. A  *)
(* datagram sent again and again is received in the end.                   *)
(***************************************************************************)
Fairness ==
    /\ WF_vars(ProcessResend)
    /\ WF_vars(\E p \in packet_queue : ProcessQueue(p))
    /\ SF_vars(\E p \in toReceiver : ReceiveData(p) /\ accepted' # accepted)
    /\ SF_vars(\E p \in toReceiver : ReceiveData(p) /\ packet_queue' # packet_queue)
    /\ SF_vars(\E p \in toReceiver : ReceiveData(p) /\ toSender' # toSender)
    /\ SF_vars(\E a \in toSender : ReceiveAck(a) /\ sent_packets' # sent_packets)
    /\ SF_vars(\E a \in toSender : ReceiveOutOfOrderAck(a) /\ sent_packets' # sent_packets)

FairSpec == Spec /\ Fairness

-----------------------------------------------------------------------------
(* Properties. *)

TypeOK ==
    /\ sequence_out \in SeqNumbers
    /\ sent_packets \subseteq DataPackets
    /\ sequence_in \in SeqNumbers
    /\ packet_queue \subseteq DataPackets
    /\ fragment_packet \in Seq(Chunk)
    /\ fragment_total_bytes \in Nat
    /\ status \in [Ends -> {"Connected", "Disconnecting", "Gone"}]
    /\ toReceiver \subseteq DataPackets \cup Disconnects
    /\ toSender \subseteq Acks \cup Disconnects
    /\ wire \in Seq(DataPackets)
    /\ submitted \in Seq(Seq(Chunk))
    /\ accepted \in Nat
    /\ delivered \in Seq(Seq(Chunk))

open == \A e \in Ends : status[e] = "Connected"

Fifo == INSTANCE FifoDelivery
          WITH submitted <- submitted, delivered <- delivered, open <- open

\* However datagrams are lost, repeated and reordered, and however often the
\* sequence numbers wrap, the receiving application is given the messages that
\* were queued, in order, each once, each reassembled from its own fragments,
\* closing or not (ProcessDecodedPacket, ProcessQueue, InternalQueuePacket).
DeliversInOrder == Fifo!FifoSpec

\* While both ends stay connected every queued message is delivered in the end:
\* resend rounds that start at the lowest wrapped number, and acknowledgements
\* that come out of order, leave no packet behind (ProcessResend, ProcessQueue).
DeliversEverything == Fifo!CatchesUp

\* An acknowledgement makes the sender forget a packet only when the receiver
\* has it: every packet not yet counted by sequence_in is still in sent_packets
\* or already in packet_queue, for as long as the receiver has not begun to
\* close (Ack and OutOfOrderAck against AddToQueue, across a wrap).
NothingForgotten ==
    status["receiver"] = "Connected" =>
        \A i \in 1 .. Len(wire) :
            i > accepted => wire[i] \in sent_packets \cup packet_queue

\* packet_queue never keeps a packet that sequence_in has passed: 65536 packets
\* later its number would come up again and the stale packet be taken for the
\* new one (RemoveFromQueue, AddToQueue).
NothingStaleQueued ==
    \A p \in packet_queue : p.n >= accepted /\ p.n < accepted + MaxInFlight

\* The sender does not resend for ever: while both ends stay connected it ends
\* up with nothing unacknowledged, also when the first acknowledgement of a
\* packet was lost (the SequencePast arm answers a packet that came again).
SenderSettles == []<>(sent_packets = {} \/ ~open)
=============================================================================
