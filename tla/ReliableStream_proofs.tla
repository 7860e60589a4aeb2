------------------------ MODULE ReliableStream_proofs ------------------------
(***************************************************************************)
(* Safety of ReliableStream for every SeqMod, HalfWindow, MaxInFlight,     *)
(* ResendWindow, MaxParts, MaxPackets and Closers its assumptions allow.   *)
(***************************************************************************)
EXTENDS ReliableStream, SequenceCompare_proofs

(***************************************************************************)
(* The inductive invariant behind TypeOK, NothingForgotten and             *)
(* NothingStaleQueued: wrapped counters stand for the unwrapped ones, each *)
(* copy of a packet is the packet numbered in wire, everything in flight   *)
(* is recent enough for CompareSequence, and an acknowledgement in flight  *)
(* says what the receiver really has.                                      *)
(***************************************************************************)
IsData(d) == d.op \in {"Packet", "Fragment"}

CountersWrap ==
    /\ sequence_out = Wrap(Len(wire))
    /\ sequence_in = Wrap(accepted)
    /\ accepted <= Len(wire)
    /\ Len(wire) - accepted <= MaxInFlight

WireNumbered ==
    \A i \in 1 .. Len(wire) : wire[i].n = i - 1 /\ wire[i].seq = Wrap(i - 1)

OnWire(p) == p.n < Len(wire) /\ p = wire[p.n + 1]

SentOnWire == \A p \in sent_packets : OnWire(p) /\ Len(wire) - p.n <= MaxInFlight

QueueOnWire == \A p \in packet_queue : OnWire(p) /\ p.n >= accepted

DataInFlight ==
    \A d \in toReceiver : IsData(d) => OnWire(d) /\ d.n + HalfWindow >= Len(wire)

AcksTruthful ==
    \A a \in toSender : a.op \in {"Ack", "OutOfOrderAck"} =>
        /\ a.seq = Wrap(a.n)
        /\ a.n < Len(wire)
        /\ a.n + HalfWindow >= Len(wire)
        /\ a.op = "Ack" => a.n < accepted
        /\ a.op = "OutOfOrderAck" =>
              \/ a.n < accepted
              \/ wire[a.n + 1] \in packet_queue
              \/ status["receiver"] # "Connected"

StreamInv ==
    /\ TypeOK
    /\ CountersWrap
    /\ WireNumbered
    /\ SentOnWire
    /\ QueueOnWire
    /\ DataInFlight
    /\ AcksTruthful
    /\ NothingForgotten

-----------------------------------------------------------------------------
(* Lemmas about the packets. *)

USE SeqAssumption, StreamAssumption

\* A packet in wire knows its number.
LEMMA SeqOfPacket ==
    ASSUME TypeOK, WireNumbered, NEW p \in DataPackets, OnWire(p)
    PROVE  p.n \in Nat /\ p.n < Len(wire) /\ p.seq = Wrap(p.n)
  <1> DEFINE i == p.n + 1
  <1>1. p.n \in Nat /\ Len(wire) \in Nat
    BY DEF DataPackets, TypeOK
  <1>2. i \in 1 .. Len(wire) /\ p = wire[i] /\ p.n = i - 1
    BY <1>1 DEF OnWire
  <1> HIDE DEF i
  <1>3. p.seq = Wrap(i - 1)
    BY <1>2 DEF WireNumbered
  <1> QED
    BY <1>1, <1>2, <1>3 DEF OnWire

\* Two packets numbered in wire, at most HalfWindow apart, with the same seq
\* are one and the same packet (the keys of sent_packets and packet_queue).
LEMMA SameSeqSamePacket ==
    ASSUME TypeOK, WireNumbered,
           NEW p \in DataPackets, NEW q \in DataPackets, OnWire(p), OnWire(q),
           p.n - q.n <= HalfWindow, q.n - p.n <= HalfWindow, p.seq = q.seq
    PROVE  p = q
  <1>1. p.n \in Nat /\ q.n \in Nat /\ p.seq = Wrap(p.n) /\ q.seq = Wrap(q.n)
    BY SeqOfPacket
  <1>2. p.n = q.n
    BY <1>1, WrapInjective
  <1> QED
    BY <1>2 DEF OnWire

THEOREM InitInv == Init => StreamInv
  <1> SUFFICES ASSUME Init PROVE StreamInv
    OBVIOUS
  <1>1. 0 \in SeqNumbers /\ Wrap(0) = 0
    BY WrapDivision, SMT DEF SeqNumbers, Wrap
  <1>2. TypeOK
    BY <1>1 DEF Init, TypeOK
  <1>3. CountersWrap
    BY <1>1 DEF Init, CountersWrap
  <1> QED
    BY <1>2, <1>3 DEF Init, StreamInv, WireNumbered, SentOnWire, QueueOnWire,
       DataInFlight, AcksTruthful, NothingForgotten

-----------------------------------------------------------------------------
(* The receiving end. *)

\* The distance that CompareIsOrder needs, for a packet that is not too old.
LEMMA PacketIsNear ==
    ASSUME TypeOK, WireNumbered, CountersWrap,
           NEW p \in DataPackets, OnWire(p), p.n + HalfWindow >= Len(wire)
    PROVE  /\ CompareSequence(sequence_in, p.seq) = "Current" <=> p.n = accepted
           /\ CompareSequence(sequence_in, p.seq) = "Future" <=> p.n > accepted
           /\ CompareSequence(sequence_in, p.seq) = "Past" <=> p.n < accepted
           /\ p.n - accepted <= HalfWindow /\ accepted - p.n <= HalfWindow
  <1>1. p.n \in Nat /\ p.n < Len(wire) /\ p.seq = Wrap(p.n)
    BY SeqOfPacket
  <1>2. accepted \in Nat /\ Len(wire) \in Nat
    BY DEF TypeOK
  <1>3. p.n - accepted <= HalfWindow /\ accepted - p.n <= HalfWindow
    BY <1>1, <1>2 DEF CountersWrap
  <1> QED
    BY <1>1, <1>2, <1>3, CompareIsOrder DEF CountersWrap

\* What handling one packet does to packet_queue and to the count of accepted
\* packets, whichever arm of the handler takes it.
LEMMA HandledPacket ==
    ASSUME StreamInv,
           NEW p \in DataPackets, OnWire(p), p.n + HalfWindow >= Len(wire),
           NEW queue, queue \subseteq packet_queue, packet_queue \subseteq queue \cup {p},
           ProcessDecodedPacket(p, queue)
    PROVE  /\ packet_queue' \subseteq packet_queue \cup {p}
           /\ accepted' \in {accepted, accepted + 1} /\ accepted \in Nat
           /\ accepted' = accepted + 1 => p.n = accepted
           /\ \A q \in packet_queue' : q.n >= accepted'
           /\ status["receiver"] = "Connected" =>
                 \A q \in packet_queue \cup {p} : q \in packet_queue' \/ q.n < accepted'
  <1> USE DEF StreamInv
  <1>1. accepted \in Nat /\ Len(wire) \in Nat /\ p.n \in Nat
    BY SeqOfPacket DEF TypeOK
  <1>2. \A q \in packet_queue : q \in DataPackets /\ OnWire(q) /\ q.n >= accepted /\ q.n \in Nat
    BY DEF TypeOK, QueueOnWire, DataPackets
  <1>3. ASSUME NEW q \in packet_queue, q.seq = p.seq
        PROVE  q = p
    <2>1. q.n \in Nat /\ q.n < Len(wire) /\ q.n >= accepted
      BY <1>2 DEF OnWire
    <2>2. p.n < Len(wire) /\ Len(wire) - accepted <= HalfWindow
      BY SeqOfPacket, <1>1 DEF CountersWrap
    <2>3. q.n - p.n <= HalfWindow /\ p.n - q.n <= HalfWindow
      BY <2>1, <2>2, <1>1
    <2> QED
      BY <2>3, <1>2, <1>3, SameSeqSamePacket
  <1>4. CASE Refuse(p, queue)
    BY <1>1, <1>2, <1>4 DEF Refuse, Refused
  <1>5. CASE HoldFuture(p, queue)
    <2>1. p.n > accepted /\ accepted' = accepted
      BY <1>5, PacketIsNear DEF HoldFuture
    <2>2. packet_queue' = packet_queue \cup {p}
      BY <1>3, <1>5 DEF HoldFuture, Emplace
    <2> QED
      BY <1>1, <1>2, <2>1, <2>2
  <1>6. CASE AckPast(p, queue)
    <2>1. p.n < accepted /\ accepted' = accepted
      BY <1>6, PacketIsNear DEF AckPast
    <2>2. p \notin packet_queue
      BY <1>1, <1>2, <2>1
    <2>3. packet_queue' = packet_queue
      BY <1>6, <2>2 DEF AckPast
    <2> QED
      BY <1>1, <1>2, <2>1, <2>3
  <1>7. CASE AcceptCurrent(p, queue)
    <2>1. p.n = accepted /\ accepted' = accepted + 1
      BY <1>7, PacketIsNear DEF AcceptCurrent
    <2>2. packet_queue' = packet_queue \ {p}
      BY <1>3, <1>7 DEF AcceptCurrent, RemoveFromQueue
    <2>3. ASSUME NEW q \in packet_queue' PROVE q.n >= accepted + 1
      <3>1. q \in packet_queue /\ q # p
        BY <2>2
      <3>2. q.n # accepted
        BY <3>1, <2>1, <1>2 DEF OnWire
      <3> QED
        BY <3>1, <3>2, <1>1, <1>2
    <2> QED
      BY <1>1, <1>2, <2>1, <2>2, <2>3
  <1> QED
    BY <1>4, <1>5, <1>6, <1>7 DEF ProcessDecodedPacket

\* TypeOK after a packet was handled.
LEMMA HandledType ==
    ASSUME StreamInv,
           NEW p \in DataPackets, OnWire(p), p.n + HalfWindow >= Len(wire),
           NEW queue, queue \subseteq packet_queue, packet_queue \subseteq queue \cup {p},
           ProcessDecodedPacket(p, queue)
    PROVE  TypeOK'
  <1> USE DEF StreamInv
  <1>0. TypeOK
    OBVIOUS
  <1>1. /\ p.data \in Chunk /\ p.total \in Nat /\ p.n \in Nat /\ p.seq \in SeqNumbers
        /\ accepted \in Nat /\ sequence_in \in SeqNumbers
    BY DEF DataPackets, TypeOK
  <1>2. packet_queue' \subseteq DataPackets
    BY HandledPacket DEF TypeOK
  <1>3. /\ sequence_out' \in SeqNumbers /\ sent_packets' \subseteq DataPackets
        /\ wire' \in Seq(DataPackets) /\ submitted' \in Seq(Seq(Chunk))
        /\ status' \in [Ends -> {"Connected", "Disconnecting", "Gone"}]
        /\ toReceiver' \subseteq DataPackets \cup Disconnects
    BY DEF ProcessDecodedPacket, senderVars, TypeOK
  <1>4. CASE Refuse(p, queue)
    <2>1. Disconnect \in Disconnects
      BY DEF Disconnect, Disconnects
    <2>2. toSender' \subseteq Acks \cup Disconnects
      BY <1>4, <2>1 DEF Refuse, TypeOK
    <2> QED
      BY <1>2, <1>3, <1>4, <2>2 DEF Refuse, TypeOK
  <1>5. CASE HoldFuture(p, queue)
    <2>1. toSender' \subseteq Acks \cup Disconnects
      BY <1>1, <1>5 DEF HoldFuture, Reply, TypeOK, Acks
    <2> QED
      BY <1>2, <1>3, <1>5, <2>1 DEF HoldFuture, TypeOK
  <1>6. CASE AckPast(p, queue)
    <2>1. p.n < accepted
      BY <1>6, PacketIsNear DEF AckPast
    <2>2. accepted - 1 \in Nat
      BY <1>1, <2>1
    <2>3. (sequence_in - 1) % SeqMod \in SeqNumbers
      BY <1>1, SMT DEF SeqNumbers
    <2> QED
      BY <1>1, <1>2, <1>3, <1>6, <2>2, <2>3 DEF AckPast, Reply, TypeOK, Acks
  <1>7. CASE AcceptCurrent(p, queue)
    <2>1. sequence_in' \in SeqNumbers
      BY <1>1, <1>7, SMT DEF AcceptCurrent, Advance, SeqNumbers
    <2>2. toSender' \subseteq Acks \cup Disconnects
      BY <1>1, <1>7 DEF AcceptCurrent, Reply, TypeOK, Acks
    <2>3. accepted' \in Nat
      BY <1>1, <1>7 DEF AcceptCurrent
    <2>4. Reassemble(p)
      BY <1>7 DEF AcceptCurrent
    <2>5. /\ fragment_packet' \in Seq(Chunk)
          /\ fragment_total_bytes' \in Nat
          /\ delivered' \in Seq(Seq(Chunk))
      <3>1. /\ fragment_packet \in Seq(Chunk) /\ fragment_total_bytes \in Nat
            /\ delivered \in Seq(Seq(Chunk))
        BY DEF TypeOK
      <3>2. /\ Append(fragment_packet, p.data) \in Seq(Chunk)
            /\ <<p.data>> \in Seq(Chunk)
        BY <1>1, <3>1
      <3>3. \A body \in Seq(Chunk) : Append(delivered, body) \in Seq(Seq(Chunk))
        BY <3>1
      <3>4. CASE p.op = "Packet"
        BY <2>4, <3>1, <3>2, <3>3, <3>4 DEF Reassemble
      <3>5. CASE p.op = "Fragment" /\ fragment_total_bytes = 0
        BY <1>1, <2>4, <3>1, <3>2, <3>5 DEF Reassemble
      <3>6. CASE p.op = "Fragment" /\ fragment_total_bytes # 0
        <4> DEFINE body == Append(fragment_packet, p.data)
        <4>1. body \in Seq(Chunk) /\ <<>> \in Seq(Chunk)
          BY <3>2
        <4>2. CASE Complete(body)
          <5>1. /\ delivered' = Append(delivered, body)
                /\ fragment_packet' = <<>> /\ fragment_total_bytes' = 0
            BY <2>4, <3>6, <4>2 DEF Reassemble
          <5> QED
            BY <3>3, <4>1, <5>1
        <4>3. CASE ~Complete(body)
          <5>1. fragment_packet' = body /\ UNCHANGED <<delivered, fragment_total_bytes>>
            BY <2>4, <3>6, <4>3 DEF Reassemble
          <5> QED
            BY <3>1, <4>1, <5>1
        <4> QED
          BY <4>2, <4>3
      <3> QED
        BY <2>4, <3>4, <3>5, <3>6 DEF Reassemble
    <2> QED
      BY <1>2, <1>3, <2>1, <2>2, <2>3, <2>5 DEF TypeOK
  <1> QED
    BY <1>4, <1>5, <1>6, <1>7 DEF ProcessDecodedPacket

\* The receiver's handling of a packet, from a datagram or from packet_queue,
\* preserves the invariant.
LEMMA HandledInv ==
    ASSUME StreamInv,
           NEW p \in DataPackets, OnWire(p), p.n + HalfWindow >= Len(wire),
           NEW queue, queue \subseteq packet_queue, packet_queue \subseteq queue \cup {p},
           ProcessDecodedPacket(p, queue)
    PROVE  StreamInv'
  <1> USE DEF StreamInv
  <1>0. TypeOK'
    BY HandledType
  <1>1. /\ UNCHANGED <<sequence_out, sent_packets, wire, submitted, status, toReceiver>>
        /\ accepted \in Nat /\ Len(wire) \in Nat
        /\ p.n \in Nat /\ p.n < Len(wire) /\ p.seq = Wrap(p.n)
    BY SeqOfPacket DEF ProcessDecodedPacket, senderVars, TypeOK
  <1>9. /\ packet_queue' \subseteq packet_queue \cup {p}
        /\ accepted' \in Nat /\ accepted' >= accepted
        /\ \A q \in packet_queue' : q.n >= accepted'
        /\ status["receiver"] = "Connected" =>
              \A q \in packet_queue \cup {p} : q \in packet_queue' \/ q.n < accepted'
    BY <1>1, HandledPacket
  <1>2. CountersWrap'
    <2>1. CASE UNCHANGED <<accepted, sequence_in>>
      BY <1>1, <2>1 DEF CountersWrap
    <2>2. CASE AcceptCurrent(p, queue)
      <3>1. p.n = accepted
        BY <2>2, PacketIsNear DEF AcceptCurrent
      <3>2. sequence_in' = Wrap(accepted + 1) /\ accepted' = accepted + 1
        BY <1>1, <2>2, WrapSum DEF AcceptCurrent, Advance, CountersWrap
      <3> QED
        BY <1>1, <3>1, <3>2 DEF CountersWrap
    <2> QED
      BY <2>1, <2>2 DEF ProcessDecodedPacket, Refuse, HoldFuture, AckPast
  <1>3. WireNumbered' /\ SentOnWire' /\ DataInFlight'
    BY <1>1 DEF WireNumbered, SentOnWire, DataInFlight, OnWire
  <1>4. QueueOnWire'
    BY <1>1, <1>9 DEF QueueOnWire, OnWire
  <1>5. NothingForgotten'
    <2> SUFFICES ASSUME status["receiver"] = "Connected",
                        NEW i \in 1 .. Len(wire), i > accepted'
                 PROVE  wire[i] \in sent_packets \cup packet_queue'
      BY <1>1 DEF NothingForgotten
    <2>1. i > accepted /\ wire[i].n = i - 1 /\ i \in Nat
      BY <1>1, <1>9 DEF WireNumbered
    <2>2. wire[i] \in sent_packets \cup packet_queue
      BY <2>1 DEF NothingForgotten
    <2>3. ~(wire[i].n < accepted')
      BY <1>9, <2>1
    <2> QED
      BY <1>9, <2>2, <2>3
  <1>6. AcksTruthful'
    <2> SUFFICES ASSUME NEW a \in toSender', a.op \in {"Ack", "OutOfOrderAck"}
                 PROVE  /\ a.seq = Wrap(a.n)
                        /\ a.n < Len(wire)
                        /\ a.n + HalfWindow >= Len(wire)
                        /\ a.op = "Ack" => a.n < accepted'
                        /\ a.op = "OutOfOrderAck" =>
                              \/ a.n < accepted'
                              \/ wire[a.n + 1] \in packet_queue'
                              \/ status["receiver"] # "Connected"
      BY <1>1 DEF AcksTruthful
    <2>1. CASE a \in toSender
      <3>1. a.n \in Nat /\ accepted' >= accepted /\ accepted' \in Nat
        BY <1>9, <2>1 DEF TypeOK, Acks, Disconnects
      <3>2. wire[a.n + 1] \in packet_queue => \/ wire[a.n + 1] \in packet_queue'
                                            \/ a.n < accepted'
                                            \/ status["receiver"] # "Connected"
        <4>0. a.n + 1 \in 1 .. Len(wire)
          BY <1>1, <2>1, <3>1 DEF AcksTruthful
        <4>1. wire[a.n + 1].n = a.n
          BY <3>1, <4>0 DEF WireNumbered
        <4> QED
          BY <1>9, <4>1
      <3> QED
        BY <1>1, <2>1, <3>1, <3>2 DEF AcksTruthful
    <2>2. CASE Refuse(p, queue)
      BY <2>1, <2>2 DEF Refuse, Disconnect
    <2>3. CASE HoldFuture(p, queue) /\ a \notin toSender
      <3>1. a.n = p.n /\ a.seq = p.seq /\ a.op = "OutOfOrderAck"
        BY <2>3 DEF HoldFuture, Reply
      <3>2. p.n > accepted /\ accepted' = accepted
        BY <2>3, PacketIsNear DEF HoldFuture
      <3>3. wire[a.n + 1] = p
        BY <3>1 DEF OnWire
      <3>4. p \in packet_queue' \/ status["receiver"] # "Connected"
        BY <1>1, <1>9, <3>2
      <3> QED
        BY <1>1, <3>1, <3>3, <3>4
    <2>4. CASE AckPast(p, queue) /\ a \notin toSender
      <3>1. a.n = accepted - 1 /\ a.seq = (sequence_in - 1) % SeqMod /\ a.op = "Ack"
        BY <2>4 DEF AckPast, Reply
      <3>2. p.n < accepted /\ accepted' = accepted
        BY <2>4, PacketIsNear DEF AckPast
      <3>3. a.n \in Nat /\ accepted <= Len(wire)
        BY <1>1, <3>1, <3>2 DEF CountersWrap
      <3>4. a.seq = Wrap(a.n)
        BY <1>1, <3>1, <3>3, WrapPredecessor DEF CountersWrap
      <3> QED
        BY <1>1, <3>1, <3>2, <3>3, <3>4
    <2>5. CASE AcceptCurrent(p, queue) /\ a \notin toSender
      <3>1. a.n = accepted /\ a.seq = sequence_in /\ a.op = "Ack" /\ accepted' = accepted + 1
        BY <2>5 DEF AcceptCurrent, Reply
      <3>2. p.n = accepted
        BY <2>5, PacketIsNear DEF AcceptCurrent
      <3> QED
        BY <1>1, <3>1, <3>2 DEF CountersWrap
    <2> QED
      BY <2>1, <2>2, <2>3, <2>4, <2>5 DEF ProcessDecodedPacket
  <1> QED
    BY <1>0, <1>2, <1>3, <1>4, <1>5, <1>6

\* ReceiveData hands over a packet from the network, ProcessQueue one that waited.
LEMMA ReceiveDataInv ==
    ASSUME StreamInv, NEW p \in toReceiver, ReceiveData(p)
    PROVE  StreamInv'
  <1>1. p \in DataPackets
    BY DEF StreamInv, TypeOK, ReceiveData, Disconnects
  <1>2. OnWire(p) /\ p.n + HalfWindow >= Len(wire)
    BY DEF StreamInv, DataInFlight, IsData, ReceiveData
  <1> QED
    BY <1>1, <1>2, HandledInv DEF ReceiveData

LEMMA ProcessQueueInv ==
    ASSUME StreamInv, NEW p \in packet_queue, ProcessQueue(p)
    PROVE  StreamInv'
  <1>1. p \in DataPackets /\ OnWire(p) /\ p.n >= accepted
    BY DEF StreamInv, TypeOK, QueueOnWire
  <1>2. p.n \in Nat /\ accepted \in Nat /\ Len(wire) \in Nat
    BY <1>1 DEF StreamInv, TypeOK, DataPackets
  <1>3. p.n + HalfWindow >= Len(wire)
    BY <1>1, <1>2 DEF StreamInv, CountersWrap
  <1>4. packet_queue \ {p} \subseteq packet_queue /\ packet_queue \subseteq (packet_queue \ {p}) \cup {p}
    OBVIOUS
  <1> HIDE DEF StreamInv
  <1> QED
    BY <1>1, <1>3, <1>4, HandledInv DEF ProcessQueue

-----------------------------------------------------------------------------
(* The sending end. *)

\* An Ack makes the sender forget only packets the receiver has counted.
LEMMA ReceiveAckInv ==
    ASSUME StreamInv, NEW ack \in toSender, ReceiveAck(ack)
    PROVE  StreamInv'
  <1> USE DEF StreamInv
  <1>1. /\ ack \in Acks /\ ack.n \in Nat /\ ack.seq = Wrap(ack.n)
        /\ ack.n < accepted /\ ack.n + HalfWindow >= Len(wire) /\ ack.n < Len(wire)
    BY DEF ReceiveAck, AcksTruthful, TypeOK, Acks, Disconnects
  <1>2. /\ UNCHANGED <<sequence_out, wire, submitted, receiverVars, status, toReceiver, toSender>>
        /\ sent_packets' \subseteq sent_packets
    BY DEF ReceiveAck, NotCoveredBy
  <1>3. ASSUME NEW p \in sent_packets, p \notin sent_packets'
        PROVE  p.n < accepted
    <2>1. p \in DataPackets /\ OnWire(p) /\ Len(wire) - p.n <= MaxInFlight
      BY DEF TypeOK, SentOnWire
    <2>2. p.n \in Nat /\ p.n < Len(wire) /\ p.seq = Wrap(p.n)
      BY <2>1, SeqOfPacket
    <2>3. Len(wire) \in Nat /\ accepted \in Nat
      BY DEF TypeOK
    <2>4. p.n - ack.n <= HalfWindow /\ ack.n - p.n <= HalfWindow
      BY <1>1, <2>1, <2>2, <2>3
    <2>5. CompareSequence(ack.seq, p.seq) # "Future"
      BY <1>3 DEF ReceiveAck, NotCoveredBy
    <2>6. ~(p.n > ack.n)
      BY <1>1, <2>2, <2>4, <2>5, CompareIsOrder
    <2> QED
      BY <1>1, <2>2, <2>3, <2>6
  <1>4. NothingForgotten'
    <2> SUFFICES ASSUME status["receiver"] = "Connected", NEW i \in 1 .. Len(wire), i > accepted
                 PROVE  wire[i] \in sent_packets' \cup packet_queue
      BY <1>2 DEF NothingForgotten, receiverVars
    <2>1. wire[i].n = i - 1 /\ accepted \in Nat
      BY DEF WireNumbered, TypeOK
    <2>2. wire[i] \in sent_packets \cup packet_queue
      BY DEF NothingForgotten
    <2> QED
      BY <1>3, <2>1, <2>2
  <1>5. TypeOK'
    BY <1>2 DEF TypeOK, receiverVars
  <1>6. (CountersWrap /\ WireNumbered /\ QueueOnWire /\ DataInFlight /\ AcksTruthful)'
    BY <1>2 DEF CountersWrap, WireNumbered, QueueOnWire, DataInFlight, AcksTruthful,
       OnWire, receiverVars
  <1>7. SentOnWire'
    BY <1>2 DEF SentOnWire, OnWire
  <1> QED
    BY <1>4, <1>5, <1>6, <1>7

\* An OutOfOrderAck makes it forget one packet, which the receiver has or had.
LEMMA ReceiveOutOfOrderAckInv ==
    ASSUME StreamInv, NEW ack \in toSender, ReceiveOutOfOrderAck(ack)
    PROVE  StreamInv'
  <1> USE DEF StreamInv
  <1>1. /\ ack \in Acks /\ ack.n \in Nat /\ ack.seq = Wrap(ack.n)
        /\ ack.n + HalfWindow >= Len(wire) /\ ack.n < Len(wire)
        /\ \/ ack.n < accepted
           \/ wire[ack.n + 1] \in packet_queue
           \/ status["receiver"] # "Connected"
    BY DEF ReceiveOutOfOrderAck, AcksTruthful, TypeOK, Acks, Disconnects
  <1>2. /\ UNCHANGED <<sequence_out, wire, submitted, receiverVars, status, toReceiver, toSender>>
        /\ sent_packets' \subseteq sent_packets
    BY DEF ReceiveOutOfOrderAck, Without
  <1>3. ASSUME NEW p \in sent_packets, p \notin sent_packets'
        PROVE  p.n = ack.n
    <2>1. p \in DataPackets /\ OnWire(p) /\ Len(wire) - p.n <= MaxInFlight
      BY DEF TypeOK, SentOnWire
    <2>2. p.n \in Nat /\ p.n < Len(wire) /\ p.seq = Wrap(p.n)
      BY <2>1, SeqOfPacket
    <2>3. Len(wire) \in Nat
      BY DEF TypeOK
    <2>4. p.n - ack.n <= HalfWindow /\ ack.n - p.n <= HalfWindow
      BY <1>1, <2>1, <2>2, <2>3
    <2>5. p.seq = ack.seq
      BY <1>3 DEF ReceiveOutOfOrderAck, Without
    <2> QED
      BY <1>1, <2>2, <2>4, <2>5, WrapInjective
  <1>4. NothingForgotten'
    <2> SUFFICES ASSUME status["receiver"] = "Connected", NEW i \in 1 .. Len(wire), i > accepted
                 PROVE  wire[i] \in sent_packets' \cup packet_queue
      BY <1>2 DEF NothingForgotten, receiverVars
    <2>1. wire[i].n = i - 1 /\ accepted \in Nat
      BY DEF WireNumbered, TypeOK
    <2>2. wire[i] \in sent_packets \cup packet_queue
      BY DEF NothingForgotten
    <2>3. CASE wire[i] \in sent_packets'
      BY <2>3
    <2>4. CASE wire[i] \in sent_packets /\ wire[i] \notin sent_packets'
      <3>1. i - 1 = ack.n
        BY <1>3, <2>1, <2>4
      <3>2. i = ack.n + 1 /\ ~(ack.n < accepted)
        BY <1>1, <2>1, <3>1
      <3> QED
        BY <1>1, <3>2
    <2> QED
      BY <2>2, <2>3, <2>4
  <1>5. TypeOK'
    BY <1>2 DEF TypeOK, receiverVars
  <1>6. (CountersWrap /\ WireNumbered /\ QueueOnWire /\ DataInFlight /\ AcksTruthful)'
    BY <1>2 DEF CountersWrap, WireNumbered, QueueOnWire, DataInFlight, AcksTruthful,
       OnWire, receiverVars
  <1>7. SentOnWire'
    BY <1>2 DEF SentOnWire, OnWire
  <1> QED
    BY <1>4, <1>5, <1>6, <1>7

\* What InternalQueuePacket numbers: parts packets that follow those in wire.
LEMMA NewPackets ==
    ASSUME TypeOK, CountersWrap, NEW parts \in Nat \ {0}, NEW id \in Nat
    PROVE  /\ PacketsOf(id, parts) \in Seq(DataPackets)
           /\ Len(PacketsOf(id, parts)) = parts
           /\ \A i \in 1 .. parts : /\ PacketsOf(id, parts)[i].n = Len(wire) + i - 1
                                   /\ PacketsOf(id, parts)[i].seq = Wrap(Len(wire) + i - 1)
  <1>1. Len(wire) \in Nat
    BY DEF TypeOK
  <1>2. ASSUME NEW i \in 1 .. parts
        PROVE  /\ PacketsOf(id, parts)[i] \in DataPackets
               /\ PacketsOf(id, parts)[i].n = Len(wire) + i - 1
               /\ PacketsOf(id, parts)[i].seq = Wrap(Len(wire) + i - 1)
    <2>1. i - 1 \in Nat /\ Len(wire) + i - 1 = Len(wire) + (i - 1) /\ Len(wire) + i - 1 \in Nat
      BY <1>1
    <2>2. Advance(sequence_out, i - 1) = Wrap(Len(wire) + i - 1)
      BY <1>1, <2>1, WrapSum DEF Advance, CountersWrap
    <2>3. Wrap(Len(wire) + i - 1) \in SeqNumbers
      BY <2>1, WrapDivision
    <2> QED
      BY <2>1, <2>2, <2>3 DEF PacketsOf, DataPackets, Chunk
  <1>3. PacketsOf(id, parts) = [i \in 1 .. parts |-> PacketsOf(id, parts)[i]]
    BY DEF PacketsOf
  <1>4. PacketsOf(id, parts) \in [1 .. parts -> DataPackets]
    BY <1>2, <1>3
  <1> QED
    BY <1>2, <1>4

LEMMA QueuePacketInv ==
    ASSUME StreamInv, NEW parts \in 1 .. MaxParts, QueuePacket(parts)
    PROVE  StreamInv'
  <1> DEFINE id      == Len(submitted) + 1
             packets == PacketsOf(id, parts)
             new     == {packets[i] : i \in 1 .. parts}
             count   == Len(wire) + parts
  <1>3. /\ /\ sent_packets' = Emplace(sent_packets, new)
           /\ sequence_out' = Advance(sequence_out, parts)
           /\ wire' = wire \o packets
           /\ submitted' = Append(submitted, Message(id, parts))
        /\ toReceiver' = NotTooOld(toReceiver \cup new, count)
        /\ toSender' = NotTooOld(toSender, count)
        /\ count - accepted <= MaxInFlight
        /\ \A p \in sent_packets : count - p.n <= MaxInFlight
        /\ UNCHANGED <<status, sequence_in, packet_queue, fragment_packet,
                       fragment_total_bytes, accepted, delivered>>
    <2>1. WithinFlight(count)
      BY Zenon DEF QueuePacket
    <2>2. /\ sent_packets' = Emplace(sent_packets, new)
          /\ sequence_out' = Advance(sequence_out, parts)
          /\ wire' = wire \o packets
          /\ submitted' = Append(submitted, Message(id, parts))
      BY Zenon DEF QueuePacket
    <2>3. /\ toReceiver' = NotTooOld(toReceiver \cup new, count)
          /\ toSender' = NotTooOld(toSender, count)
      BY Zenon DEF QueuePacket
    <2>4. UNCHANGED <<receiverVars, status>>
      BY Zenon DEF QueuePacket
    <2>5. /\ count - accepted <= MaxInFlight
          /\ \A p \in sent_packets : count - p.n <= MaxInFlight
      BY <2>1 DEF WithinFlight
    <2> QED
      BY <2>2, <2>3, <2>4, <2>5 DEF receiverVars
  <1> USE DEF StreamInv
  <1>1. /\ Len(wire) \in Nat /\ accepted \in Nat /\ parts \in Nat \ {0} /\ id \in Nat
        /\ wire \in Seq(DataPackets)
    BY DEF TypeOK
  <1>2. /\ packets \in Seq(DataPackets) /\ Len(packets) = parts
        /\ \A i \in 1 .. parts : packets[i].n = Len(wire) + i - 1
                               /\ packets[i].seq = Wrap(Len(wire) + i - 1)
    BY <1>1, NewPackets
  <1> HIDE DEF packets, id
  <1>4. /\ wire' \in Seq(DataPackets) /\ Len(wire') = count /\ count \in Nat
        /\ \A i \in 1 .. Len(wire) : wire'[i] = wire[i]
        /\ \A i \in 1 .. parts : wire'[Len(wire) + i] = packets[i]
    <2>1. wire' \in Seq(DataPackets) /\ Len(wire') = count /\ count \in Nat
      BY <1>1, <1>2, <1>3
    <2>2. ASSUME NEW i \in 1 .. Len(wire) PROVE (wire \o packets)[i] = wire[i]
      BY <1>1, <1>2
    <2>3. ASSUME NEW i \in 1 .. parts PROVE (wire \o packets)[Len(wire) + i] = packets[i]
      <3>1. Len(wire) + i \in 1 .. Len(wire) + Len(packets) /\ ~(Len(wire) + i <= Len(wire))
        BY <1>1, <1>2
      <3>2. (Len(wire) + i) - Len(wire) = i
        BY <1>1
      <3> QED
        BY <1>1, <1>2, <3>1, <3>2
    <2> QED
      BY <1>3, <2>1, <2>2, <2>3
  <1>5. ASSUME NEW p, p \in DataPackets, OnWire(p)
        PROVE  OnWire(p)'
    <2>1. p.n \in Nat /\ p.n < Len(wire)
      BY <1>5, SeqOfPacket
    <2>2. p.n + 1 \in 1 .. Len(wire) /\ p.n < count
      BY <1>1, <2>1
    <2> QED
      BY <1>4, <1>5, <2>2 DEF OnWire
  <1>6. ASSUME NEW p \in new
        PROVE  /\ p \in DataPackets /\ OnWire(p)' /\ p.n \in Nat
               /\ p.n >= Len(wire) /\ p.n < count /\ p.seq = Wrap(p.n)
    <2>1. PICK i \in 1 .. parts : p = packets[i]
      OBVIOUS
    <2>2. p.n = Len(wire) + i - 1 /\ p.seq = Wrap(Len(wire) + i - 1) /\ p = wire'[Len(wire) + i]
      BY <1>2, <1>4, <2>1
    <2>3. p \in DataPackets
      BY <1>2, <2>1
    <2>4. p.n + 1 = Len(wire) + i /\ p.n \in Nat /\ p.n >= Len(wire) /\ p.n < count
      BY <1>1, <2>2
    <2> QED
      BY <1>4, <2>2, <2>3, <2>4 DEF OnWire
  <1>7. sent_packets' \subseteq sent_packets \cup new /\ sent_packets \subseteq sent_packets'
    BY <1>3 DEF Emplace
  <1> HIDE DEF new
  \* No packet still unacknowledged has the number of a new one.
  <1>8. new \subseteq sent_packets'
    <2> SUFFICES ASSUME NEW p \in new, NEW q \in sent_packets, q.seq = p.seq PROVE FALSE
      BY <1>3 DEF Emplace
    <2>1. q \in DataPackets /\ OnWire(q) /\ count - q.n <= MaxInFlight
      BY <1>3 DEF TypeOK, SentOnWire
    <2>2. q.n \in Nat /\ q.n < Len(wire) /\ q.seq = Wrap(q.n)
      BY <2>1, SeqOfPacket
    <2>3. p.n - q.n <= HalfWindow /\ q.n - p.n <= HalfWindow
      BY <1>1, <1>4, <1>6, <2>1, <2>2
    <2>4. p.n = q.n
      BY <1>6, <2>2, <2>3, WrapInjective
    <2> QED
      BY <1>1, <1>6, <2>2, <2>4
  <1>9. TypeOK'
    <2>1. sent_packets' \subseteq DataPackets
      BY <1>6, <1>7 DEF TypeOK
    <2>2. toReceiver' \subseteq DataPackets \cup Disconnects /\ toSender' \subseteq Acks \cup Disconnects
      BY <1>3, <1>6 DEF NotTooOld, TypeOK
    <2>3. sequence_out' \in SeqNumbers
      <3>1. sequence_out' = Wrap(count)
        BY <1>1, <1>3, WrapSum DEF Advance, CountersWrap
      <3> QED
        BY <1>4, <3>1, WrapDivision
    <2>4. submitted' \in Seq(Seq(Chunk))
      <3>1. Message(id, parts) \in [1 .. parts -> Chunk]
        BY <1>1 DEF Message, Chunk
      <3>2. Message(id, parts) \in Seq(Chunk)
        BY <1>1, <3>1
      <3> QED
        BY <1>3, <3>2 DEF TypeOK
    <2> QED
      BY <1>3, <1>4, <2>1, <2>2, <2>3, <2>4 DEF TypeOK
  <1>10. CountersWrap'
    <2>1. sequence_out' = Wrap(count)
      BY <1>1, <1>3, WrapSum DEF Advance, CountersWrap
    <2> QED
      BY <1>1, <1>3, <1>4, <2>1 DEF CountersWrap
  <1>11. WireNumbered'
    <2> SUFFICES ASSUME NEW i \in 1 .. count
                 PROVE  wire'[i].n = i - 1 /\ wire'[i].seq = Wrap(i - 1)
      BY <1>4 DEF WireNumbered
    <2>1. CASE i <= Len(wire)
      BY <1>1, <1>4, <2>1 DEF WireNumbered
    <2>2. CASE i > Len(wire)
      <3>1. i - Len(wire) \in 1 .. parts /\ Len(wire) + (i - Len(wire)) = i
        BY <1>1, <2>2
      <3>2. wire'[i] = packets[i - Len(wire)]
        BY <1>4, <3>1
      <3>3. Len(wire) + (i - Len(wire)) - 1 = i - 1
        BY <1>1, <3>1
      <3> QED
        BY <1>2, <3>1, <3>2, <3>3
    <2> QED
      BY <1>1, <2>1, <2>2
  <1>12. SentOnWire'
    <2> SUFFICES ASSUME NEW p \in sent_packets \cup new
                 PROVE  OnWire(p)' /\ count - p.n <= MaxInFlight
      BY <1>4, <1>7 DEF SentOnWire
    <2>1. CASE p \in sent_packets
      BY <1>3, <1>5, <2>1 DEF SentOnWire, TypeOK
    <2>2. CASE p \in new
      <3>1. count - p.n <= count - accepted
        BY <1>1, <1>4, <1>6, <2>2 DEF CountersWrap
      <3> QED
        BY <1>1, <1>3, <1>4, <1>6, <2>2, <3>1
    <2> QED
      BY <2>1, <2>2
  <1>13. QueueOnWire'
    BY <1>3, <1>5 DEF QueueOnWire, TypeOK
  <1>14. DataInFlight'
    <2> SUFFICES ASSUME NEW d \in toReceiver', IsData(d)
                 PROVE  OnWire(d)' /\ d.n + HalfWindow >= count
      BY <1>4 DEF DataInFlight
    <2>1. d \in toReceiver \cup new /\ d.n + HalfWindow >= count
      BY <1>3 DEF NotTooOld, IsData
    <2>2. CASE d \in toReceiver
      <3>1. d \in DataPackets /\ OnWire(d)
        BY <2>2 DEF DataInFlight, TypeOK, IsData, Disconnects
      <3> QED
        BY <1>5, <2>1, <3>1
    <2>3. CASE d \in new
      BY <1>6, <2>1, <2>3
    <2> QED
      BY <2>1, <2>2, <2>3
  <1>15. AcksTruthful'
    <2> SUFFICES ASSUME NEW a \in toSender', a.op \in {"Ack", "OutOfOrderAck"}
                 PROVE  /\ a.seq = Wrap(a.n)
                        /\ a.n < count
                        /\ a.n + HalfWindow >= count
                        /\ a.op = "Ack" => a.n < accepted
                        /\ a.op = "OutOfOrderAck" =>
                              \/ a.n < accepted
                              \/ wire'[a.n + 1] \in packet_queue
                              \/ status["receiver"] # "Connected"
      BY <1>3, <1>4 DEF AcksTruthful
    <2>1. a \in toSender /\ a.n + HalfWindow >= count
      BY <1>3 DEF NotTooOld
    <2>2. a.n \in Nat /\ a.n < Len(wire)
      BY <2>1 DEF AcksTruthful, TypeOK, Acks, Disconnects
    <2>3. wire'[a.n + 1] = wire[a.n + 1] /\ a.n < count
      BY <1>1, <1>4, <2>2
    <2> QED
      BY <2>1, <2>3 DEF AcksTruthful
  <1>16. NothingForgotten'
    <2> SUFFICES ASSUME status["receiver"] = "Connected", NEW i \in 1 .. count, i > accepted
                 PROVE  wire'[i] \in sent_packets' \cup packet_queue
      BY <1>3, <1>4 DEF NothingForgotten
    <2>1. CASE i <= Len(wire)
      BY <1>1, <1>4, <1>7, <2>1 DEF NothingForgotten
    <2>2. CASE i > Len(wire)
      <3>1. i - Len(wire) \in 1 .. parts /\ Len(wire) + (i - Len(wire)) = i
        BY <1>1, <2>2
      <3>2. wire'[i] = packets[i - Len(wire)]
        BY <1>4, <3>1
      <3>3. wire'[i] \in new
        BY <3>1, <3>2 DEF new
      <3> QED
        BY <1>8, <3>3
    <2> QED
      BY <1>1, <2>1, <2>2
  <1> QED
    BY <1>9, <1>10, <1>11, <1>12, <1>13, <1>14, <1>15, <1>16

\* A resend puts copies in flight of packets that are still recent.
LEMMA ProcessResendInv ==
    ASSUME StreamInv, ProcessResend
    PROVE  StreamInv'
  <1> USE DEF StreamInv
  <1>1. /\ UNCHANGED <<senderVars, receiverVars, status, toSender>>
        /\ toReceiver' \subseteq toReceiver \cup sent_packets
    BY DEF ProcessResend, ResendRound
  <1>2. TypeOK'
    BY <1>1 DEF TypeOK, senderVars, receiverVars
  <1>3. DataInFlight'
    <2> SUFFICES ASSUME NEW d \in toReceiver \cup sent_packets, IsData(d)
                 PROVE  OnWire(d) /\ d.n + HalfWindow >= Len(wire)
      BY <1>1 DEF DataInFlight, OnWire, senderVars
    <2>1. CASE d \in toReceiver
      BY <2>1 DEF DataInFlight
    <2>2. CASE d \in sent_packets
      <3>1. OnWire(d) /\ Len(wire) - d.n <= MaxInFlight /\ d.n \in Nat /\ Len(wire) \in Nat
        BY <2>2 DEF SentOnWire, TypeOK, DataPackets
      <3> QED
        BY <3>1
    <2> QED
      BY <2>1, <2>2
  <1>4. (CountersWrap /\ WireNumbered /\ SentOnWire /\ QueueOnWire /\ AcksTruthful /\ NothingForgotten)'
    BY <1>1 DEF CountersWrap, WireNumbered, SentOnWire, QueueOnWire, AcksTruthful,
       NothingForgotten, OnWire, senderVars, receiverVars
  <1> QED
    BY <1>2, <1>3, <1>4

\* Closing, going stale and losing datagrams leave the stream's state alone,
\* and no end is ever Connected again.
LEMMA SessionStepInv ==
    ASSUME StreamInv,
           UNCHANGED <<senderVars, receiverVars>>,
           status' \in [Ends -> {"Connected", "Disconnecting", "Gone"}],
           status'["receiver"] = "Connected" => status["receiver"] = "Connected",
           toReceiver' \subseteq toReceiver \cup {Disconnect},
           toSender' \subseteq toSender \cup {Disconnect}
    PROVE  StreamInv'
  <1> USE DEF StreamInv
  <1>1. Disconnect \in Disconnects /\ Disconnect.op = "SessionDisconnect"
    BY DEF Disconnect, Disconnects
  <1>2. TypeOK'
    BY <1>1 DEF TypeOK, senderVars, receiverVars
  <1>3. DataInFlight'
    BY <1>1 DEF DataInFlight, IsData, OnWire, senderVars
  <1>4. AcksTruthful'
    BY <1>1 DEF AcksTruthful, senderVars, receiverVars
  <1>5. (CountersWrap /\ WireNumbered /\ SentOnWire /\ QueueOnWire /\ NothingForgotten)'
    BY DEF CountersWrap, WireNumbered, SentOnWire, QueueOnWire,
       NothingForgotten, OnWire, senderVars, receiverVars
  <1> QED
    BY <1>2, <1>3, <1>4, <1>5

-----------------------------------------------------------------------------
\* Every step of the stream preserves the invariant.
THEOREM NextInv == StreamInv /\ [Next]_vars => StreamInv'
  <1> SUFFICES ASSUME StreamInv, [Next]_vars PROVE StreamInv'
    OBVIOUS
  <1>0. status \in [Ends -> {"Connected", "Disconnecting", "Gone"}]
    BY DEF StreamInv, TypeOK
  <1>1. ASSUME NEW parts \in 1 .. MaxParts, QueuePacket(parts) PROVE StreamInv'
    BY <1>1, QueuePacketInv
  <1>2. CASE ProcessResend
    BY <1>2, ProcessResendInv
  <1>3. ASSUME NEW ack \in toSender, ReceiveAck(ack) PROVE StreamInv'
    BY <1>3, ReceiveAckInv
  <1>4. ASSUME NEW ack \in toSender, ReceiveOutOfOrderAck(ack) PROVE StreamInv'
    BY <1>4, ReceiveOutOfOrderAckInv
  <1>5. ASSUME NEW p \in toReceiver, ReceiveData(p) PROVE StreamInv'
    BY <1>5, ReceiveDataInv
  <1>6. ASSUME NEW p \in packet_queue, ProcessQueue(p) PROVE StreamInv'
    BY <1>6, ProcessQueueInv
  <1>7. ASSUME NEW e \in Ends, Close(e) PROVE StreamInv'
    BY <1>0, <1>7, SessionStepInv DEF Close, SendDisconnect, Ends
  <1>8. ASSUME NEW e \in Ends, ReceiveDisconnect(e) PROVE StreamInv'
    BY <1>0, <1>8, SessionStepInv DEF ReceiveDisconnect, SendDisconnect, Ends
  <1>9. ASSUME NEW e \in Ends, CloseTimeElapsed(e) PROVE StreamInv'
    BY <1>0, <1>9, SessionStepInv DEF CloseTimeElapsed, SendDisconnect, Ends
  <1>10. ASSUME NEW e \in Ends, Stale(e) PROVE StreamInv'
    BY <1>0, <1>10, SessionStepInv DEF Stale, Ends
  <1>11. CASE Lose
    BY <1>0, <1>11, SessionStepInv DEF Lose
  <1>12. CASE UNCHANGED vars
    BY <1>0, <1>12, SessionStepInv DEF vars
  <1> QED
    BY <1>1, <1>2, <1>3, <1>4, <1>5, <1>6, <1>7, <1>8, <1>9, <1>10, <1>11, <1>12 DEF Next

THEOREM StreamInvariant == Spec => []StreamInv
  BY InitInv, NextInv, PTL DEF Spec

\* The variables keep their types.
THEOREM TypeCorrect == Spec => []TypeOK
  <1>1. StreamInv => TypeOK
    BY DEF StreamInv
  <1> QED
    BY <1>1, StreamInvariant, PTL

\* However many packets are numbered, no acknowledgement ever makes the sender
\* forget a packet that an open receiver does not have (Ack, OutOfOrderAck).
THEOREM NeverForgets == Spec => []NothingForgotten
  <1>1. StreamInv => NothingForgotten
    BY DEF StreamInv
  <1> QED
    BY <1>1, StreamInvariant, PTL

\* packet_queue holds only packets at or ahead of sequence_in, and fewer than
\* MaxInFlight ahead (AddToQueue, RemoveFromQueue).
THEOREM QueueStaysFresh == Spec => []NothingStaleQueued
  <1>1. ASSUME StreamInv PROVE NothingStaleQueued
    <2> SUFFICES ASSUME NEW p \in packet_queue
                 PROVE  p.n >= accepted /\ p.n < accepted + MaxInFlight
      BY DEF NothingStaleQueued
    <2>1. /\ p.n >= accepted /\ p.n < Len(wire) /\ p.n \in Nat
          /\ accepted \in Nat /\ Len(wire) \in Nat
      BY <1>1 DEF StreamInv, QueueOnWire, OnWire, TypeOK, DataPackets
    <2>2. Len(wire) - accepted <= MaxInFlight
      BY <1>1 DEF StreamInv, CountersWrap
    <2> QED
      BY <2>1, <2>2
  <1> QED
    BY <1>1, StreamInvariant, PTL
=============================================================================
