--------------------- MODULE ReliableStreamFifo_proofs ---------------------
(***************************************************************************)
(* ReliableStream implements FifoDelivery, for every SeqMod, HalfWindow,   *)
(* MaxInFlight, ResendWindow, MaxParts, MaxPackets and Closers its         *)
(* assumptions allow: the applications see messages in order, once, whole. *)
(*                                                                         *)
(* StreamInv says that the packet a receiver accepts is the one at its     *)
(* position in wire.  FramingInv adds what the packets at each position    *)
(* say and how much of the current message has been put together.          *)
(***************************************************************************)
EXTENDS ReliableStream_proofs

\* The chunk that follows the first n packets; behind the last packet it is the
\* first one of the message that will be queued next.
NextChunk(w, s, n) == IF n < Len(w) THEN w[n + 1].data ELSE <<Len(s) + 1, 1>>

\* p carries part i of message m, of that many parts.
Carries(p, m, i, parts) ==
    /\ p.data = <<m, i>>
    /\ p.op = IF parts > 1 THEN "Fragment" ELSE "Packet"
    /\ p.total = IF parts > 1 /\ i = 1 THEN parts ELSE 0

\* What position n of wire says: a part of a message, then the next part or the
\* next message.
Framed(w, s, n) ==
    \E m \in 1 .. Len(s) : \E i \in 1 .. Len(s[m]) :
        /\ Carries(w[n], m, i, Len(s[m]))
        /\ NextChunk(w, s, n) = IF i < Len(s[m]) THEN <<m, i + 1>> ELSE <<m + 1, 1>>

Bodies(s) == \A m \in 1 .. Len(s) : Len(s[m]) >= 1 /\ s[m] = Message(m, Len(s[m]))

WireFramed(w, s) ==
    /\ NextChunk(w, s, 0) = <<1, 1>>
    /\ \A n \in 1 .. Len(w) : Framed(w, s, n)

\* The receiver has delivered whole messages and holds the head of the next.
Prefix(d, s) == Len(d) <= Len(s) /\ \A m \in 1 .. Len(d) : d[m] = s[m]

Assembled(f, total, d, s) ==
    /\ f = Message(Len(d) + 1, Len(f))
    /\ f = <<>> => total = 0
    /\ f # <<>> => /\ Len(d) < Len(s)
                   /\ total = Len(s[Len(d) + 1])
                   /\ Len(f) < total

FramingInv ==
    /\ Bodies(submitted)
    /\ WireFramed(wire, submitted)
    /\ Prefix(delivered, submitted)
    /\ Assembled(fragment_packet, fragment_total_bytes, delivered, submitted)
    /\ NextChunk(wire, submitted, accepted) = <<Len(delivered) + 1, Len(fragment_packet) + 1>>

framing == <<wire, submitted, fragment_packet, fragment_total_bytes, accepted, delivered>>

-----------------------------------------------------------------------------
LEMMA FramingInit == Init => FramingInv
  <1> SUFFICES ASSUME Init PROVE FramingInv
    OBVIOUS
  <1>1. /\ wire = <<>> /\ submitted = <<>> /\ delivered = <<>> /\ fragment_packet = <<>>
        /\ fragment_total_bytes = 0 /\ accepted = 0
    BY DEF Init
  <1>2. Message(1, 0) = <<>>
    BY DEF Message
  <1> QED
    BY <1>1, <1>2 DEF FramingInv, Bodies, WireFramed, Prefix, Assembled, NextChunk

LEMMA FramingUnmoved == ASSUME FramingInv, UNCHANGED framing PROVE FramingInv'
  BY DEF FramingInv, framing

-----------------------------------------------------------------------------
(* The sending end: a message is queued. *)

\* w2 and s2 are w and s with one message more, in that many packets.
Queued(w, s, packets, parts, w2, s2) ==
    /\ w \in Seq(DataPackets) /\ s \in Seq(Seq(Chunk)) /\ parts \in Nat \ {0}
    /\ packets \in Seq(DataPackets) /\ Len(packets) = parts
    /\ \A j \in 1 .. parts : Carries(packets[j], Len(s) + 1, j, parts)
    /\ w2 \in Seq(DataPackets) /\ Len(w2) = Len(w) + parts
    /\ \A j \in 1 .. Len(w) : w2[j] = w[j]
    /\ \A j \in 1 .. parts : w2[Len(w) + j] = packets[j]
    /\ s2 \in Seq(Seq(Chunk)) /\ s2 = Append(s, Message(Len(s) + 1, parts))

\* The parts of the new message follow each other and what was in wire.
LEMMA QueuedFramed ==
    ASSUME NEW w, NEW s, NEW packets, NEW parts, NEW w2, NEW s2,
           Queued(w, s, packets, parts, w2, s2), Bodies(s), WireFramed(w, s)
    PROVE  /\ Bodies(s2) /\ WireFramed(w2, s2)
           /\ \A n \in 0 .. Len(w) : NextChunk(w2, s2, n) = NextChunk(w, s, n)
  <1> DEFINE id == Len(s) + 1
  <1>0. /\ w \in Seq(DataPackets) /\ s \in Seq(Seq(Chunk)) /\ parts \in Nat \ {0}
        /\ packets \in Seq(DataPackets) /\ Len(packets) = parts
        /\ \A j \in 1 .. parts : Carries(packets[j], Len(s) + 1, j, parts)
        /\ w2 \in Seq(DataPackets) /\ Len(w2) = Len(w) + parts
        /\ \A j \in 1 .. Len(w) : w2[j] = w[j]
        /\ \A j \in 1 .. parts : w2[Len(w) + j] = packets[j]
        /\ s2 \in Seq(Seq(Chunk)) /\ s2 = Append(s, Message(Len(s) + 1, parts))
    BY DEF Queued
  <1> USE <1>0
  <1>1. Len(w) \in Nat /\ Len(s) \in Nat /\ id \in Nat
    OBVIOUS
  <1>2. /\ Len(s2) = id
        /\ \A m \in 1 .. Len(s) : s2[m] = s[m]
        /\ s2[id] = Message(id, parts)
    OBVIOUS
  <1>3. Len(Message(id, parts)) = parts
    BY DEF Message
  <1>4. Bodies(s2)
    BY <1>1, <1>2, <1>3 DEF Bodies
  <1> HIDE DEF id
  <1>5. ASSUME NEW n \in 0 .. Len(w) PROVE NextChunk(w2, s2, n) = NextChunk(w, s, n)
    <2>1. CASE n < Len(w)
      <3>1. n + 1 \in 1 .. Len(w) /\ n < Len(w2)
        BY <1>1, <2>1
      <3> QED
        BY <2>1, <3>1 DEF NextChunk
    <2>2. CASE n = Len(w)
      <3>1. n < Len(w2) /\ w2[n + 1] = packets[1] /\ packets[1].data = <<Len(s) + 1, 1>>
        BY <1>1, <2>2 DEF Carries
      <3> QED
        BY <1>1, <2>2, <3>1 DEF NextChunk
    <2> QED
      BY <1>1, <2>1, <2>2
  <1>6. ASSUME NEW n \in 1 .. Len(w) PROVE Framed(w2, s2, n)
    <2>1. PICK m \in 1 .. Len(s) : \E i \in 1 .. Len(s[m]) :
            /\ Carries(w[n], m, i, Len(s[m]))
            /\ NextChunk(w, s, n) = IF i < Len(s[m]) THEN <<m, i + 1>> ELSE <<m + 1, 1>>
      BY DEF WireFramed, Framed
    <2>2. m \in 1 .. Len(s2) /\ s2[m] = s[m] /\ w2[n] = w[n]
          /\ NextChunk(w2, s2, n) = NextChunk(w, s, n)
      <3>1. n \in 0 .. Len(w) /\ m \in 1 .. Len(s2)
        BY <1>1, <1>2, <2>1 DEF id
      <3> QED
        BY <1>2, <1>5, <3>1
    <2> QED
      BY <2>1, <2>2 DEF Framed
  <1>7. ASSUME NEW j \in 1 .. parts PROVE Framed(w2, s2, Len(w) + j)
    <2>1. /\ id \in 1 .. Len(s2) /\ Len(s2[id]) = parts
          /\ Carries(w2[Len(w) + j], id, j, parts)
      BY <1>1, <1>2, <1>3 DEF id
    <2>2. NextChunk(w2, s2, Len(w) + j) = IF j < parts THEN <<id, j + 1>> ELSE <<id + 1, 1>>
      <3>1. CASE j < parts
        <4>1. j + 1 \in 1 .. parts /\ Len(w) + j < Len(w2) /\ Len(w) + j + 1 = Len(w) + (j + 1)
          BY <1>1, <3>1
        <4>2. w2[Len(w) + j + 1].data = <<id, j + 1>>
          BY <4>1 DEF Carries, id
        <4> QED
          BY <3>1, <4>1, <4>2 DEF NextChunk
      <3>2. CASE j = parts
        <4>1. ~(Len(w) + j < Len(w2))
          BY <1>1, <3>2
        <4> QED
          BY <1>2, <3>2, <4>1 DEF NextChunk
      <3> QED
        BY <3>1, <3>2
    <2> QED
      BY <2>1, <2>2 DEF Framed
  <1>8. ASSUME NEW n \in 1 .. Len(w2) PROVE Framed(w2, s2, n)
    <2>1. CASE n <= Len(w)
      BY <1>1, <1>6, <2>1
    <2>2. CASE n > Len(w)
      <3>1. n - Len(w) \in 1 .. parts /\ Len(w) + (n - Len(w)) = n
        BY <1>1, <2>2
      <3> QED
        BY <1>7, <3>1
    <2> QED
      BY <1>1, <2>1, <2>2
  <1>9. NextChunk(w2, s2, 0) = <<1, 1>>
    BY <1>1, <1>5 DEF WireFramed
  <1> QED
    BY <1>4, <1>5, <1>8, <1>9 DEF WireFramed

LEMMA QueuePacketFrames ==
    ASSUME StreamInv, FramingInv, NEW parts \in 1 .. MaxParts, QueuePacket(parts)
    PROVE  FramingInv' /\ Fifo!Submit
  <1> DEFINE id      == Len(submitted) + 1
             packets == PacketsOf(id, parts)
             body    == Message(id, parts)
  <1>1. /\ wire' = wire \o packets
        /\ submitted' = Append(submitted, body)
        /\ UNCHANGED <<fragment_packet, fragment_total_bytes, accepted, delivered, status>>
    <2>1. wire' = wire \o packets /\ submitted' = Append(submitted, body)
      BY Zenon DEF QueuePacket
    <2>2. UNCHANGED <<receiverVars, status>>
      BY Zenon DEF QueuePacket
    <2> QED
      BY <2>1, <2>2 DEF receiverVars
  <1>2. /\ wire \in Seq(DataPackets) /\ submitted \in Seq(Seq(Chunk)) /\ Len(wire) \in Nat
        /\ parts \in Nat \ {0} /\ id \in Nat /\ id = Len(submitted) + 1
        /\ accepted \in 0 .. Len(wire) /\ delivered \in Seq(Seq(Chunk))
        /\ fragment_packet \in Seq(Chunk)
    BY DEF StreamInv, TypeOK, CountersWrap
  <1>3. packets \in Seq(DataPackets) /\ Len(packets) = parts
    BY <1>2, NewPackets DEF StreamInv
  <1>4. \A j \in 1 .. parts : Carries(packets[j], Len(submitted) + 1, j, parts)
    BY <1>2 DEF PacketsOf, Carries
  <1>5. body \in Seq(Chunk) /\ Len(body) = parts
    <2>1. body \in [1 .. parts -> Chunk]
      BY <1>2 DEF Message, Chunk
    <2> QED
      BY <1>2, <2>1
  <1> HIDE DEF packets
  <1>6. /\ wire' \in Seq(DataPackets) /\ Len(wire') = Len(wire) + parts
        /\ \A i \in 1 .. Len(wire) : wire'[i] = wire[i]
        /\ \A i \in 1 .. parts : wire'[Len(wire) + i] = packets[i]
    <2> HIDE DEF body
    <2>0. wire' = wire \o packets
      BY <1>1
    <2>1. wire' \in Seq(DataPackets) /\ Len(wire') = Len(wire) + parts
      <3>1. wire \in Seq(DataPackets) /\ packets \in Seq(DataPackets)
        BY <1>2, <1>3
      <3>2. wire \o packets \in Seq(DataPackets) /\ Len(wire \o packets) = Len(wire) + Len(packets)
        BY <3>1
      <3> QED
        BY <1>3, <2>0, <3>2
    <2>2. ASSUME NEW i \in 1 .. Len(wire) PROVE (wire \o packets)[i] = wire[i]
      BY <1>2, <1>3
    <2>3. ASSUME NEW i \in 1 .. parts PROVE (wire \o packets)[Len(wire) + i] = packets[i]
      <3>1. Len(wire) + i \in 1 .. Len(wire) + Len(packets) /\ ~(Len(wire) + i <= Len(wire))
        BY <1>2, <1>3
      <3>2. (Len(wire) + i) - Len(wire) = i
        BY <1>2
      <3> QED
        BY <1>2, <1>3, <3>1, <3>2
    <2> QED
      BY <1>1, <2>1, <2>2, <2>3
  <1>7. submitted' \in Seq(Seq(Chunk)) /\ Len(submitted') = id
        /\ \A m \in 1 .. Len(submitted) : submitted'[m] = submitted[m]
    <2> HIDE DEF body
    <2> QED
      BY <1>1, <1>2, <1>5
  <1>8. submitted' = Append(submitted, Message(Len(submitted) + 1, parts))
    BY <1>1
  <1> HIDE DEF id, body
  <1>9. /\ Bodies(submitted') /\ WireFramed(wire', submitted')
        /\ \A n \in 0 .. Len(wire) : NextChunk(wire', submitted', n) = NextChunk(wire, submitted, n)
    <2>1. Bodies(submitted) /\ WireFramed(wire, submitted)
      BY DEF FramingInv
    <2>2. Queued(wire, submitted, packets, parts, wire', submitted')
      BY <1>2, <1>3, <1>4, <1>6, <1>7, <1>8 DEF Queued
    <2> QED
      BY <2>1, <2>2, QueuedFramed
  <1>10. Prefix(delivered', submitted')
    BY <1>1, <1>2, <1>7 DEF Prefix, FramingInv
  <1>11. Assembled(fragment_packet', fragment_total_bytes', delivered', submitted')
    <2>1. Len(delivered) \in Nat /\ Len(submitted) \in Nat
      BY <1>2
    <2>2. Assembled(fragment_packet, fragment_total_bytes, delivered, submitted')
      <3>1. ASSUME Len(delivered) < Len(submitted)
            PROVE  /\ Len(delivered) < Len(submitted')
                   /\ submitted'[Len(delivered) + 1] = submitted[Len(delivered) + 1]
        <4>1. Len(delivered) + 1 \in 1 .. Len(submitted) /\ Len(submitted') = Len(submitted) + 1
          BY <1>2, <1>7, <2>1, <3>1
        <4> QED
          BY <1>7, <2>1, <3>1, <4>1
      <3>2. Assembled(fragment_packet, fragment_total_bytes, delivered, submitted)
        BY DEF FramingInv
      <3> QED
        BY <3>1, <3>2, Zenon DEF Assembled
    <2> QED
      BY <1>1, <2>2
  <1>12. NextChunk(wire', submitted', accepted') = <<Len(delivered') + 1, Len(fragment_packet') + 1>>
    BY <1>1, <1>2, <1>9 DEF FramingInv
  <1>13. FramingInv'
    BY <1>9, <1>10, <1>11, <1>12 DEF FramingInv
  <1>14. Fifo!Submit
    <2>1. open' = open
      BY <1>1 DEF open
    <2>2. Fifo!Extends(submitted', submitted)
      BY <1>2, <1>7 DEF Fifo!Extends
    <2> QED
      BY <1>1, <1>2, <1>7, <2>1, <2>2 DEF Fifo!Submit
  <1> QED
    BY <1>13, <1>14

-----------------------------------------------------------------------------
(* The receiving end: the next packet is accepted. *)

\* Message m after i of its parts, and one part more.
LEMMA MessageGrows ==
    ASSUME NEW m \in Nat, NEW i \in Nat
    PROVE  /\ Message(m, i) \in Seq(Chunk) /\ Len(Message(m, i)) = i
           /\ Append(Message(m, i), <<m, i + 1>>) = Message(m, i + 1)
           /\ Message(m, 1) = <<<<m, 1>>>> /\ Message(m, 0) = <<>>
  <1>1. Message(m, i) \in Seq(Chunk) /\ Len(Message(m, i)) = i
    <2>1. Message(m, i) \in [1 .. i -> Chunk]
      BY DEF Message, Chunk
    <2> QED
      BY <2>1 DEF Message
  <1>2. Append(Message(m, i), <<m, i + 1>>) = Message(m, i + 1)
    BY DEF Message
  <1>3. Message(m, 1) = <<<<m, 1>>>> /\ Message(m, 0) = <<>>
    BY DEF Message
  <1> QED
    BY <1>1, <1>2, <1>3

\* The next packet carries the next part of the message after the ones that are
\* delivered, and is what the receiver waits for.
LEMMA NextPart ==
    ASSUME StreamInv, FramingInv, accepted < Len(wire)
    PROVE  LET m == Len(delivered) + 1
               i == Len(fragment_packet) + 1
               L == Len(submitted[m])
           IN  /\ m \in 1 .. Len(submitted) /\ i \in 1 .. L /\ L \in Nat
               /\ Carries(wire[accepted + 1], m, i, L)
               /\ submitted[m] = Message(m, L)
               /\ NextChunk(wire, submitted, accepted + 1) =
                    IF i < L THEN <<m, i + 1>> ELSE <<m + 1, 1>>
               /\ fragment_packet = Message(m, i - 1)
               /\ fragment_total_bytes = IF i = 1 THEN 0 ELSE L
  <1>1. /\ accepted \in Nat /\ Len(wire) \in Nat /\ submitted \in Seq(Seq(Chunk))
        /\ delivered \in Seq(Seq(Chunk)) /\ fragment_packet \in Seq(Chunk)
    BY DEF StreamInv, TypeOK
  <1>2. accepted + 1 \in 1 .. Len(wire)
    BY <1>1
  <1>3. Framed(wire, submitted, accepted + 1)
    BY <1>2 DEF FramingInv, WireFramed
  <1>4. PICK m \in 1 .. Len(submitted) : \E i \in 1 .. Len(submitted[m]) :
          /\ Carries(wire[accepted + 1], m, i, Len(submitted[m]))
          /\ NextChunk(wire, submitted, accepted + 1) =
               IF i < Len(submitted[m]) THEN <<m, i + 1>> ELSE <<m + 1, 1>>
    BY <1>3 DEF Framed
  <1>5. PICK i \in 1 .. Len(submitted[m]) :
          /\ Carries(wire[accepted + 1], m, i, Len(submitted[m]))
          /\ NextChunk(wire, submitted, accepted + 1) =
               IF i < Len(submitted[m]) THEN <<m, i + 1>> ELSE <<m + 1, 1>>
    BY <1>4
  <1>6. wire[accepted + 1].data = <<Len(delivered) + 1, Len(fragment_packet) + 1>>
    BY DEF FramingInv, NextChunk
  <1>7. m = Len(delivered) + 1 /\ i = Len(fragment_packet) + 1
    BY <1>5, <1>6 DEF Carries
  <1>8. submitted[m] \in Seq(Chunk) /\ Len(submitted[m]) \in Nat
    BY <1>1
  <1>9. submitted[m] = Message(m, Len(submitted[m]))
    BY DEF FramingInv, Bodies
  <1>10. Assembled(fragment_packet, fragment_total_bytes, delivered, submitted)
    BY DEF FramingInv
  <1>11. fragment_packet = Message(m, i - 1)
    <2>1. Len(fragment_packet) = i - 1
      BY <1>1, <1>7
    <2> QED
      BY <1>7, <1>10, <2>1 DEF Assembled
  <1>12. fragment_total_bytes = IF i = 1 THEN 0 ELSE Len(submitted[m])
    <2>1. i = 1 => fragment_packet = <<>>
      BY <1>1, <1>7
    <2>2. i # 1 => fragment_packet # <<>>
      BY <1>1, <1>7
    <2> QED
      BY <1>7, <1>10, <2>1, <2>2 DEF Assembled
  <1> QED
    BY <1>5, <1>7, <1>8, <1>9, <1>11, <1>12

\* A packet that completes its message: it is delivered. Any other one is kept
\* for the rest of it.
LEMMA Reassembled ==
    ASSUME StreamInv, FramingInv, accepted < Len(wire), Reassemble(wire[accepted + 1])
    PROVE  LET m == Len(delivered) + 1
               i == Len(fragment_packet) + 1
               L == Len(submitted[m])
           IN  IF i < L
               THEN /\ fragment_packet' = Message(m, i)
                    /\ fragment_total_bytes' = L
                    /\ UNCHANGED delivered
               ELSE /\ fragment_packet' = <<>>
                    /\ fragment_total_bytes' = 0
                    /\ delivered' = Append(delivered, submitted[m])
  <1> DEFINE m == Len(delivered) + 1
             i == Len(fragment_packet) + 1
             L == Len(submitted[m])
             p == wire[accepted + 1]
  <1>1. /\ m \in Nat /\ i \in 1 .. L /\ L \in Nat
        /\ Carries(p, m, i, L) /\ submitted[m] = Message(m, L)
        /\ fragment_packet = Message(m, i - 1) /\ i - 1 \in Nat /\ i \in Nat
        /\ fragment_total_bytes = IF i = 1 THEN 0 ELSE L
    BY NextPart
  <1>2. Reassemble(p) /\ i - 1 + 1 = i
    BY <1>1
  <1> HIDE DEF m, i, L, p
  <1>3. /\ Append(fragment_packet, <<m, i>>) = Message(m, i) /\ Len(Message(m, i)) = i
        /\ Message(m, 1) = <<<<m, 1>>>> /\ Message(m, 0) = <<>>
    BY <1>1, <1>2, MessageGrows
  <1>4. CASE L = 1
    <2>1. p.op = "Packet" /\ p.data = <<m, 1>> /\ i = 1 /\ fragment_total_bytes = 0
      BY <1>1, <1>4 DEF Carries
    <2>2. delivered' = Append(delivered, <<p.data>>) /\ UNCHANGED <<fragment_packet, fragment_total_bytes>>
      BY <1>2, <2>1 DEF Reassemble
    <2>3. <<p.data>> = submitted[m] /\ fragment_packet = <<>>
      BY <1>1, <1>3, <1>4, <2>1
    <2> QED
      BY <1>4, <2>1, <2>2, <2>3 DEF m, i, L
  <1>5. CASE L > 1 /\ i = 1
    <2>1. p.op = "Fragment" /\ p.data = <<m, 1>> /\ p.total = L /\ fragment_total_bytes = 0
      BY <1>1, <1>5 DEF Carries
    <2>2. fragment_total_bytes' = L /\ fragment_packet' = <<p.data>> /\ UNCHANGED delivered
      BY <1>2, <2>1 DEF Reassemble
    <2>3. fragment_packet' = Message(m, i)
      BY <1>3, <1>5, <2>1, <2>2
    <2> QED
      BY <1>5, <2>2, <2>3 DEF m, i, L
  <1>6. CASE L > 1 /\ i # 1
    <2>1. p.op = "Fragment" /\ p.data = <<m, i>> /\ fragment_total_bytes = L /\ L # 0
      BY <1>1, <1>6 DEF Carries
    <2>2. Append(fragment_packet, p.data) = Message(m, i)
      BY <1>3, <2>1
    <2>3. IF Len(Message(m, i)) >= fragment_total_bytes
          THEN /\ delivered' = Append(delivered, Message(m, i))
               /\ fragment_packet' = <<>>
               /\ fragment_total_bytes' = 0
          ELSE /\ fragment_packet' = Message(m, i)
               /\ UNCHANGED <<delivered, fragment_total_bytes>>
      BY <1>2, <2>1, <2>2 DEF Reassemble, Complete
    <2>4. CASE i < L
      <3>1. fragment_packet' = Message(m, i) /\ UNCHANGED delivered /\ fragment_total_bytes' = L
        BY <1>1, <1>3, <2>1, <2>3, <2>4
      <3> QED
        BY <2>4, <3>1 DEF m, i, L
    <2>5. CASE i = L
      <3>1. /\ fragment_packet' = <<>> /\ fragment_total_bytes' = 0
            /\ delivered' = Append(delivered, submitted[m])
        BY <1>1, <1>3, <2>1, <2>3, <2>5
      <3> QED
        BY <1>1, <2>5, <3>1 DEF m, i, L
    <2> QED
      BY <1>1, <2>4, <2>5
  <1> QED
    BY <1>1, <1>4, <1>5, <1>6

LEMMA AcceptFrames ==
    ASSUME StreamInv, FramingInv, accepted < Len(wire), Reassemble(wire[accepted + 1]),
           accepted' = accepted + 1, UNCHANGED <<wire, submitted, status>>
    PROVE  FramingInv' /\ (Fifo!Deliver \/ UNCHANGED <<submitted, delivered, open>>)
  <1> DEFINE d == Len(delivered)
             m == d + 1
             i == Len(fragment_packet) + 1
             L == Len(submitted[m])
  <1>1. /\ m \in 1 .. Len(submitted) /\ i \in 1 .. L /\ L \in Nat
        /\ NextChunk(wire, submitted, accepted + 1) = IF i < L THEN <<m, i + 1>> ELSE <<m + 1, 1>>
    BY NextPart
  <1>2. IF i < L
        THEN /\ fragment_packet' = Message(m, i)
             /\ fragment_total_bytes' = L
             /\ UNCHANGED delivered
        ELSE /\ fragment_packet' = <<>>
             /\ fragment_total_bytes' = 0
             /\ delivered' = Append(delivered, submitted[m])
    BY Reassembled
  <1>3. /\ submitted \in Seq(Seq(Chunk)) /\ delivered \in Seq(Seq(Chunk)) /\ d \in Nat
        /\ Len(submitted) \in Nat /\ open' = open
    BY DEF StreamInv, TypeOK, open
  <1>4. Bodies(submitted) /\ WireFramed(wire, submitted) /\ Prefix(delivered, submitted)
    BY DEF FramingInv
  <1>5. CASE i < L
    <2>1. /\ fragment_packet' = Message(m, i) /\ Len(fragment_packet') = i
          /\ fragment_total_bytes' = L /\ UNCHANGED delivered
      <3>1. /\ fragment_packet' = Message(m, i) /\ fragment_total_bytes' = L /\ UNCHANGED delivered
            /\ m \in Nat /\ i \in Nat
        BY <1>1, <1>2, <1>5
      <3> HIDE DEF m, i, L
      <3>2. Len(Message(m, i)) = i
        BY <3>1, MessageGrows
      <3> QED
        BY <3>1, <3>2
    <2> HIDE DEF i, L
    <2>2. fragment_packet' # <<>>
      BY <1>1, <2>1
    <2>3. Assembled(fragment_packet', fragment_total_bytes', delivered', submitted')
      BY <1>1, <1>5, <2>1, <2>2 DEF Assembled, L
    <2>4. NextChunk(wire', submitted', accepted') = <<Len(delivered') + 1, Len(fragment_packet') + 1>>
      BY <1>1, <1>5, <2>1
    <2> QED
      BY <1>3, <1>4, <2>1, <2>3, <2>4 DEF FramingInv
  <1>6. CASE ~(i < L)
    <2>1. /\ fragment_packet' = <<>> /\ fragment_total_bytes' = 0
          /\ delivered' = Append(delivered, submitted[m])
      BY <1>2, <1>6
    <2> HIDE DEF i, L
    <2>2. /\ submitted[m] \in Seq(Chunk) /\ Len(delivered') = m
          /\ \A j \in 1 .. d : delivered'[j] = delivered[j]
          /\ delivered'[m] = submitted[m]
      BY <1>1, <1>3, <2>1
    <2>3. Prefix(delivered', submitted')
      <3>1. ASSUME NEW j \in 1 .. m PROVE delivered'[j] = submitted'[j]
        <4>1. j = m \/ j \in 1 .. d
          BY <1>3
        <4>2. \A k \in 1 .. d : delivered[k] = submitted[k]
          BY <1>4 DEF Prefix
        <4>3. submitted' = submitted
          OBVIOUS
        <4>4. CASE j = m
          BY <2>2, <4>3, <4>4
        <4>5. CASE j \in 1 .. d
          BY <2>2, <4>2, <4>3, <4>5
        <4> QED
          BY <4>1, <4>4, <4>5
      <3>2. m <= Len(submitted)
        BY <1>1
      <3> QED
        BY <2>2, <3>1, <3>2 DEF Prefix
    <2>4. Assembled(fragment_packet', fragment_total_bytes', delivered', submitted')
      <3>1. Message(m + 1, 0) = <<>> /\ Len(<<>>) = 0
        BY <1>1, MessageGrows
      <3> QED
        BY <2>1, <2>2, <3>1 DEF Assembled
    <2>5. NextChunk(wire', submitted', accepted') = <<Len(delivered') + 1, Len(fragment_packet') + 1>>
      BY <1>1, <1>6, <2>1, <2>2
    <2>6. Fifo!Deliver
      BY <1>1, <1>3, <2>1 DEF Fifo!Deliver
    <2> QED
      BY <1>4, <2>3, <2>4, <2>5, <2>6 DEF FramingInv
  <1> QED
    BY <1>5, <1>6

\* A packet that is handled is the next one and accepted, or changes nothing of
\* what has been put together.
LEMMA HandledFrames ==
    ASSUME StreamInv, FramingInv,
           NEW p \in DataPackets, OnWire(p), p.n + HalfWindow >= Len(wire),
           NEW queue, ProcessDecodedPacket(p, queue)
    PROVE  FramingInv' /\ (Fifo!Deliver \/ UNCHANGED <<submitted, delivered, open>>)
  <1>1. UNCHANGED <<wire, submitted, status>>
    BY DEF ProcessDecodedPacket, senderVars
  <1>2. CASE Refuse(p, queue) \/ HoldFuture(p, queue) \/ AckPast(p, queue)
    <2>1. UNCHANGED framing
      BY <1>1, <1>2 DEF Refuse, HoldFuture, AckPast, framing
    <2>2. UNCHANGED <<submitted, delivered, open>>
      BY <1>1, <2>1 DEF framing, open
    <2> QED
      BY <2>1, <2>2, FramingUnmoved
  <1>3. CASE AcceptCurrent(p, queue)
    <2>1. /\ CompareSequence(sequence_in, p.seq) = "Current"
          /\ accepted' = accepted + 1 /\ Reassemble(p)
      BY <1>3 DEF AcceptCurrent
    <2>2. p.n = accepted
      BY <2>1, PacketIsNear DEF StreamInv
    <2>3. accepted < Len(wire) /\ p = wire[accepted + 1]
      BY <2>2 DEF OnWire
    <2> QED
      BY <1>1, <2>1, <2>3, AcceptFrames
  <1> QED
    BY <1>2, <1>3 DEF ProcessDecodedPacket

LEMMA ReceiveDataFrames ==
    ASSUME StreamInv, FramingInv, NEW p \in toReceiver, ReceiveData(p)
    PROVE  FramingInv' /\ (Fifo!Deliver \/ UNCHANGED <<submitted, delivered, open>>)
  <1>1. p \in DataPackets /\ OnWire(p) /\ p.n + HalfWindow >= Len(wire)
    BY DEF ReceiveData, StreamInv, TypeOK, DataInFlight, IsData, Disconnects
  <1> QED
    BY <1>1, HandledFrames DEF ReceiveData

LEMMA ProcessQueueFrames ==
    ASSUME StreamInv, FramingInv, NEW p \in packet_queue, ProcessQueue(p)
    PROVE  FramingInv' /\ (Fifo!Deliver \/ UNCHANGED <<submitted, delivered, open>>)
  <1>1. p \in DataPackets /\ OnWire(p) /\ p.n >= accepted
    BY DEF StreamInv, TypeOK, QueueOnWire
  <1>2. p.n \in Nat /\ accepted \in Nat /\ Len(wire) \in Nat
    BY <1>1 DEF StreamInv, TypeOK, DataPackets
  <1>3. Len(wire) - accepted <= MaxInFlight
    BY DEF StreamInv, CountersWrap
  <1>4. p.n + HalfWindow >= Len(wire)
    BY <1>1, <1>2, <1>3, SeqAssumption, StreamAssumption
  <1> QED
    BY <1>1, <1>4, HandledFrames DEF ProcessQueue

-----------------------------------------------------------------------------
(* The session. *)

\* What only moves datagrams and ends the session changes no message, and no
\* end is ever Connected again.
LEMMA SessionFrames ==
    ASSUME StreamInv, FramingInv,
           \/ ProcessResend \/ Lose
           \/ \E ack \in toSender : ReceiveAck(ack) \/ ReceiveOutOfOrderAck(ack)
           \/ \E e \in Ends : Close(e) \/ ReceiveDisconnect(e) \/ CloseTimeElapsed(e) \/ Stale(e)
    PROVE  FramingInv' /\ (Fifo!Break \/ UNCHANGED <<submitted, delivered, open>>)
  <1>1. UNCHANGED framing
    BY DEF ProcessResend, Lose, ReceiveAck, ReceiveOutOfOrderAck, Close, ReceiveDisconnect,
       CloseTimeElapsed, Stale, senderVars, receiverVars, framing
  <1>2. open' => open
    <2>1. status \in [Ends -> {"Connected", "Disconnecting", "Gone"}]
      BY DEF StreamInv, TypeOK
    <2>2. CASE UNCHANGED status
      BY <2>2 DEF open
    <2>3. ASSUME NEW e \in Ends, status'[e] # "Connected"
          PROVE  ~open'
      BY <2>3 DEF open
    <2>4. ASSUME NEW e \in Ends,
                 Close(e) \/ ReceiveDisconnect(e) \/ CloseTimeElapsed(e) \/ Stale(e)
          PROVE  status'[e] # "Connected"
      BY <2>1, <2>4 DEF Close, ReceiveDisconnect, CloseTimeElapsed, Stale
    <2>5. ASSUME \/ ProcessResend \/ Lose
                 \/ \E ack \in toSender : ReceiveAck(ack) \/ ReceiveOutOfOrderAck(ack)
          PROVE  UNCHANGED status
      BY <2>5 DEF ProcessResend, Lose, ReceiveAck, ReceiveOutOfOrderAck
    <2> QED
      BY <2>2, <2>3, <2>4, <2>5
  <1>3. open \in BOOLEAN /\ open' \in BOOLEAN
    BY DEF open
  <1>4. Fifo!Break \/ UNCHANGED <<submitted, delivered, open>>
    <2>1. submitted' = submitted /\ delivered' = delivered
      BY <1>1 DEF framing
    <2>2. CASE open' = open
      BY <2>1, <2>2
    <2>3. CASE open /\ ~open'
      <3>1. open' = FALSE
        <4> HIDE DEF open
        <4> QED
          BY <1>3, <2>3, Zenon
      <3> QED
        BY <2>1, <2>3, <3>1 DEF Fifo!Break
    <2>4. (open' = open) \/ (open /\ ~open')
      <3> HIDE DEF open
      <3> QED
        BY <1>2, <1>3, Zenon
    <2> QED
      BY <2>2, <2>3, <2>4
  <1> QED
    BY <1>1, <1>4, FramingUnmoved

-----------------------------------------------------------------------------
LEMMA StepFrames ==
    ASSUME StreamInv, FramingInv, [Next]_vars
    PROVE  FramingInv' /\ [Fifo!FifoNext]_(Fifo!fifoVars)
  <1>1. ASSUME NEW parts \in 1 .. MaxParts, QueuePacket(parts)
        PROVE  FramingInv' /\ Fifo!Submit
    BY <1>1, QueuePacketFrames
  <1>2. ASSUME \/ \E p \in toReceiver : ReceiveData(p)
               \/ \E p \in packet_queue : ProcessQueue(p)
        PROVE  FramingInv' /\ (Fifo!Deliver \/ UNCHANGED <<submitted, delivered, open>>)
    BY <1>2, ReceiveDataFrames, ProcessQueueFrames
  <1>3. ASSUME \/ ProcessResend \/ Lose
               \/ \E ack \in toSender : ReceiveAck(ack) \/ ReceiveOutOfOrderAck(ack)
               \/ \E e \in Ends : Close(e) \/ ReceiveDisconnect(e) \/ CloseTimeElapsed(e) \/ Stale(e)
        PROVE  FramingInv' /\ (Fifo!Break \/ UNCHANGED <<submitted, delivered, open>>)
    BY <1>3, SessionFrames
  <1>4. ASSUME UNCHANGED vars
        PROVE  FramingInv' /\ UNCHANGED <<submitted, delivered, open>>
    <2>1. UNCHANGED framing /\ UNCHANGED status
      BY <1>4 DEF vars, senderVars, receiverVars, framing
    <2>2. UNCHANGED <<submitted, delivered, open>>
      BY <2>1 DEF framing, open
    <2> QED
      BY <2>1, <2>2, FramingUnmoved
  <1>5. \/ \E parts \in 1 .. MaxParts : QueuePacket(parts)
        \/ \E p \in toReceiver : ReceiveData(p)
        \/ \E p \in packet_queue : ProcessQueue(p)
        \/ ProcessResend \/ Lose
        \/ \E ack \in toSender : ReceiveAck(ack) \/ ReceiveOutOfOrderAck(ack)
        \/ \E e \in Ends : Close(e) \/ ReceiveDisconnect(e) \/ CloseTimeElapsed(e) \/ Stale(e)
        \/ UNCHANGED vars
    BY DEF Next
  <1> QED
    BY <1>1, <1>2, <1>3, <1>4, <1>5 DEF Fifo!FifoNext, Fifo!fifoVars

\* The stream implements what it promises its applications: however datagrams are
\* lost, repeated and reordered and however often sequence numbers wrap, messages
\* are delivered in order, each once and each whole (ProcessDecodedPacket).
THEOREM ImplementsFifo == Spec => DeliversInOrder
  <1>1. Init => Fifo!FifoInit
    <2> SUFFICES ASSUME Init PROVE Fifo!FifoInit
      OBVIOUS
    <2>1. open = TRUE
      BY DEF Init, open
    <2> QED
      BY <2>1 DEF Init, Fifo!FifoInit
  <1>2. StreamInv /\ FramingInv /\ [Next]_vars => FramingInv' /\ [Fifo!FifoNext]_(Fifo!fifoVars)
    BY StepFrames
  <1> QED
    BY <1>1, <1>2, FramingInit, StreamInvariant, PTL DEF Spec, DeliversInOrder, Fifo!FifoSpec
=============================================================================
