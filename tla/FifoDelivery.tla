---------------------------- MODULE FifoDelivery ----------------------------
(***************************************************************************)
(* What one reliable stream of a ReliableStreamConnection promises the two *)
(* applications that use it: the messages given to QueuePacket come out of *)
(* the peer's packet callback in order, each once and whole, and as long   *)
(* as the session is open none waits for ever. When the session breaks, an *)
(* end of the sequence may be missing, never a middle.                     *)
(***************************************************************************)
EXTENDS Sequences, Naturals

VARIABLES
    submitted,   \* the messages given to QueuePacket, oldest first
    delivered,   \* the messages handed to the peer's m_on_packet_recv
    open         \* FALSE once one of the ends has begun to close

fifoVars == <<submitted, delivered, open>>

Extends(longer, shorter) ==
    /\ Len(shorter) <= Len(longer)
    /\ \A i \in 1 .. Len(shorter) : longer[i] = shorter[i]

FifoInit ==
    /\ submitted = <<>>
    /\ delivered = <<>>
    /\ open = TRUE

Submit ==
    /\ Len(submitted') = Len(submitted) + 1
    /\ Extends(submitted', submitted)
    /\ UNCHANGED <<delivered, open>>

Deliver ==
    /\ Len(delivered) < Len(submitted)
    /\ delivered' = Append(delivered, submitted[Len(delivered) + 1])
    /\ UNCHANGED <<submitted, open>>

Break ==
    /\ open
    /\ open' = FALSE
    /\ UNCHANGED <<submitted, delivered>>

FifoNext == Submit \/ Deliver \/ Break

FifoSpec == FifoInit /\ [][FifoNext]_fifoVars

\* An open session does not stay behind for ever: if the application pauses,
\* everything it queued is delivered.
CatchesUp == []<>(~open \/ delivered = submitted)
=============================================================================
