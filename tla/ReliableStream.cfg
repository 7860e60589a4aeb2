\* Sequence numbers modulo 5 that wrap, two packets in flight, fragments of two packets.
SPECIFICATION Spec
CONSTANTS
    SeqMod = 5
    HalfWindow = 2
    MaxInFlight = 2
    ResendWindow = 1
    MaxParts = 2
    MaxPackets = 6
    Closers = {"sender", "receiver"}
INVARIANTS
    TypeOK
    NothingForgotten
    NothingStaleQueued
PROPERTIES
    DeliversInOrder
CHECK_DEADLOCK FALSE
