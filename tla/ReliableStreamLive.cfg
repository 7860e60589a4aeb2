\* Delivery and settling under fair loss, across a wrap of the sequence numbers.
SPECIFICATION FairSpec
CONSTANTS
    SeqMod = 5
    HalfWindow = 2
    MaxInFlight = 2
    ResendWindow = 1
    MaxParts = 2
    MaxPackets = 6
    Closers = {}
PROPERTIES
    DeliversEverything
    SenderSettles
CHECK_DEADLOCK FALSE
