--------------------------- MODULE SequenceCompare ---------------------------
(***************************************************************************)
(* The 16-bit sequence numbers of common/net/reliable_stream_connection:   *)
(* how they are incremented (uint16_t arithmetic) and how CompareSequence  *)
(* orders two of them. The code has SeqMod = 65536 and HalfWindow = 10000. *)
(***************************************************************************)
EXTENDS Integers

CONSTANTS
    SeqMod,      \* number of values of a sequence number, 2^16 in the code
    HalfWindow   \* the distance CompareSequence takes for "ahead", 10000 in the code

ASSUME SeqAssumption ==
    /\ SeqMod \in Nat
    /\ HalfWindow \in Nat \ {0}
    /\ 2 * HalfWindow < SeqMod

SeqNumbers == 0 .. SeqMod - 1

Orders == {"Past", "Current", "Future"}

\* uint16_t arithmetic: the value of n kept in a sequence number.
Wrap(n) == n % SeqMod

\* Where sequence number "actual" stands relative to "expected".
CompareSequence(expected, actual) ==
    LET diff == actual - expected
    IN  CASE diff = 0 -> "Current"
          [] diff > HalfWindow -> "Past"
          [] diff > 0 /\ diff <= HalfWindow -> "Future"
          [] diff < -HalfWindow -> "Future"
          [] diff < 0 /\ diff >= -HalfWindow -> "Past"
==============================================================================
