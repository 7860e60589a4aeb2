------------------------ MODULE SequenceCompare_proofs ------------------------
(***************************************************************************)
(* What CompareSequence computes on wrapped numbers, for every SeqMod and  *)
(* HalfWindow that SeqAssumption allows: as long as the two positions are  *)
(* at most HalfWindow apart it orders them as the unwrapped numbers.       *)
(***************************************************************************)
EXTENDS SequenceCompare, TLAPS

\* A wrapped number is a sequence number, and differs from the number it
\* stands for by a multiple of SeqMod (uint16_t arithmetic).
LEMMA WrapDivision ==
    ASSUME NEW n \in Nat
    PROVE  /\ Wrap(n) \in SeqNumbers
           /\ n \div SeqMod \in Nat
           /\ n = SeqMod * (n \div SeqMod) + Wrap(n)
  BY SeqAssumption, SMT DEF Wrap, SeqNumbers

\* Positions at most HalfWindow apart keep their distance when they are
\* wrapped, up to one turn of the counter.
LEMMA WrapDistance ==
    ASSUME NEW a \in Nat, NEW b \in Nat, a - b <= HalfWindow, b - a <= HalfWindow
    PROVE  Wrap(a) - Wrap(b) \in {a - b, a - b - SeqMod, a - b + SeqMod}
  <1> DEFINE qa == a \div SeqMod
             qb == b \div SeqMod
  <1>1. /\ qa \in Nat /\ a = SeqMod * qa + Wrap(a)
        /\ qb \in Nat /\ b = SeqMod * qb + Wrap(b)
        /\ Wrap(a) \in SeqNumbers /\ Wrap(b) \in SeqNumbers
    BY WrapDivision
  <1> HIDE DEF qa, qb
  <1>2. CASE qa = qb
    BY <1>1, <1>2, SeqAssumption DEF SeqNumbers
  <1>3. CASE qa = qb + 1
    <2>1. SeqMod * qa = SeqMod * qb + SeqMod
      BY <1>1, <1>3, SeqAssumption
    <2> QED
      BY <2>1, <1>1, SeqAssumption DEF SeqNumbers
  <1>4. CASE qb = qa + 1
    <2>1. SeqMod * qb = SeqMod * qa + SeqMod
      BY <1>1, <1>4, SeqAssumption
    <2> QED
      BY <2>1, <1>1, SeqAssumption DEF SeqNumbers
  <1>5. ~(qa >= qb + 2)
    <2> SUFFICES ASSUME qa >= qb + 2 PROVE FALSE
      OBVIOUS
    <2>1. SeqMod * qa >= SeqMod * (qb + 2)
      BY <1>1, SeqAssumption
    <2>2. SeqMod * (qb + 2) = SeqMod * qb + 2 * SeqMod
      BY <1>1, SeqAssumption
    <2> QED
      BY <2>1, <2>2, <1>1, SeqAssumption DEF SeqNumbers
  <1>6. ~(qb >= qa + 2)
    <2> SUFFICES ASSUME qb >= qa + 2 PROVE FALSE
      OBVIOUS
    <2>1. SeqMod * qb >= SeqMod * (qa + 2)
      BY <1>1, SeqAssumption
    <2>2. SeqMod * (qa + 2) = SeqMod * qa + 2 * SeqMod
      BY <1>1, SeqAssumption
    <2> QED
      BY <2>1, <2>2, <1>1, SeqAssumption DEF SeqNumbers
  <1> QED
    BY <1>1, <1>2, <1>3, <1>4, <1>5, <1>6

\* CompareSequence tells past, present and future apart for any two positions
\* at most HalfWindow apart, wherever the counter wraps between them.
THEOREM CompareIsOrder ==
    ASSUME NEW expected \in Nat, NEW actual \in Nat,
           actual - expected <= HalfWindow, expected - actual <= HalfWindow
    PROVE  /\ CompareSequence(Wrap(expected), Wrap(actual)) = "Current" <=> actual = expected
           /\ CompareSequence(Wrap(expected), Wrap(actual)) = "Future" <=> actual > expected
           /\ CompareSequence(Wrap(expected), Wrap(actual)) = "Past" <=> actual < expected
  <1> DEFINE diff == Wrap(actual) - Wrap(expected)
             dist == actual - expected
  <1>1. diff \in {dist, dist - SeqMod, dist + SeqMod}
    BY WrapDistance
  <1>2. diff \in Int /\ diff < SeqMod /\ -diff < SeqMod
    BY WrapDivision, SeqAssumption DEF SeqNumbers
  <1>3. CompareSequence(Wrap(expected), Wrap(actual)) =
          CASE diff = 0 -> "Current"
            [] diff > HalfWindow -> "Past"
            [] diff > 0 /\ diff <= HalfWindow -> "Future"
            [] diff < -HalfWindow -> "Future"
            [] diff < 0 /\ diff >= -HalfWindow -> "Past"
    BY DEF CompareSequence
  <1>4. /\ dist \in Int /\ dist <= HalfWindow /\ -dist <= HalfWindow
        /\ (dist = 0 <=> actual = expected)
        /\ (dist > 0 <=> actual > expected)
        /\ (dist < 0 <=> actual < expected)
    OBVIOUS
  <1> HIDE DEF diff, dist
  <1>5. CASE diff = dist
    BY <1>2, <1>3, <1>4, <1>5, SeqAssumption
  <1>6. CASE diff = dist - SeqMod
    BY <1>2, <1>3, <1>4, <1>6, SeqAssumption
  <1>7. CASE diff = dist + SeqMod
    BY <1>2, <1>3, <1>4, <1>7, SeqAssumption
  <1> QED
    BY <1>1, <1>5, <1>6, <1>7

\* Two positions at most HalfWindow apart with the same number are the same.
LEMMA WrapInjective ==
    ASSUME NEW a \in Nat, NEW b \in Nat, a - b <= HalfWindow, b - a <= HalfWindow,
           Wrap(a) = Wrap(b)
    PROVE  a = b
  <1>1. Wrap(a) - Wrap(b) = 0
    BY WrapDivision DEF SeqNumbers
  <1> QED
    BY <1>1, WrapDistance, SeqAssumption

\* Incrementing a wrapped number wraps the incremented one (sequence_out++).
LEMMA WrapSum ==
    ASSUME NEW n \in Nat, NEW k \in Nat
    PROVE  (Wrap(n) + k) % SeqMod = Wrap(n + k)
  <1> DEFINE q == n \div SeqMod
             r == Wrap(n)
             q1 == (r + k) \div SeqMod
             r1 == (r + k) % SeqMod
             q2 == (n + k) \div SeqMod
             r2 == Wrap(n + k)
  <1>1. r \in SeqNumbers /\ q \in Nat /\ n = SeqMod * q + r
    BY WrapDivision
  <1>2. r + k \in Nat
    BY <1>1 DEF SeqNumbers
  <1>3. Wrap(r + k) \in SeqNumbers /\ q1 \in Nat /\ r + k = SeqMod * q1 + Wrap(r + k)
    BY <1>2, WrapDivision
  <1>4. r1 = Wrap(r + k)
    BY DEF Wrap
  <1>5. r2 \in SeqNumbers /\ q2 \in Nat /\ n + k = SeqMod * q2 + r2
    BY WrapDivision
  <1> HIDE DEF q, r, q1, r1, q2, r2
  <1>6. /\ SeqMod * (q + q1) = SeqMod * q + SeqMod * q1
        /\ SeqMod * q \in Nat /\ SeqMod * q1 \in Nat /\ SeqMod * q2 \in Nat
    BY <1>1, <1>3, <1>5, SeqAssumption
  <1>7. SeqMod * (q + q1) + r1 = SeqMod * q2 + r2
    <2> DEFINE x == SeqMod * q
               y == SeqMod * q1
               z == SeqMod * q2
    <2>1. x \in Nat /\ y \in Nat /\ z \in Nat /\ n = x + r /\ r + k = y + r1 /\ n + k = z + r2
      BY <1>1, <1>3, <1>4, <1>5, <1>6
    <2>2. r \in Nat /\ r1 \in Nat /\ r2 \in Nat
      BY <1>1, <1>3, <1>4, <1>5, SeqAssumption DEF SeqNumbers
    <2> HIDE DEF x, y, z
    <2>3. (x + y) + r1 = z + r2
      BY <2>1, <2>2
    <2> QED
      BY <2>3, <1>6 DEF x, y, z
  <1>8. q + q1 = q2
    <2> DEFINE s == q + q1
    <2>1. s \in Nat /\ SeqMod * s + r1 = SeqMod * q2 + r2
      BY <1>1, <1>3, <1>7
    <2> HIDE DEF s
    <2>2. ~(s >= q2 + 1)
      <3> SUFFICES ASSUME s >= q2 + 1 PROVE FALSE
        OBVIOUS
      <3>1. SeqMod * s >= SeqMod * (q2 + 1) /\ SeqMod * (q2 + 1) = SeqMod * q2 + SeqMod
        BY <2>1, <1>5, SeqAssumption
      <3> QED
        BY <3>1, <2>1, <1>3, <1>4, <1>5, SeqAssumption DEF SeqNumbers
    <2>3. ~(q2 >= s + 1)
      <3> SUFFICES ASSUME q2 >= s + 1 PROVE FALSE
        OBVIOUS
      <3>1. SeqMod * q2 >= SeqMod * (s + 1) /\ SeqMod * (s + 1) = SeqMod * s + SeqMod
        BY <2>1, <1>5, SeqAssumption
      <3> QED
        BY <3>1, <2>1, <1>3, <1>4, <1>5, SeqAssumption DEF SeqNumbers
    <2> QED
      BY <2>1, <2>2, <2>3, <1>5 DEF s
  <1>9. r1 = r2
    BY <1>3, <1>4, <1>5, <1>7, <1>8, SeqAssumption DEF SeqNumbers
  <1> QED
    BY <1>9 DEF r, r1, r2

\* Decrementing a wrapped number wraps the decremented one (sequence_in - 1).
LEMMA WrapPredecessor ==
    ASSUME NEW n \in Nat, n > 0
    PROVE  (Wrap(n) - 1) % SeqMod = Wrap(n - 1)
  <1>1. n - 1 \in Nat
    OBVIOUS
  <1>2. Wrap(n) = (Wrap(n - 1) + 1) % SeqMod
    <2>1. (Wrap(n - 1) + 1) % SeqMod = Wrap((n - 1) + 1)
      BY <1>1, WrapSum
    <2> QED
      BY <2>1
  <1>3. Wrap(n - 1) \in SeqNumbers
    BY <1>1, WrapDivision
  <1> DEFINE w == Wrap(n - 1)
  <1> HIDE DEF w
  <1>4. CASE w = SeqMod - 1
    <2>1. (w + 1) % SeqMod = 0 /\ (0 - 1) % SeqMod = SeqMod - 1
      BY <1>4, SeqAssumption, SMT
    <2> QED
      BY <2>1, <1>2, <1>4 DEF w
  <1>5. CASE w \in 0 .. SeqMod - 2
    <2>1. (w + 1) % SeqMod = w + 1 /\ w % SeqMod = w
      BY <1>5, SeqAssumption, SMT
    <2>2. (w + 1) - 1 = w
      BY <1>5, SeqAssumption
    <2> QED
      BY <2>1, <2>2, <1>2 DEF w
  <1> QED
    BY <1>3, <1>4, <1>5, SeqAssumption DEF w, SeqNumbers
===============================================================================
