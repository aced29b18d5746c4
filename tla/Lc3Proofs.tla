----------------------------- MODULE Lc3Proofs -----------------------------
(***************************************************************************)
(* Proofs about Lc3Frame: whatever bytes arrive, what the decoder hands on *)
(* to the synthesis is within the tables and arrays it indexes, for any    *)
(* frames, tables and damage that satisfy SpectrumTables, SideTables and   *)
(* FrameData.                                                              *)
(*                                                                         *)
(* Loops are followed by the lemmas of Iteration, and every operator that  *)
(* reads or writes keeps a stream one.  Three things carry the argument.   *)
(* Pointers: reads and writes, carries and the flush included, leave both  *)
(* ends within the buffer and the range of the arithmetic coder in its     *)
(* sixteen to twenty-four bits.  Pulses: an index below the number of      *)
(* vectors tells one that has all the pulses of its shape.  Coefficients:  *)
(* fourteen planes and two bits are sixteen, and the plane that lsb mode   *)
(* adds is added only to values that left room for it.                     *)
(***************************************************************************)
EXTENDS Lc3Frame, Iteration, FiniteSetTheorems

-----------------------------------------------------------------------------
(* Arithmetic                                                              *)

LEMMA Powers ==
    ASSUME NEW k \in 0..30
    PROVE  2^k \in Nat \ {0} /\ \A j \in 0..30 : j = k + 1 => 2^j = 2 * 2^k
  <1>0. CASE k = 0 BY <1>0
  <1>1. CASE k = 1 BY <1>1
  <1>2. CASE k = 2 BY <1>2
  <1>3. CASE k = 3 BY <1>3
  <1>4. CASE k = 4 BY <1>4
  <1>5. CASE k = 5 BY <1>5
  <1>6. CASE k = 6 BY <1>6
  <1>7. CASE k = 7 BY <1>7
  <1>8. CASE k = 8 BY <1>8
  <1>9. CASE k = 9 BY <1>9
  <1>10. CASE k = 10 BY <1>10
  <1>11. CASE k = 11 BY <1>11
  <1>12. CASE k = 12 BY <1>12
  <1>13. CASE k = 13 BY <1>13
  <1>14. CASE k = 14 BY <1>14
  <1>15. CASE k = 15 BY <1>15
  <1>16. CASE k = 16 BY <1>16
  <1>17. CASE k = 17 BY <1>17
  <1>18. CASE k = 18 BY <1>18
  <1>19. CASE k = 19 BY <1>19
  <1>20. CASE k = 20 BY <1>20
  <1>21. CASE k = 21 BY <1>21
  <1>22. CASE k = 22 BY <1>22
  <1>23. CASE k = 23 BY <1>23
  <1>24. CASE k = 24 BY <1>24
  <1>25. CASE k = 25 BY <1>25
  <1>26. CASE k = 26 BY <1>26
  <1>27. CASE k = 27 BY <1>27
  <1>28. CASE k = 28 BY <1>28
  <1>29. CASE k = 29 BY <1>29
  <1>30. CASE k = 30 BY <1>30
  <1> QED BY <1>0, <1>1, <1>2, <1>3, <1>4, <1>5, <1>6, <1>7, <1>8, <1>9, <1>10, <1>11, <1>12, <1>13,
             <1>14, <1>15, <1>16, <1>17, <1>18, <1>19, <1>20, <1>21, <1>22, <1>23, <1>24, <1>25, <1>26, <1>27, <1>28, <1>29, <1>30

LEMMA Division ==
    ASSUME NEW x \in Int, NEW d \in Nat \ {0}
    PROVE  /\ x \div d \in Int /\ x % d \in 0..d - 1 /\ x = d * (x \div d) + (x % d)
           /\ x >= 0 => x \div d >= 0 /\ x \div d <= x
           /\ \A k \in Int : x < k * d => x \div d < k
  OBVIOUS

LEMMA Halves == \A x \in Int : x % 2 \in {0, 1}
  OBVIOUS

LEMMA Products ==
    ASSUME NEW a \in Nat, NEW b \in Nat, NEW c \in Nat
    PROVE  /\ a * b \in Nat
           /\ b <= c => a * b <= a * c
           /\ a > 0 /\ b > 0 => a * b > 0 /\ a * b >= a
  OBVIOUS

\* The number of bits of a value below 2^30.
LEMMA BitLengths ==
    ASSUME NEW v \in Nat, v < 2^30
    PROVE  /\ BitLength(v) \in 0..30 /\ v < 2^BitLength(v)
           /\ BitLength(v) = 0 \/ 2^(BitLength(v) - 1) <= v
  <1> DEFINE Fits(n) == v < 2^n /\ (n = 0 \/ 2^(n - 1) <= v)
             A == {n \in 0..30 : v < 2^n => \E m \in 0..30 : Fits(m)}
  <1>1. 0 \in A
    <2>1. v < 2^0 => Fits(0)
      OBVIOUS
    <2> QED BY <2>1
  <1>2. ASSUME NEW n \in 0..30, n \in A, n < 30 PROVE n + 1 \in A
    <2>1. CASE v < 2^n
      BY <1>2, <2>1
    <2>2. CASE ~(v < 2^n)
      <3>1. PICK j : j = n + 1
        OBVIOUS
      <3>2. j \in 0..30 /\ j - 1 = n
        BY <1>2, <3>1
      <3>3. 2^n \in Nat
        BY <1>2, Powers
      <3>4. 2^(j - 1) = 2^n
        BY <3>2
      <3>5. v < 2^j => Fits(j)
        BY <3>3, <3>4, <2>2
      <3> HIDE DEF Fits
      <3> QED BY <3>1, <3>2, <3>5
    <2> QED BY <2>1, <2>2
  <1>3. \A n \in 0..30 : n \in A
    <2> HIDE DEF A
    <2> QED BY <1>1, <1>2, BoundedInduction
  <1>4. \E m \in 0..30 : Fits(m)
    BY <1>3
  <1>5. BitLength(v) = CHOOSE n \in 0..30 : Fits(n)
    BY DEF BitLength
  <1>6. BitLength(v) \in 0..30 /\ Fits(BitLength(v))
    <2> HIDE DEF Fits
    <2> QED BY <1>4, <1>5
  <1> QED BY <1>6

-----------------------------------------------------------------------------
(* Loops                                                                   *)

\* What the iterations of a loop stay in.
LEMMA LoopStays ==
    ASSUME NEW S, NEW n \in Nat, NEW after, after[0] \in S,
           \A i \in 1..n : after[i - 1] \in S => after[i] \in S
    PROVE  \A i \in 0..n : after[i] \in S
  <1> DEFINE A == {i \in 0..n : after[i] \in S}
  <1>1. 0 \in A
    OBVIOUS
  <1>2. ASSUME NEW i \in 0..n, i \in A, i < n PROVE i + 1 \in A
    <2>1. i + 1 \in 1..n /\ i + 1 - 1 = i
      BY <1>2
    <2> QED BY <1>2, <2>1
  <1>3. \A i \in 0..n : i \in A
    <2> HIDE DEF A
    <2> QED BY <1>1, <1>2, BoundedInduction
  <1> QED BY <1>3

-----------------------------------------------------------------------------
(* Bits                                                                    *)

LcBits ==
    [buffer : Seq(Nat), fw : Nat, bw : Nat, accu : Seq({0, 1}), nover : Nat, low : Nat,
     range : Nat, cache : Int, carry : {0, 1}, carryCount : Nat, reading : BOOLEAN,
     error : BOOLEAN]
Stream ==
    {b \in LcBits : /\ b.fw <= Len(b.buffer) /\ b.bw <= Len(b.buffer) /\ Len(b.accu) <= 32
                    /\ 2^16 <= b.range /\ b.range < 2^24}

LEMMA BitSequences ==
    ASSUME NEW v \in Int, NEW n \in Nat
    PROVE  BitsOf(v, n) \in Seq({0, 1}) /\ Len(BitsOf(v, n)) = n
  <1>1. \A i \in 1..n : Least(i - 1, 30) \in 0..30
    BY DEF Least
  <1>2. \A i \in 1..n : 2^Least(i - 1, 30) \in Nat \ {0}
    BY <1>1, Powers
  <1>3. \A i \in 1..n : v \div 2^Least(i - 1, 30) \in Int
    BY <1>2, Division
  <1>4. \A i \in 1..n : (v \div 2^Least(i - 1, 30)) % 2 \in {0, 1}
    BY <1>3, Halves
  <1> DEFINE bit(i) == (v \div 2^Least(i - 1, 30)) % 2
  <1>5. BitsOf(v, n) = [i \in 1..n |-> bit(i)]
    BY DEF BitsOf
  <1>6. \A i \in 1..n : bit(i) \in {0, 1}
    BY <1>4
  <1> HIDE DEF bit
  <1> QED BY <1>5, <1>6

LEMMA Values ==
    ASSUME NEW s \in Seq({0, 1})
    PROVE  ValueOf(s) \in Nat /\ (Len(s) = 1 => ValueOf(s) \in {0, 1})
  <1>1. PICK n : n = Len(s)
    OBVIOUS
  <1>2. n \in Nat /\ \A i \in 1..n : s[i] \in {0, 1}
    BY <1>1
  <1> DEFINE Body(f) == [i \in 0..n |-> IF i = n THEN 0 ELSE s[i + 1] + 2 * f[i + 1]]
             v == CHOOSE f : f = Body(f)
  <1>3. PICK step : step = [j \in 1..n |-> [x \in Nat |-> s[n - j + 1] + 2 * x]]
    OBVIOUS
  <1>4. step \in [1..n -> [Nat -> Nat]] /\ \A j \in 1..n, x \in Nat : step[j][x] = s[n - j + 1] + 2 * x
    <2>1. \A j \in 1..n : n - j + 1 \in 1..n
      BY <1>2
    <2>2. \A j \in 1..n, x \in Nat : s[n - j + 1] + 2 * x \in Nat
      BY <1>2, <2>1
    <2> QED BY <1>3, <2>2
  <1>5. PICK f : Run(f, Nat, n, 0, step)
    BY <1>2, <1>4, Iterate
  <1>6. PICK h : h = [i \in 0..n |-> f[n - i]]
    OBVIOUS
  <1>7. \A i \in 0..n : h[i] = IF i = n THEN 0 ELSE s[i + 1] + 2 * h[i + 1]
    <2> SUFFICES ASSUME NEW i \in 0..n PROVE h[i] = IF i = n THEN 0 ELSE s[i + 1] + 2 * h[i + 1]
      OBVIOUS
    <2>1. CASE i = n
      BY <1>2, <1>5, <1>6, <2>1 DEF Run
    <2>2. CASE i # n
      <3>1. n - i \in 1..n /\ n - i - 1 = n - (i + 1) /\ n - (n - i) + 1 = i + 1 /\ i + 1 \in 0..n
            /\ n - (i + 1) \in 0..n
        BY <1>2, <2>2
      <3>2. f[n - (i + 1)] \in Nat
        BY <1>5, <3>1 DEF Run
      <3>3. f[n - i] = step[n - i][f[n - (i + 1)]]
        BY <1>5, <3>1 DEF Run
      <3>4. f[n - i] = s[i + 1] + 2 * f[n - (i + 1)]
        BY <1>4, <3>1, <3>2, <3>3
      <3> QED BY <1>6, <2>2, <3>1, <3>4
    <2> QED BY <2>1, <2>2
  <1>8. h = Body(h)
    BY <1>6, <1>7
  <1>9. v = Body(v)
    <2> HIDE DEF Body
    <2> QED BY <1>8, Zenon
  <1>10. ValueOf(s) = v[0]
    BY <1>1 DEF ValueOf
  <1> HIDE DEF v
  <1>11. v[n] = 0 /\ \A i \in 0..n : i # n => v[i] = s[i + 1] + 2 * v[i + 1]
    BY <1>2, <1>9
  <1>12. PICK w : w = [j \in 0..n |-> v[n - j]]
    OBVIOUS
  <1>13. w[0] = 0 /\ w[n] = v[0]
    BY <1>2, <1>11, <1>12
  <1>14. ASSUME NEW j \in 1..n, w[j - 1] \in Nat PROVE w[j] \in Nat
    <2>1. n - j \in 0..n /\ n - j # n /\ n - j + 1 \in 1..n /\ w[j] = v[n - j] /\ w[j - 1] = v[n - j + 1]
      BY <1>2, <1>12
    <2>2. v[n - j] = s[n - j + 1] + 2 * v[n - j + 1]
      BY <1>11, <2>1
    <2> QED BY <1>2, <1>14, <2>1, <2>2
  <1>15. w[0] \in Nat
    BY <1>13
  <1>16. w[n] \in Nat
    <2>1. \A j \in 0..n : w[j] \in Nat
      BY <1>2, <1>14, <1>15, LoopStays
    <2> QED BY <1>2, <2>1
  <1>17. n = 1 => v[0] = s[1]
    BY <1>2, <1>11
  <1> QED BY <1>1, <1>2, <1>10, <1>13, <1>16, <1>17

LEMMA Elements ==
    ASSUME NEW S, NEW s \in Seq(S)
    PROVE  Len(s) \in Nat /\ \A i \in 1..Len(s) : s[i] \in S
  OBVIOUS

LEMMA StreamFields ==
    ASSUME NEW b \in Stream
    PROVE  /\ b \in LcBits
           /\ b.buffer \in Seq(Nat) /\ Len(b.buffer) \in Nat /\ \A i \in 1..Len(b.buffer) : b.buffer[i] \in Nat
           /\ b.fw \in 0..Len(b.buffer) /\ b.bw \in 0..Len(b.buffer)
           /\ b.accu \in Seq({0, 1}) /\ Len(b.accu) \in 0..32 /\ b.nover \in Nat /\ b.low \in Nat
           /\ b.range \in 2^16..2^24 - 1 /\ b.cache \in Int /\ b.carry \in {0, 1}
           /\ b.carryCount \in Nat /\ b.reading \in BOOLEAN /\ b.error \in BOOLEAN
  <1>1. /\ b \in LcBits /\ b.fw <= Len(b.buffer) /\ b.bw <= Len(b.buffer) /\ Len(b.accu) <= 32
        /\ 2^16 <= b.range /\ b.range < 2^24
    BY DEF Stream
  <1>2. /\ b.buffer \in Seq(Nat) /\ b.fw \in Nat /\ b.bw \in Nat /\ b.accu \in Seq({0, 1})
        /\ b.nover \in Nat /\ b.low \in Nat /\ b.range \in Nat /\ b.cache \in Int /\ b.carry \in {0, 1}
        /\ b.carryCount \in Nat /\ b.reading \in BOOLEAN /\ b.error \in BOOLEAN
    BY <1>1 DEF LcBits
  <1>3. Len(b.buffer) \in Nat /\ \A i \in 1..Len(b.buffer) : b.buffer[i] \in Nat
    BY <1>2, Elements
  <1>4. Len(b.accu) \in 0..32
    <2>1. Len(b.accu) \in Nat
      BY <1>2, Elements
    <2>2. Len(b.accu) <= 32
      BY <1>1
    <2>3. \A n \in Nat : n <= 32 => n \in 0..32
      OBVIOUS
    <2> QED BY <2>1, <2>2, <2>3, Zenon
  <1>5. b.fw \in 0..Len(b.buffer) /\ b.bw \in 0..Len(b.buffer) /\ b.range \in 2^16..2^24 - 1
    BY <1>1, <1>2, <1>3
  <1> QED BY <1>1, <1>2, <1>3, <1>4, <1>5, Zenon

LEMMA NewAccu ==
    ASSUME NEW b \in Stream, NEW accu \in Seq({0, 1}), Len(accu) <= 32
    PROVE  [b EXCEPT !.accu = accu] \in Stream /\ [b EXCEPT !.accu = accu].accu = accu
  <1>1. b \in LcBits /\ b.fw <= Len(b.buffer) /\ b.bw <= Len(b.buffer) /\ 2^16 <= b.range /\ b.range < 2^24
    BY DEF Stream
  <1>2. PICK c : c = [b EXCEPT !.accu = accu]
    OBVIOUS
  <1>3. c \in LcBits /\ c.accu = accu /\ c.fw = b.fw /\ c.bw = b.bw /\ c.range = b.range /\ c.buffer = b.buffer
    BY <1>1, <1>2 DEF LcBits
  <1>4. c \in Stream
    BY <1>1, <1>3 DEF Stream
  <1> QED BY <1>2, <1>3, <1>4

LEMMA NewBackwards ==
    ASSUME NEW b \in Stream, NEW bw \in 0..Len(b.buffer)
    PROVE  [b EXCEPT !.bw = bw] \in Stream
  <1>1. /\ b \in LcBits /\ b.fw <= Len(b.buffer) /\ Len(b.accu) <= 32 /\ 2^16 <= b.range /\ b.range < 2^24
        /\ bw \in Nat /\ bw <= Len(b.buffer)
    BY StreamFields DEF Stream
  <1>2. PICK c : c = [b EXCEPT !.bw = bw]
    OBVIOUS
  <1>3. c \in LcBits /\ c.accu = b.accu /\ c.fw = b.fw /\ c.bw = bw /\ c.range = b.range /\ c.buffer = b.buffer
    BY <1>1, <1>2 DEF LcBits
  <1>4. c \in Stream
    BY <1>1, <1>3 DEF Stream
  <1> QED BY <1>2, <1>4

LEMMA NewOver ==
    ASSUME NEW b \in Stream, NEW nover \in Nat
    PROVE  [b EXCEPT !.nover = nover] \in Stream
  <1>1. /\ b \in LcBits /\ b.fw <= Len(b.buffer) /\ b.bw <= Len(b.buffer) /\ Len(b.accu) <= 32
        /\ 2^16 <= b.range /\ b.range < 2^24
    BY DEF Stream
  <1>2. PICK c : c = [b EXCEPT !.nover = nover]
    OBVIOUS
  <1>3. c \in LcBits /\ c.accu = b.accu /\ c.fw = b.fw /\ c.bw = b.bw /\ c.range = b.range /\ c.buffer = b.buffer
    BY <1>1, <1>2 DEF LcBits
  <1>4. c \in Stream
    BY <1>1, <1>3 DEF Stream
  <1> QED BY <1>2, <1>4

LEMMA Joined ==
    ASSUME NEW S, NEW s \in Seq(S), NEW t \in Seq(S)
    PROVE  /\ s \o t \in Seq(S) /\ Len(s \o t) = Len(s) + Len(t)
           /\ \A i \in 1..Len(s) : (s \o t)[i] = s[i]
           /\ \A i \in 1..Len(t) : (s \o t)[Len(s) + i] = t[i]
  OBVIOUS

LEMMA AccuLoads ==
    ASSUME NEW b \in Stream
    PROVE  /\ AccuLoad(b) \in Stream
           /\ Len(AccuLoad(b).accu) >= Len(b.accu) /\ Len(AccuLoad(b).accu) > 0
           /\ Len(b.accu) = 0 => Len(AccuLoad(b).accu) = 32
  <1> DEFINE m == Len(b.accu)
             top == Len(b.buffer)
             room == 32 - m
             nbytes == Least(room \div 8, b.bw)
             missing == room - 8 * nbytes
             byte(i) == b.buffer[b.bw - (i \div 8)]
             bit(i) == BitsOf(byte(i), 8)[(i % 8) + 1]
             more == [i \in 1..8 * nbytes |-> bit(i - 1)]
             loaded == b.accu \o more
             n == m + 8 * nbytes
             zeros == [i \in 1..missing |-> 0]
             filled == loaded \o zeros
             next == [b EXCEPT !.bw = b.bw - nbytes, !.accu = loaded]
             over == Least(next.nover + missing, 32)
             last == [next EXCEPT !.nover = over, !.accu = filled]
  <1>1. AccuLoad(b) = IF missing >= 8 THEN last ELSE next
    BY DEF AccuLoad, AccuBits
  <1>2. m \in 0..32 /\ top \in Nat /\ b.bw \in 0..top
    BY StreamFields, Zenon
  <1>3. b.accu \in Seq({0, 1}) /\ \A i \in 1..top : b.buffer[i] \in Nat
    BY StreamFields, Zenon
  <1> HIDE DEF m, top
  <1>4. room \in 0..32 /\ nbytes \in 0..b.bw /\ missing \in 0..32
    BY <1>2 DEF Least
  <1>5. n + missing = 32 /\ n \in 0..32 /\ n >= m /\ (missing < 8 => n > 0 /\ (m = 0 => n = 32))
    <2> HIDE DEF nbytes
    <2> QED BY <1>2, <1>4
  <1> HIDE DEF nbytes, missing
  <1>6. \A i \in 1..8 * nbytes : bit(i - 1) \in {0, 1}
    <2> SUFFICES ASSUME NEW i \in 1..8 * nbytes PROVE bit(i - 1) \in {0, 1}
      OBVIOUS
    <2>1. b.bw - ((i - 1) \div 8) \in 1..top
      BY <1>2, <1>4
    <2>2. byte(i - 1) \in Int
      BY <1>3, <2>1
    <2> HIDE DEF byte
    <2>3. BitsOf(byte(i - 1), 8) \in Seq({0, 1}) /\ Len(BitsOf(byte(i - 1), 8)) = 8
      BY <2>2, BitSequences
    <2>4. ((i - 1) % 8) + 1 \in 1..8
      OBVIOUS
    <2> QED BY <2>3, <2>4
  <1> HIDE DEF bit
  <1>7. more \in Seq({0, 1}) /\ Len(more) = 8 * nbytes
    BY <1>4, <1>6
  <1> HIDE DEF more
  <1>8. loaded \in Seq({0, 1}) /\ Len(loaded) = n
    BY <1>3, <1>7, Joined DEF m
  <1>9. zeros \in Seq({0, 1}) /\ Len(zeros) = missing
    BY <1>4
  <1> HIDE DEF loaded, zeros
  <1>10. filled \in Seq({0, 1}) /\ Len(filled) = n + missing
    BY <1>8, <1>9, Joined
  <1>11. Len(filled) = 32 /\ Len(loaded) <= 32
    BY <1>5, <1>8, <1>10
  <1>12. b.bw - nbytes \in 0..top
    BY <1>2, <1>4
  <1>13. next \in Stream /\ next.accu = loaded
    BY <1>8, <1>11, <1>12, NewAccu, NewBackwards DEF top
  <1>14. over \in Nat
    <2>1. next.nover \in Nat
      BY <1>13, StreamFields
    <2> QED BY <1>4, <2>1 DEF Least
  <1> HIDE DEF filled, next, over
  <1>15. last \in Stream /\ last.accu = filled
    <2>1. Len(filled) <= 32
      BY <1>11
    <2> QED BY <1>10, <1>13, <1>14, <2>1, NewAccu, NewOver
  <1> HIDE DEF last
  <1>16. CASE missing >= 8
    <2>1. 32 >= m /\ 32 > 0
      BY <1>2
    <2>2. Len(filled) >= m /\ Len(filled) > 0
      BY <1>11, <2>1
    <2> QED BY <1>1, <1>11, <1>15, <1>16, <2>2 DEF m
  <1>17. CASE ~(missing >= 8)
    <2>1. n > 0 /\ (m = 0 => n = 32) /\ n >= m
      BY <1>4, <1>5, <1>17
    <2> QED BY <1>1, <1>8, <1>13, <1>17, <2>1 DEF m
  <1> QED BY <1>16, <1>17

\* The arithmetic decoder's registers.
LEMMA NewRegisters ==
    ASSUME NEW b \in Stream, NEW fw \in 0..Len(b.buffer), NEW low \in Nat,
           NEW range \in 2^16..2^24 - 1, NEW error \in BOOLEAN
    PROVE  /\ [b EXCEPT !.fw = fw] \in Stream /\ [b EXCEPT !.low = low] \in Stream
           /\ [b EXCEPT !.range = range] \in Stream /\ [b EXCEPT !.error = error] \in Stream
  <1>1. /\ b \in LcBits /\ b.fw <= Len(b.buffer) /\ b.bw <= Len(b.buffer) /\ Len(b.accu) <= 32
        /\ 2^16 <= b.range /\ b.range < 2^24 /\ fw \in Nat /\ fw <= Len(b.buffer)
        /\ range \in Nat /\ 2^16 <= range /\ range < 2^24
    BY StreamFields DEF Stream
  <1>2. [b EXCEPT !.fw = fw] \in Stream
    <2>1. PICK c : c = [b EXCEPT !.fw = fw]
      OBVIOUS
    <2>2. c \in LcBits /\ c.accu = b.accu /\ c.fw = fw /\ c.bw = b.bw /\ c.range = b.range /\ c.buffer = b.buffer
      BY <1>1, <2>1 DEF LcBits
    <2> QED BY <1>1, <2>1, <2>2 DEF Stream
  <1>3. [b EXCEPT !.low = low] \in Stream
    <2>1. PICK c : c = [b EXCEPT !.low = low]
      OBVIOUS
    <2>2. c \in LcBits /\ c.accu = b.accu /\ c.fw = b.fw /\ c.bw = b.bw /\ c.range = b.range /\ c.buffer = b.buffer
      BY <1>1, <2>1 DEF LcBits
    <2> QED BY <1>1, <2>1, <2>2 DEF Stream
  <1>4. [b EXCEPT !.range = range] \in Stream
    <2>1. PICK c : c = [b EXCEPT !.range = range]
      OBVIOUS
    <2>2. c \in LcBits /\ c.accu = b.accu /\ c.fw = b.fw /\ c.bw = b.bw /\ c.range = range /\ c.buffer = b.buffer
      BY <1>1, <2>1 DEF LcBits
    <2> QED BY <1>1, <2>1, <2>2 DEF Stream
  <1>5. [b EXCEPT !.error = error] \in Stream
    <2>1. PICK c : c = [b EXCEPT !.error = error]
      OBVIOUS
    <2>2. c \in LcBits /\ c.accu = b.accu /\ c.fw = b.fw /\ c.bw = b.bw /\ c.range = b.range /\ c.buffer = b.buffer
      BY <1>1, <2>1 DEF LcBits
    <2> QED BY <1>1, <2>1, <2>2 DEF Stream
  <1> QED BY <1>2, <1>3, <1>4, <1>5

\* Reading bytes leaves everything but the pointer and `low` alone.
LEMMA AcGets ==
    ASSUME NEW b \in LcBits, b.fw <= Len(b.buffer), NEW n \in 0..3
    PROVE  \E fw \in 0..Len(b.buffer), low \in Nat : AcGet(b, n) = [b EXCEPT !.fw = fw, !.low = low]
  <1>1. b.fw \in Nat /\ b.low \in Nat /\ b.buffer \in Seq(Nat)
    BY DEF LcBits
  <1>2. Len(b.buffer) \in Nat /\ \A i \in 1..Len(b.buffer) : b.buffer[i] \in Nat
    BY <1>1, Elements
  <1> DEFINE top == Len(b.buffer)
             byte(i) == IF b.fw + i <= top THEN b.buffer[b.fw + i] ELSE 0
             next(v, i) == ((v % 2^16) * 2^8) + byte(i)
             seq == [i \in 1..n |-> i]
             Body(f) == [i \in 0..Len(seq) |-> IF i = 0 THEN b.low ELSE next(f[i - 1], seq[i])]
             after == CHOOSE f : f = Body(f)
             fw == Least(b.fw + n, top)
  <1>3. Len(seq) = n /\ \A i \in 1..n : seq[i] = i
    OBVIOUS
  <1>4. AcGet(b, n) = [b EXCEPT !.fw = fw, !.low = after[Len(seq)]]
    BY DEF AcGet, Loop
  <1>5. top \in Nat /\ b.fw <= top
    BY <1>2
  <1>6. \A i \in 1..n : byte(i) \in Nat
    <2> SUFFICES ASSUME NEW i \in 1..n PROVE byte(i) \in Nat
      OBVIOUS
    <2>1. b.fw + i \in 1..top \/ ~(b.fw + i <= top)
      <3> HIDE DEF top
      <3> QED BY <1>1, <1>5
    <2> QED BY <1>2, <2>1
  <1> HIDE DEF seq, top
  <1>7. fw \in 0..top
    BY <1>1, <1>5 DEF Least
  <1>8. \A v \in Nat, i \in 1..n : next(v, i) \in Nat
    <2> HIDE DEF byte
    <2> QED BY <1>6
  <1> HIDE DEF next
  <1>9. PICK step : step = [i \in 1..n |-> [v \in Nat |-> next(v, i)]]
    OBVIOUS
  <1>10. step \in [1..n -> [Nat -> Nat]] /\ \A i \in 1..n, v \in Nat : step[i][v] = next(v, i)
    BY <1>8, <1>9
  <1>11. PICK f : Run(f, Nat, n, b.low, step)
    <2>1. n \in Nat
      OBVIOUS
    <2> QED BY <1>1, <1>10, <2>1, Iterate
  <1>12. f = Body(f)
    <2>1. f \in [0..n -> Nat] /\ f[0] = b.low /\ \A i \in 1..n : f[i - 1] \in Nat /\ f[i] = step[i][f[i - 1]]
      BY <1>11 DEF Run
    <2>2. \A i \in 1..n : f[i] = next(f[i - 1], seq[i])
      <3>1. \A i \in 1..n : seq[i] = i
        BY <1>3
      <3> QED BY <1>10, <2>1, <3>1
    <2> QED BY <1>3, <2>1, <2>2
  <1>13. after = Body(after)
    <2> HIDE DEF Body
    <2> QED BY <1>12, Zenon
  <1> HIDE DEF after
  <1>14. after[0] \in Nat /\ \A i \in 1..n : after[i] = next(after[i - 1], i)
    BY <1>1, <1>3, <1>13
  <1>15. \A i \in 0..n : after[i] \in Nat
    <2>1. \A i \in 1..n : after[i - 1] \in Nat => after[i] \in Nat
      BY <1>8, <1>14
    <2>2. n \in Nat
      OBVIOUS
    <2> QED BY <1>14, <2>1, <2>2, LoopStays
  <1>16. after[Len(seq)] \in Nat
    BY <1>3, <1>15
  <1> QED BY <1>4, <1>7, <1>16 DEF top

\* Plain bits: the value of one is a bit.
LEMMA GetsBits ==
    ASSUME NEW b \in Stream, NEW n \in 1..32
    PROVE  /\ GetBits(b, n).bits \in Stream /\ GetBits(b, n).value \in Nat
           /\ n = 1 => GetBits(b, n).value \in {0, 1}
  <1>1. PICK loaded : loaded = IF n <= Len(b.accu) THEN b ELSE AccuLoad(b)
    OBVIOUS
  <1>2. loaded \in Stream
    BY <1>1, AccuLoads
  <1>3. n = 1 => n <= Len(loaded.accu)
    <2>1. Len(AccuLoad(b).accu) > 0 /\ Len(AccuLoad(b).accu) \in Nat
      BY AccuLoads, StreamFields
    <2>2. \A k \in Nat : k > 0 => 1 <= k
      OBVIOUS
    <2> QED BY <1>1, <2>1, <2>2
  <1>4. loaded.accu \in Seq({0, 1}) /\ Len(loaded.accu) \in 0..32
    BY <1>2, StreamFields
  <1> DEFINE n1 == Len(loaded.accu)
             next == AccuLoad([loaded EXCEPT !.accu = <<>>])
             take(c, first, k) ==
                 Read([c EXCEPT !.accu = SubSeq(c.accu, k + 1, Len(c.accu))],
                      ValueOf(first \o SubSeq(c.accu, 1, k)))
  <1>5. GetBits(b, n) = IF n <= n1 THEN take(loaded, <<>>, n) ELSE take(next, loaded.accu, n - n1)
    BY <1>1 DEF GetBits
  <1>6. ASSUME NEW c \in Stream, NEW first \in Seq({0, 1}), NEW k \in 0..32, k <= Len(c.accu)
        PROVE  /\ take(c, first, k).bits \in Stream /\ take(c, first, k).value \in Nat
               /\ Len(first) = 0 /\ k = 1 => take(c, first, k).value \in {0, 1}
    <2>1. c.accu \in Seq({0, 1}) /\ Len(c.accu) \in 0..32
      BY StreamFields
    <2>2. PICK m : m = Len(c.accu)
      OBVIOUS
    <2>3. m \in 0..32 /\ k <= m
      BY <1>6, <2>1, <2>2
    <2>4. PICK rest, head : rest = SubSeq(c.accu, k + 1, m) /\ head = SubSeq(c.accu, 1, k)
      OBVIOUS
    <2>5. rest \in Seq({0, 1}) /\ Len(rest) = m - k
      BY <2>1, <2>2, <2>3, <2>4, SMTT(30)
    <2>6. head \in Seq({0, 1}) /\ Len(head) = k
      BY <2>1, <2>2, <2>3, <2>4
    <2>7. PICK all : all = first \o head
      OBVIOUS
    <2>8. all \in Seq({0, 1}) /\ Len(all) = Len(first) + k
      BY <2>6, <2>7, Joined
    <2>9. ValueOf(all) \in Nat /\ (Len(all) = 1 => ValueOf(all) \in {0, 1})
      BY <2>8, Values
    <2>10. [c EXCEPT !.accu = rest] \in Stream
      <3>1. m - k <= 32
        BY <2>3
      <3> QED BY <2>5, <3>1, NewAccu
    <2>11. take(c, first, k) = [bits |-> [c EXCEPT !.accu = rest], value |-> ValueOf(all)]
      BY <2>2, <2>4, <2>7 DEF Read
    <2>12. Len(first) = 0 /\ k = 1 => Len(all) = 1
      BY <2>8
    <2> HIDE DEF take
    <2> QED BY <2>9, <2>10, <2>11, <2>12
  <1> HIDE DEF take
  <1>7. CASE n <= n1
    <2>1. <<>> \in Seq({0, 1}) /\ Len(<<>>) = 0 /\ n \in 0..32
      OBVIOUS
    <2> QED BY <1>2, <1>5, <1>6, <1>7, <2>1
  <1>8. CASE ~(n <= n1)
    <2>1. <<>> \in Seq({0, 1}) /\ Len(<<>>) = 0 /\ 0 <= 32
      OBVIOUS
    <2>2. PICK c : c = [loaded EXCEPT !.accu = <<>>]
      OBVIOUS
    <2>3. c \in Stream /\ c.accu = <<>>
      <3>1. Len(<<>>) <= 32
        BY <2>1
      <3> QED BY <1>2, <2>1, <2>2, <3>1, NewAccu
    <2>4. next \in Stream /\ Len(next.accu) = 32
      BY <2>1, <2>2, <2>3, AccuLoads
    <2>5. n - n1 \in 0..32 /\ n # 1
      <3> HIDE DEF n1
      <3>1. n1 \in 0..32 /\ (n = 1 => n <= n1)
        BY <1>3, <1>4 DEF n1
      <3> QED BY <1>8, <3>1
    <2> HIDE DEF next, n1
    <2>6. n - n1 <= Len(next.accu)
      <3>1. PICK top : top = Len(next.accu)
        OBVIOUS
      <3>2. top = 32
        BY <2>4, <3>1
      <3> QED BY <2>5, <3>1, <3>2
    <2> QED BY <1>4, <1>5, <1>6, <1>8, <2>4, <2>5, <2>6
  <1> QED BY <1>7, <1>8

\* The products by which a symbol divides the range.
LEMMA Portions ==
    ASSUME NEW range \in 2^16..2^24 - 1, NEW r \in 1..Whole
    PROVE  /\ (range \div Whole) % 2^16 = range \div Whole /\ range \div Whole \in 64..2^14 - 1
           /\ (range \div Whole) * r \in 64..2^24 - 1
  <1>1. (range \div Whole) % 2^16 = range \div Whole /\ range \div Whole \in 64..2^14 - 1
    BY DEF Whole
  <1>2. PICK q : q = range \div Whole
    OBVIOUS
  <1>3. PICK p : p = q * r
    OBVIOUS
  <1>4. q \in Nat /\ 64 <= q /\ q <= 2^14 - 1 /\ r \in Nat /\ 0 < r /\ r <= Whole /\ Whole \in Nat /\ 0 < q
    BY <1>1, <1>2 DEF Whole
  <1>5. q * r \in Nat /\ q * r >= q /\ q * r <= q * Whole
    <2>1. q * r \in Nat /\ (r <= Whole => q * r <= q * Whole) /\ (q > 0 /\ r > 0 => q * r > 0 /\ q * r >= q)
      BY <1>4, Products, Zenon
    <2>2. q > 0 /\ r > 0
      BY <1>4
    <2> QED BY <1>4, <2>1, <2>2, Zenon
  <1>6. p \in Nat /\ p >= q /\ p <= q * Whole
    BY <1>3, <1>5, Zenon
  <1>7. p \in 64..2^24 - 1
    BY <1>4, <1>6 DEF Whole
  <1>8. p = (range \div Whole) * r
    BY <1>2, <1>3
  <1>9. (range \div Whole) * r \in 64..2^24 - 1
    BY <1>7, <1>8
  <1> QED BY <1>1, <1>9, Zenon

\* A range that has shrunk is shifted back to more than 16 bits.
LEMMA Renormalised ==
    ASSUME NEW range \in 64..2^24 - 1
    PROVE  /\ Shifts(range) \in 0..2 /\ range * 2^(8 * Shifts(range)) \in 2^16..2^24 - 1
  <1>1. CASE range < 2^8
    <2>1. Shifts(range) = 2
      BY <1>1 DEF Shifts
    <2>2. 2^(8 * Shifts(range)) = 65536
      <3>1. PICK k : k = 8 * Shifts(range)
        OBVIOUS
      <3>2. k = 16
        BY <2>1, <3>1
      <3>3. PICK w : w = 2^16
        OBVIOUS
      <3>4. 2^k = w
        BY <3>2, <3>3, Zenon
      <3>5. w = 65536
        BY <3>3, SMT
      <3> QED BY <3>1, <3>4, <3>5, SMT
    <2> QED BY <1>1, <2>1, <2>2
  <1>2. CASE ~(range < 2^8) /\ range < 2^16
    <2>1. Shifts(range) = 1
      BY <1>2 DEF Shifts
    <2>2. 2^(8 * Shifts(range)) = 256
      <3>1. PICK k : k = 8 * Shifts(range)
        OBVIOUS
      <3>2. k = 8
        BY <2>1, <3>1
      <3>3. PICK w : w = 2^8
        OBVIOUS
      <3>4. 2^k = w
        BY <3>2, <3>3, Zenon
      <3>5. w = 256
        BY <3>3, SMT
      <3> QED BY <3>1, <3>4, <3>5, SMT
    <2> QED BY <1>2, <2>1, <2>2
  <1>3. CASE ~(range < 2^8) /\ ~(range < 2^16)
    <2>1. Shifts(range) = 0
      BY <1>3 DEF Shifts
    <2>2. 2^(8 * Shifts(range)) = 1
      <3>1. 8 * Shifts(range) = 0 /\ 2^0 = 1
        BY <2>1
      <3> QED BY <3>1
    <2> QED BY <1>3, <2>1, <2>2
  <1> QED BY <1>1, <1>2, <1>3

\* A reader whose range a symbol has shrunk.
LEMMA Renormalises ==
    ASSUME NEW b \in LcBits, b.fw <= Len(b.buffer), b.bw <= Len(b.buffer), Len(b.accu) <= 32,
           b.range \in 64..2^24 - 1
    PROVE  AcReadRenorm(b) \in Stream
  <1> DEFINE shifts == Shifts(b.range)
             next == AcGet(b, shifts)
             last == [next EXCEPT !.range = next.range * 2^(8 * shifts)]
  <1>1. AcReadRenorm(b) = last
    BY DEF AcReadRenorm
  <1>2. shifts \in 0..3 /\ b.range * 2^(8 * shifts) \in 2^16..2^24 - 1
    <2>1. Shifts(b.range) \in 0..2 /\ b.range * 2^(8 * Shifts(b.range)) \in 2^16..2^24 - 1
      BY Renormalised, Zenon
    <2>2. \A k \in 0..2 : k \in 0..3
      OBVIOUS
    <2> QED BY <2>1, <2>2, Zenon
  <1> HIDE DEF shifts
  <1>3. PICK fw \in 0..Len(b.buffer), l \in Nat : next = [b EXCEPT !.fw = fw, !.low = l]
    BY <1>2, AcGets
  <1> HIDE DEF next
  <1>4. /\ next \in LcBits /\ next.fw = fw /\ next.bw = b.bw /\ next.buffer = b.buffer
        /\ next.accu = b.accu /\ next.range = b.range
    <2>1. fw \in Nat
      OBVIOUS
    <2> QED BY <1>3, <2>1 DEF LcBits
  <1>5. PICK r : r = next.range * 2^(8 * shifts)
    OBVIOUS
  <1>6. r \in Nat /\ 2^16 <= r /\ r < 2^24
    BY <1>2, <1>4, <1>5
  <1>7. /\ last \in LcBits /\ last.fw = fw /\ last.bw = b.bw /\ last.buffer = b.buffer
        /\ last.accu = b.accu /\ last.range = r
    BY <1>4, <1>5, <1>6 DEF LcBits
  <1> HIDE DEF last
  <1>8. fw <= Len(b.buffer)
    <2>1. Len(b.buffer) \in Nat
      BY Elements DEF LcBits
    <2> QED BY <2>1
  <1>9. last \in Stream
    BY <1>6, <1>7, <1>8 DEF Stream
  <1> QED BY <1>1, <1>9, Zenon

LEMMA Shares ==
    ASSUME NEW n \in 1..17, NEW model, IsModel(model, n)
    PROVE  /\ \A i \in 0..16 : model[i].low \in 0..Whole /\ model[i].range \in 0..Whole
           /\ \A i \in 0..16 : model[i].range > 0 <=> i < n
           /\ \A i \in 0..15 : model[i + 1].low = model[i].low + model[i].range
           /\ model[0].low = 0 /\ model[16].low + model[16].range = Whole
  <1>1. model \in [0..16 -> [low : 0..Whole, range : 0..Whole]]
    BY Zenon DEF IsModel
  <1>2. \A i \in 0..16 : model[i] \in [low : 0..Whole, range : 0..Whole]
    BY <1>1, Zenon
  <1>3. \A i \in 0..16 : model[i].low \in 0..Whole /\ model[i].range \in 0..Whole
    BY <1>2, Zenon
  <1> QED BY <1>3, Zenon DEF IsModel

\* The symbol at a point of the range is one that has a share of it.
LEMMA SymbolsAt ==
    ASSUME NEW range \in 64..2^14 - 1, NEW low \in Nat, low < range * Whole,
           NEW n \in 1..17, NEW model, IsModel(model, n), NEW s, s = SymbolAt(model, range, low)
    PROVE  /\ s \in 0..16 /\ s < n /\ model[s].range \in 1..Whole
           /\ range * model[s].low \in Nat /\ range * model[s].low <= low
  <1> DEFINE begin(i) == range * model[i].low
             Found(i, top) == begin(i) <= low /\ \A j \in i + 1 .. top : begin(j) > low
  <1>1. s = CHOOSE i \in 0..16 : Found(i, 16)
    BY DEF SymbolAt
  <1>2. \A i \in 0..16 : model[i].low \in 0..Whole /\ model[i].range \in 0..Whole
    BY Shares, Zenon
  <1>3. \A i \in 0..16 : model[i].range > 0 <=> i < n
    BY Shares, Zenon
  <1>4. \A i \in 0..15 : model[i + 1].low = model[i].low + model[i].range
    BY Shares, Zenon
  <1>5. model[0].low = 0 /\ model[16].low + model[16].range = Whole
    BY Shares, Zenon
  <1>6. \A i \in 0..16 : begin(i) \in Nat
    BY <1>2, Products
  <1>7. begin(0) = 0
    BY <1>5
  <1>8. \A i \in 0..16 : low < begin(i) + range * model[i].range \/ (i < 16 /\ begin(i + 1) <= low)
    <2> SUFFICES ASSUME NEW i \in 0..16
                 PROVE  low < begin(i) + range * model[i].range \/ (i < 16 /\ begin(i + 1) <= low)
      OBVIOUS
    <2>1. PICK l, r : l = model[i].low /\ r = model[i].range
      OBVIOUS
    <2>2. l \in Nat /\ r \in Nat /\ range * (l + r) = range * l + range * r
      BY <1>2, <2>1
    <2>3. range * l \in Nat /\ range * r \in Nat
      BY <2>2, Products
    <2>4. CASE i = 16
      <3>1. l + r = Whole
        BY <1>5, <2>1, <2>4
      <3> QED BY <2>1, <2>2, <3>1
    <2>5. CASE i # 16
      <3>1. begin(i + 1) = range * (l + r)
        BY <1>4, <2>1, <2>5
      <3> QED BY <2>1, <2>2, <2>3, <2>5, <3>1
    <2> QED BY <2>4, <2>5
  <1> HIDE DEF begin
  <1>9. \E i \in 0..16 : Found(i, 16)
    <2> DEFINE A == {k \in 0..16 : \E i \in 0..k : Found(i, k)}
    <2>1. 0 \in A
      BY <1>7
    <2>2. ASSUME NEW k \in 0..16, k \in A, k < 16 PROVE k + 1 \in A
      <3>1. PICK i \in 0..k : Found(i, k)
        BY <2>2
      <3>2. k + 1 \in 0..16
        BY <2>2
      <3>3. CASE begin(k + 1) <= low
        <4>1. Found(k + 1, k + 1)
          BY <3>2, <3>3
        <4> QED BY <3>2, <4>1
      <3>4. CASE ~(begin(k + 1) <= low)
        <4>1. begin(k + 1) > low
          BY <1>6, <3>2, <3>4
        <4>2. \A j \in i + 1 .. k + 1 : j \in i + 1 .. k \/ j = k + 1
          OBVIOUS
        <4>3. Found(i, k + 1)
          BY <3>1, <4>1, <4>2
        <4> QED BY <3>2, <4>3
      <3> QED BY <3>3, <3>4
    <2>3. \A k \in 0..16 : k \in A
      <3> HIDE DEF A
      <3> QED BY <2>1, <2>2, BoundedInduction
    <2> QED BY <2>3
  <1>10. s \in 0..16 /\ Found(s, 16)
    <2> HIDE DEF Found
    <2> QED BY <1>1, <1>9, Zenon
  <1>11. low < begin(s) + range * model[s].range
    <2>1. s < 16 => begin(s + 1) > low
      BY <1>10
    <2>2. s < 16 => begin(s + 1) \in Nat
      BY <1>6, <1>10
    <2> QED BY <1>8, <1>10, <2>1, <2>2
  <1>12. model[s].range # 0
    <2>1. CASE model[s].range = 0
      <3>1. range * model[s].range = 0
        BY <2>1
      <3>2. begin(s) \in Nat /\ begin(s) <= low
        BY <1>6, <1>10
      <3> QED BY <1>11, <3>1, <3>2
    <2> QED BY <2>1
  <1>13. model[s].range \in 1..Whole
    BY <1>2, <1>10, <1>12
  <1>14. s < n
    BY <1>3, <1>10, <1>13
  <1>15. begin(s) \in Nat /\ begin(s) <= low
    BY <1>6, <1>10
  <1> QED BY <1>10, <1>13, <1>14, <1>15 DEF begin

\* A symbol is one of those its model gives a share of the range.
LEMMA GetsSymbol ==
    ASSUME NEW b \in Stream, NEW n \in 1..17, NEW model, IsModel(model, n)
    PROVE  GetSymbol(b, model).bits \in Stream /\ GetSymbol(b, model).value \in 0..n - 1
  <1> DEFINE range == (b.range \div Whole) % 2^16
             error == b.error \/ b.low >= range * Whole
             low == IF error THEN 0 ELSE b.low
             s == SymbolAt(model, range, low)
             found == [b EXCEPT !.error = error, !.low = low - range * model[s].low,
                                !.range = range * model[s].range]
  <1>1. GetSymbol(b, model) = [bits |-> AcReadRenorm(found), value |-> s]
    BY DEF GetSymbol, Read
  <1>2. /\ b \in LcBits /\ b.range \in 2^16..2^24 - 1 /\ b.low \in Nat /\ b.error \in BOOLEAN
        /\ b.fw <= Len(b.buffer) /\ b.bw <= Len(b.buffer) /\ Len(b.accu) <= 32
    BY StreamFields DEF Stream
  <1>3. range \in 64..2^14 - 1
    <2>1. 1 \in 1..Whole
      BY DEF Whole
    <2> QED BY <1>2, <2>1, Portions
  <1>4. \A r \in 1..Whole : range * r \in 64..2^24 - 1
    BY <1>2, Portions
  <1> HIDE DEF range
  <1>5. low \in Nat /\ low < range * Whole
    <2>1. range * Whole \in Nat /\ range * Whole > 0
      BY <1>3 DEF Whole
    <2>2. PICK top : top = range * Whole
      OBVIOUS
    <2>3. top \in Nat /\ top > 0
      BY <2>1, <2>2, Zenon
    <2>4. low = IF b.error \/ b.low >= top THEN 0 ELSE b.low
      BY <2>2, Zenon DEF Whole
    <2> HIDE DEF low
    <2>5. low \in Nat /\ low < top
      BY <1>2, <2>3, <2>4
    <2> QED BY <2>2, <2>5, Zenon
  <1>6. error \in BOOLEAN
    BY <1>2
  <1> HIDE DEF low, error
  <1>7. /\ s \in 0..16 /\ s < n /\ model[s].range \in 1..Whole
        /\ range * model[s].low \in Nat /\ range * model[s].low <= low
    BY <1>3, <1>5, SymbolsAt
  <1> HIDE DEF s
  <1>8. PICK l, r : l = low - range * model[s].low /\ r = range * model[s].range
    OBVIOUS
  <1>9. l \in Nat /\ r \in 64..2^24 - 1
    <2>1. l \in Nat
      <3>1. \A x, y \in Nat : x <= y => y - x \in Nat
        OBVIOUS
      <3> QED BY <1>5, <1>7, <1>8, <3>1
    <2> QED BY <1>4, <1>7, <1>8, <2>1
  <1>10. /\ found \in LcBits /\ found.fw = b.fw /\ found.bw = b.bw /\ found.buffer = b.buffer
         /\ found.accu = b.accu /\ found.range = r
    <2>1. found = [b EXCEPT !.error = error, !.low = l, !.range = r]
      BY <1>8, Zenon
    <2>2. r \in Nat
      BY <1>9
    <2> HIDE DEF found
    <2> QED BY <1>2, <1>6, <1>9, <2>1, <2>2 DEF LcBits
  <1> HIDE DEF found
  <1>11. AcReadRenorm(found) \in Stream
    BY <1>2, <1>9, <1>10, Renormalises
  <1>12. s \in 0..n - 1
    BY <1>7
  <1> QED BY <1>1, <1>11, <1>12

-----------------------------------------------------------------------------
(* Fields                                                                  *)

\* A reader with the values it has read from it.
LEMMA GetsFields ==
    ASSUME NEW b \in Stream, NEW sizes \in Seq(1..32)
    PROVE  /\ GetFields(b, sizes).bits \in Stream
           /\ GetFields(b, sizes).value \in Seq(Nat)
           /\ Len(GetFields(b, sizes).value) = Len(sizes)
           /\ \A j \in 1..Len(sizes) : sizes[j] = 1 => GetFields(b, sizes).value[j] \in {0, 1}
  <1> DEFINE n == Len(sizes)
             next(a, k) == LET r == GetBits(a.bits, k) IN
                           [bits |-> r.bits, value |-> Append(a.value, r.value)]
             first == [bits |-> b, value |-> <<>>]
             Body(f) == [i \in 0..Len(sizes) |-> IF i = 0 THEN first ELSE next(f[i - 1], sizes[i])]
             after == CHOOSE f : f = Body(f)
             Sound(v, i) == Len(v) = i /\ \A j \in 1..i : sizes[j] = 1 => v[j] \in {0, 1}
             S == [i \in 0..n |-> {a \in [bits : Stream, value : Seq(Nat)] : Sound(a.value, i)}]
  <1>1. GetFields(b, sizes) = after[n]
    BY DEF GetFields, Loop, Read
  <1>2. n \in Nat /\ \A i \in 1..n : sizes[i] \in 1..32
    BY Elements
  <1>3. ASSUME NEW i \in 1..n, NEW a \in S[i - 1] PROVE next(a, sizes[i]) \in S[i]
    <2>1. i - 1 \in 0..n /\ i \in 0..n /\ i \in Nat
      BY <1>2
    <2>2. /\ a = [bits |-> a.bits, value |-> a.value] /\ a.bits \in Stream /\ a.value \in Seq(Nat)
          /\ Sound(a.value, i - 1)
      BY <1>3, <2>1
    <2>3. PICK r : r = GetBits(a.bits, sizes[i])
      OBVIOUS
    <2>4. sizes[i] \in 1..32
      BY <1>2
    <2>5. r.bits \in Stream /\ r.value \in Nat /\ (sizes[i] = 1 => r.value \in {0, 1})
      BY <2>2, <2>3, <2>4, GetsBits
    <2>6. PICK v : v = Append(a.value, r.value)
      OBVIOUS
    <2>7. v \in Seq(Nat) /\ Len(v) = i /\ v[i] = r.value /\ \A j \in 1..i - 1 : v[j] = a.value[j]
      BY <2>1, <2>2, <2>5, <2>6
    <2>8. \A j \in 1..i : j \in 1..i - 1 \/ j = i
      OBVIOUS
    <2>9. Sound(v, i)
      BY <2>2, <2>5, <2>7, <2>8
    <2>10. next(a, sizes[i]) = [bits |-> r.bits, value |-> v]
      BY <2>3, <2>6
    <2> HIDE DEF next, Sound
    <2> QED BY <2>1, <2>5, <2>7, <2>9, <2>10
  <1>4. first \in S[0]
    <2>1. <<>> \in Seq(Nat) /\ Sound(<<>>, 0)
      OBVIOUS
    <2>2. first = [bits |-> b, value |-> <<>>] /\ 0 \in 0..n
      BY <1>2
    <2> HIDE DEF Sound, first
    <2> QED BY <2>1, <2>2
  <1> HIDE DEF next, S, first
  <1>5. PICK step : step = [i \in 1..n |-> [a \in S[i - 1] |-> next(a, sizes[i])]]
    OBVIOUS
  <1>6. \A i \in 1..n : \A a \in S[i - 1] : step[i][a] = next(a, sizes[i])
    BY <1>5
  <1>7. PICK f : RunIn(f, S, n, first, step)
    BY <1>2, <1>3, <1>4, <1>6, IterateIn
  <1>8. f = Body(f)
    <2>1. f \in [0..n -> UNION {S[i] : i \in 0..n}] /\ f[0] = first
      BY <1>7 DEF RunIn
    <2>2. \A i \in 1..n : f[i] = next(f[i - 1], sizes[i])
      <3>1. \A i \in 1..n : f[i - 1] \in S[i - 1] /\ f[i] = step[i][f[i - 1]]
        BY <1>7 DEF RunIn
      <3> QED BY <1>6, <3>1, Zenon
    <2> QED BY <1>2, <2>1, <2>2
  <1>9. after = Body(after)
    <2> HIDE DEF Body
    <2> QED BY <1>8, Zenon
  <1> HIDE DEF after
  <1>10. after[0] = first /\ \A i \in 1..n : after[i] = next(after[i - 1], sizes[i])
    BY <1>2, <1>9
  <1>11. after[n] \in S[n]
    BY <1>2, <1>3, <1>4, <1>10, LeadsTo, SMTT(30)
  <1>12. after[n].bits \in Stream /\ after[n].value \in Seq(Nat) /\ Sound(after[n].value, n)
    BY <1>2, <1>11 DEF S
  <1> QED BY <1>1, <1>12

-----------------------------------------------------------------------------
(* Side data                                                               *)

LEMMA Spectra ==
    ASSUME NEW sr \in 0..4
    PROVE  NE(sr) \in 80..400 /\ NE(sr) % 2 = 0
  BY DEF NE

LEMMA GetsBw ==
    ASSUME NEW b \in Stream, NEW sr \in 0..4
    PROVE  BwGet(b, sr).bits \in Stream /\ BwGet(b, sr).value \in 0..sr
  <1>1. PICK n : n = BwNbits(sr)
    OBVIOUS
  <1>2. n \in 0..3
    BY <1>1 DEF BwNbits, Flag
  <1>3. PICK bw : bw = GetSome(b, n)
    OBVIOUS
  <1>4. bw.bits \in Stream /\ bw.value \in Nat
    <2>1. CASE n > 0
      <3>1. n \in 1..32 /\ bw = GetBits(b, n)
        BY <1>2, <1>3, <2>1 DEF GetSome
      <3> QED BY <3>1, GetsBits
    <2>2. CASE ~(n > 0)
      BY <1>3, <2>2 DEF GetSome, Read
    <2> QED BY <2>1, <2>2
  <1>5. BwGet(b, sr) = [bits |-> bw.bits, value |-> Least(bw.value, sr), valid |-> bw.value <= sr]
    BY <1>1, <1>3, Zenon DEF BwGet, Part
  <1>6. Least(bw.value, sr) \in 0..sr
    BY <1>4 DEF Least
  <1> QED BY <1>4, <1>5, <1>6

LEMMA Counts ==
    ASSUME NEW sr \in 0..4
    PROVE  NqNbits(sr) \in 4..8
  <1> DEFINE A == {32, 64, 128, 256}
             B == {n \in A : NE(sr) > n}
  <1>1. IsFiniteSet({}) /\ Cardinality({}) = 0
    BY FS_EmptySet
  <1>2. IsFiniteSet({32}) /\ Cardinality({32}) \in 0..1
    <2>1. {32} = {} \cup {32}
      OBVIOUS
    <2> QED BY <1>1, <2>1, FS_AddElement
  <1>3. IsFiniteSet({32, 64}) /\ Cardinality({32, 64}) \in 0..2
    <2>1. {32, 64} = {32} \cup {64}
      OBVIOUS
    <2> QED BY <1>2, <2>1, FS_AddElement
  <1>4. IsFiniteSet({32, 64, 128}) /\ Cardinality({32, 64, 128}) \in 0..3
    <2>1. {32, 64, 128} = {32, 64} \cup {128}
      OBVIOUS
    <2> QED BY <1>3, <2>1, FS_AddElement
  <1>5. IsFiniteSet(A) /\ Cardinality(A) \in 0..4
    <2>1. A = {32, 64, 128} \cup {256}
      OBVIOUS
    <2> QED BY <1>4, <2>1, FS_AddElement
  <1>6. B \subseteq A /\ NqNbits(sr) = 4 + Cardinality(B)
    BY DEF NqNbits
  <1> HIDE DEF A, B
  <1>7. Cardinality(B) \in Nat /\ Cardinality(B) <= Cardinality(A)
    BY <1>5, <1>6, FS_Subset, FS_CardinalityType
  <1> QED BY <1>5, <1>6, <1>7

LEMMA GetsSide ==
    ASSUME NEW b \in Stream, NEW sr \in 0..4
    PROVE  /\ GetSide(b, sr).bits \in Stream
           /\ GetSide(b, sr).value.nq \in 2..NE(sr) /\ GetSide(b, sr).value.nq % 2 = 0
           /\ GetSide(b, sr).value.lsbMode \in BOOLEAN
  <1>1. PICK sizes : sizes = <<NqNbits(sr), 1, 8>>
    OBVIOUS
  <1>2. sizes \in Seq(1..32) /\ Len(sizes) = 3
    <2>1. NqNbits(sr) \in 1..32
      BY Counts
    <2> QED BY <1>1, <2>1
  <1>3. PICK r : r = GetFields(b, sizes)
    OBVIOUS
  <1>4. r.bits \in Stream /\ r.value \in Seq(Nat) /\ Len(r.value) = 3
    BY <1>2, <1>3, GetsFields
  <1>5. PICK v : v = r.value[1]
    OBVIOUS
  <1>6. v \in Nat
    BY <1>4, <1>5
  <1>7. /\ GetSide(b, sr).bits = r.bits
        /\ GetSide(b, sr).value.nq = Least(2 * (v + 1), NE(sr))
        /\ GetSide(b, sr).value.lsbMode = (r.value[2] = 1)
    BY <1>1, <1>3, <1>5 DEF GetSide, Part
  <1>8. Least(2 * (v + 1), NE(sr)) \in 2..NE(sr) /\ Least(2 * (v + 1), NE(sr)) % 2 = 0
    <2>1. PICK ne : ne = NE(sr)
      OBVIOUS
    <2>2. ne \in 80..400 /\ ne % 2 = 0
      BY <2>1, Spectra
    <2> QED BY <1>6, <2>1, <2>2 DEF Least
  <1> QED BY <1>4, <1>7, <1>8

LEMMA GetsLtpf ==
    ASSUME NEW b \in Stream
    PROVE  LtpfGet(b).bits \in Stream
  <1>1. PICK sizes : sizes = <<1, 9>>
    OBVIOUS
  <1>2. sizes \in Seq(1..32)
    BY <1>1
  <1>3. LtpfGet(b).bits = GetFields(b, sizes).bits
    BY <1>1 DEF LtpfGet, Read
  <1> QED BY <1>2, <1>3, GetsFields

\* Filters have at most eight coefficients, of seventeen values.
LEMMA GetsFilter ==
    ASSUME NEW b \in Stream, NEW nbytes
    PROVE  GetFilter(b, nbytes).bits \in Stream /\ GetFilter(b, nbytes).value \in Filters
  <1>1. PICK present : present = GetBits(b, 1)
    OBVIOUS
  <1>2. present.bits \in Stream
    BY <1>1, GetsBits
  <1>3. PICK order : order = GetSymbol(present.bits, OrderModels[LpcWeighting(nbytes)])
    OBVIOUS
  <1>4. order.bits \in Stream /\ order.value \in 0..7
    <2>1. LpcWeighting(nbytes) \in BOOLEAN
      BY DEF LpcWeighting
    <2>2. IsModel(OrderModels[LpcWeighting(nbytes)], 8)
      BY <2>1, SideTables
    <2>3. 8 \in 1..17 /\ \A v : v \in 0..8 - 1 => v \in 0..7
      OBVIOUS
    <2> QED BY <1>2, <1>3, <2>2, <2>3, GetsSymbol, Zenon
  <1>5. PICK n : n = order.value + 1
    OBVIOUS
  <1>6. n \in 1..8
    BY <1>4, <1>5
  <1> DEFINE coeff(a, i) == LET c == GetSymbol(a.bits, CoeffModels[i]) IN
                            [bits |-> c.bits, value |-> Append(a.value, c.value - 8)]
             first == [bits |-> order.bits, value |-> <<>>]
             seq == [i \in 1..n |-> i]
             Body(f) == [i \in 0..Len(seq) |-> IF i = 0 THEN first ELSE coeff(f[i - 1], seq[i])]
             after == CHOOSE f : f = Body(f)
             S == [i \in 0..n |-> {a \in [bits : Stream, value : Seq(-8..8)] : Len(a.value) = i}]
  <1>7. GetFilter(b, nbytes) = IF present.value = 0 THEN [bits |-> present.bits, value |-> <<>>]
                               ELSE after[Len(seq)]
    BY <1>1, <1>3, <1>5 DEF GetFilter, Loop, Read
  <1>8. Len(seq) = n /\ \A i \in 1..n : seq[i] = i
    BY <1>6
  <1>9. ASSUME NEW i \in 1..n, NEW a \in S[i - 1] PROVE coeff(a, i) \in S[i]
    <2>1. i - 1 \in 0..n /\ i \in 0..n /\ i \in Nat /\ i \in 1..8
      BY <1>6
    <2>2. a.bits \in Stream /\ a.value \in Seq(-8..8) /\ Len(a.value) = i - 1
      BY <1>9, <2>1
    <2>3. PICK c : c = GetSymbol(a.bits, CoeffModels[i])
      OBVIOUS
    <2>4. c.bits \in Stream /\ c.value \in 0..16
      <3>1. IsModel(CoeffModels[i], 17)
        BY <2>1, SideTables
      <3>2. 17 \in 1..17 /\ \A v : v \in 0..17 - 1 => v \in 0..16
        OBVIOUS
      <3> QED BY <2>2, <2>3, <3>1, <3>2, GetsSymbol, Zenon
    <2>5. PICK v : v = Append(a.value, c.value - 8)
      OBVIOUS
    <2>6. c.value - 8 \in -8..8
      BY <2>4
    <2>7. v \in Seq(-8..8) /\ Len(v) = i
      BY <2>1, <2>2, <2>5, <2>6
    <2>8. coeff(a, i) = [bits |-> c.bits, value |-> v]
      BY <2>3, <2>5
    <2> HIDE DEF coeff
    <2> QED BY <2>1, <2>4, <2>7, <2>8
  <1>10. first \in S[0]
    <2>1. <<>> \in Seq(-8..8) /\ Len(<<>>) = 0 /\ 0 \in 0..n
      BY <1>6
    <2>2. first = [bits |-> order.bits, value |-> <<>>]
      OBVIOUS
    <2> HIDE DEF first
    <2> QED BY <1>4, <2>1, <2>2
  <1> HIDE DEF coeff, S, first, seq
  <1>11. PICK step : step = [i \in 1..n |-> [a \in S[i - 1] |-> coeff(a, i)]]
    OBVIOUS
  <1>12. \A i \in 1..n : \A a \in S[i - 1] : step[i][a] = coeff(a, i)
    BY <1>11
  <1>13. PICK f : RunIn(f, S, n, first, step)
    <2>1. n \in Nat
      BY <1>6
    <2> QED BY <1>9, <1>10, <1>12, <2>1, IterateIn
  <1>14. f = Body(f)
    <2>1. f \in [0..n -> UNION {S[i] : i \in 0..n}] /\ f[0] = first
      BY <1>13 DEF RunIn
    <2>2. \A i \in 1..n : f[i] = coeff(f[i - 1], seq[i])
      <3>1. \A i \in 1..n : f[i - 1] \in S[i - 1] /\ f[i] = step[i][f[i - 1]]
        BY <1>13 DEF RunIn
      <3>2. \A i \in 1..n : seq[i] = i
        BY <1>8
      <3> QED BY <1>12, <3>1, <3>2, Zenon
    <2> QED BY <1>8, <2>1, <2>2
  <1>15. after = Body(after)
    <2> HIDE DEF Body
    <2> QED BY <1>14, Zenon
  <1> HIDE DEF after
  <1>16. after[0] = first /\ \A i \in 1..n : after[i] = coeff(after[i - 1], i)
    BY <1>6, <1>8, <1>15
  <1>17. after[n] \in S[n]
    <2>1. n \in Nat
      BY <1>6
    <2> QED BY <1>9, <1>10, <1>16, <2>1, LeadsTo
  <1>18. after[n].bits \in Stream /\ after[n].value \in Seq(-8..8) /\ Len(after[n].value) = n
    BY <1>6, <1>17 DEF S
  <1>19. after[n].value \in Filters
    BY <1>6, <1>18 DEF Filters
  <1>20. <<>> \in Filters
    BY DEF Filters
  <1> QED BY <1>2, <1>7, <1>8, <1>18, <1>19, <1>20

LEMMA GetsTns ==
    ASSUME NEW b \in Stream, NEW nbytes, NEW bw
    PROVE  TnsGet(b, nbytes, bw).bits \in Stream /\ TnsGet(b, nbytes, bw).value \in Seq(Filters)
  <1>1. PICK n : n = NFilters(bw)
    OBVIOUS
  <1>2. n \in 1..2
    BY <1>1 DEF NFilters
  <1> DEFINE next(a, k) == LET r == GetFilter(a.bits, nbytes) IN
                           [bits |-> r.bits, value |-> Append(a.value, r.value)]
             first == [bits |-> b, value |-> <<>>]
             seq == [i \in 1..n |-> i]
             Body(f) == [i \in 0..Len(seq) |-> IF i = 0 THEN first ELSE next(f[i - 1], seq[i])]
             after == CHOOSE f : f = Body(f)
             All == [bits : Stream, value : Seq(Filters)]
             S == [i \in 0..n |-> All]
  <1>3. TnsGet(b, nbytes, bw) = after[Len(seq)]
    BY <1>1 DEF TnsGet, Loop, Read
  <1>4. Len(seq) = n /\ \A i \in 1..n : seq[i] = i
    BY <1>2
  <1>5. ASSUME NEW i \in 1..n, NEW a \in S[i - 1] PROVE next(a, i) \in S[i]
    <2>1. i - 1 \in 0..n /\ i \in 0..n
      BY <1>2
    <2>2. a.bits \in Stream /\ a.value \in Seq(Filters)
      BY <1>5, <2>1
    <2>3. PICK r : r = GetFilter(a.bits, nbytes)
      OBVIOUS
    <2>4. r.bits \in Stream /\ r.value \in Filters
      BY <2>2, <2>3, GetsFilter
    <2>5. next(a, i) = [bits |-> r.bits, value |-> Append(a.value, r.value)]
      BY <2>3
    <2> HIDE DEF next
    <2>6. next(a, i) \in All
      BY <2>2, <2>4, <2>5
    <2> QED BY <2>1, <2>6
  <1>6. first \in S[0]
    <2>1. <<>> \in Seq(Filters) /\ 0 \in 0..n
      BY <1>2
    <2> QED BY <2>1
  <1> HIDE DEF next, S, first, seq
  <1>7. PICK step : step = [i \in 1..n |-> [a \in S[i - 1] |-> next(a, i)]]
    OBVIOUS
  <1>8. \A i \in 1..n : \A a \in S[i - 1] : step[i][a] = next(a, i)
    BY <1>7
  <1>9. PICK f : RunIn(f, S, n, first, step)
    <2>1. n \in Nat
      BY <1>2
    <2> QED BY <1>5, <1>6, <1>8, <2>1, IterateIn
  <1>10. f = Body(f)
    <2>1. f \in [0..n -> UNION {S[i] : i \in 0..n}] /\ f[0] = first
      BY <1>9 DEF RunIn
    <2>2. \A i \in 1..n : f[i] = next(f[i - 1], seq[i])
      <3>1. \A i \in 1..n : f[i - 1] \in S[i - 1] /\ f[i] = step[i][f[i - 1]]
        BY <1>9 DEF RunIn
      <3>2. \A i \in 1..n : seq[i] = i
        BY <1>4
      <3> QED BY <1>8, <3>1, <3>2, Zenon
    <2> QED BY <1>4, <2>1, <2>2
  <1>11. after = Body(after)
    <2> HIDE DEF Body
    <2> QED BY <1>10, Zenon
  <1> HIDE DEF after
  <1>12. after[0] = first /\ \A i \in 1..n : after[i] = next(after[i - 1], i)
    BY <1>2, <1>4, <1>11
  <1>13. after[n] \in S[n]
    <2>1. n \in Nat
      BY <1>2
    <2> QED BY <1>5, <1>6, <1>12, <2>1, LeadsTo
  <1>14. after[n] \in All
    <2> HIDE DEF All
    <2>1. n \in 0..n
      BY <1>2
    <2> QED BY <1>13, <2>1 DEF S
  <1> QED BY <1>3, <1>4, <1>14

-----------------------------------------------------------------------------
(* Pairs                                                                   *)

Luts == [1..4 -> DOMAIN Models]

LEMMA GetsByLut ==
    ASSUME NEW b \in Stream, NEW lut \in Luts, NEW k \in Nat
    PROVE  /\ GetSymbol(b, Models[ModelAt(lut, k)]).bits \in Stream
           /\ GetSymbol(b, Models[ModelAt(lut, k)]).value \in 0..16
  <1>1. Least(k, 3) + 1 \in 1..4
    BY DEF Least
  <1>2. ModelAt(lut, k) \in DOMAIN Models
    BY <1>1 DEF ModelAt, Luts
  <1>3. IsModel(Models[ModelAt(lut, k)], 17)
    BY <1>2, SpectrumTables
  <1>4. 17 \in 1..17 /\ \A v : v \in 0..17 - 1 => v \in 0..16
    OBVIOUS
  <1> QED BY <1>3, <1>4, GetsSymbol, Zenon

\* The planes of a value: at most fourteen.
LEMMA PlanePowers ==
    ASSUME NEW k \in 0..14
    PROVE  2^k \in 1..2^14 /\ (k > 0 => 2^k % 2 = 0) /\ \A j \in 0..14 : j = k + 1 => 2^j = 2 * 2^k
  <1>0. CASE k = 0 BY <1>0
  <1>1. CASE k = 1 BY <1>1
  <1>2. CASE k = 2 BY <1>2
  <1>3. CASE k = 3 BY <1>3
  <1>4. CASE k = 4 BY <1>4
  <1>5. CASE k = 5 BY <1>5
  <1>6. CASE k = 6 BY <1>6
  <1>7. CASE k = 7 BY <1>7
  <1>8. CASE k = 8 BY <1>8
  <1>9. CASE k = 9 BY <1>9
  <1>10. CASE k = 10 BY <1>10
  <1>11. CASE k = 11 BY <1>11
  <1>12. CASE k = 12 BY <1>12
  <1>13. CASE k = 13 BY <1>13
  <1>14. CASE k = 14 BY <1>14
  <1> QED BY <1>0, <1>1, <1>2, <1>3, <1>4, <1>5, <1>6, <1>7, <1>8, <1>9, <1>10, <1>11, <1>12, <1>13, <1>14

\* A value of so many bits, of which in lsb mode the lowest is left out.
Held(v, planes, even) ==
    v \in Nat /\ v < 2^planes /\ (even => v % 2 = 0)

LEMMA NextPlane ==
    ASSUME NEW k \in 0..13, NEW even \in BOOLEAN, even => k > 0, NEW v, Held(v, k, even),
           NEW bit \in {0, 1}
    PROVE  Held(v + bit * 2^k, k + 1, even)
  <1>1. PICK p, q : p = 2^k /\ q = 2^(k + 1)
    OBVIOUS
  <1>2. p \in Nat /\ q = 2 * p /\ (k > 0 => p % 2 = 0)
    <2>1. k \in 0..14 /\ k + 1 \in 0..14
      OBVIOUS
    <2>2. 2^k \in 1..2^14 /\ (k > 0 => 2^k % 2 = 0) /\ \A j \in 0..14 : j = k + 1 => 2^j = 2 * 2^k
      BY <2>1, PlanePowers
    <2>3. PICK j : j = k + 1
      OBVIOUS
    <2>4. j \in 0..14 /\ 2^j = 2 * 2^k
      BY <2>1, <2>2, <2>3
    <2>5. q = 2^j
      BY <1>1, <2>3
    <2> QED BY <1>1, <2>2, <2>4, <2>5
  <1>3. v \in Nat /\ v < p /\ (even => v % 2 = 0)
    BY <1>1 DEF Held
  <1>4. CASE bit = 0
    <2>1. v + bit * 2^k = v
      BY <1>1, <1>2, <1>3, <1>4
    <2>2. v < q
      BY <1>2, <1>3
    <2> QED BY <1>1, <1>3, <2>1, <2>2 DEF Held
  <1>5. CASE bit = 1
    <2>1. v + bit * 2^k = v + p
      BY <1>1, <1>2, <1>5
    <2>2. v + p \in Nat /\ v + p < q /\ (even => (v + p) % 2 = 0)
      BY <1>2, <1>3
    <2> QED BY <1>1, <2>1, <2>2 DEF Held
  <1> QED BY <1>4, <1>5

Pair == [bits : Stream, symbol : 0..16, planes : 0..14, u : Nat, v : Nat]

LEMMA GetsPlanes ==
    ASSUME NEW b \in Stream, NEW lut \in Luts, NEW lsbMode \in BOOLEAN,
           NEW g, g = GetPlanes(b, lut, lsbMode)
    PROVE  /\ g \in Pair
           /\ \E even \in BOOLEAN : /\ Held(g.u, g.planes, even) /\ Held(g.v, g.planes, even)
                                    /\ lsbMode /\ g.symbol # 16 /\ g.planes > 0 => even
  <1> DEFINE s0 == GetSymbol(b, Models[ModelAt(lut, 0)])
             skipped == lsbMode /\ s0.value = Escape
             s1 == IF skipped THEN GetSymbol(s0.bits, Models[ModelAt(lut, 1)]) ELSE s0
             base == Flag(skipped)
             n == 14 - base
             plane(acc, k) ==
                 IF acc.symbol # Escape THEN acc
                 ELSE LET u == GetBits(acc.bits, 1)
                          v == GetBits(u.bits, 1)
                          s == GetSymbol(v.bits, Models[ModelAt(lut, k + 1)])
                      IN  [bits |-> s.bits, symbol |-> s.value, planes |-> k + 1,
                           u |-> acc.u + u.value * 2^k, v |-> acc.v + v.value * 2^k]
             first == [bits |-> s1.bits, symbol |-> s1.value, planes |-> base, u |-> 0, v |-> 0]
             seq == [i \in 1..n |-> base + i - 1]
             Body(f) == [i \in 0..Len(seq) |-> IF i = 0 THEN first ELSE plane(f[i - 1], seq[i])]
             after == CHOOSE f : f = Body(f)
             Sound(a, i) == /\ Held(a.u, a.planes, skipped) /\ Held(a.v, a.planes, skipped)
                            /\ a.planes <= base + i /\ (a.symbol = 16 => a.planes = base + i)
                            /\ lsbMode /\ ~skipped => a.symbol # 16 /\ a.planes = 0
             S == [i \in 0..n |-> {a \in Pair : Sound(a, i)}]
  <1>1. g = after[Len(seq)]
    BY DEF GetPlanes, Loop
  <1>2. s0.bits \in Stream /\ s0.value \in 0..16
    BY GetsByLut
  <1> HIDE DEF s0
  <1>3. s1.bits \in Stream /\ s1.value \in 0..16
    BY <1>2, GetsByLut
  <1>4. lsbMode /\ ~skipped => s1.value # 16
    BY DEF Escape
  <1>5. skipped \in BOOLEAN
    OBVIOUS
  <1> HIDE DEF s1, skipped
  <1>6. base \in 0..1 /\ n \in 13..14 /\ base + n = 14 /\ (skipped <=> base > 0)
    BY <1>5 DEF Flag
  <1> HIDE DEF base
  <1>7. Len(seq) = n /\ \A i \in 1..n : seq[i] = base + i - 1
    BY <1>6
  <1> HIDE DEF n
  <1>8. ASSUME NEW i \in 1..n, NEW a \in S[i - 1] PROVE plane(a, base + i - 1) \in S[i]
    <2>1. i - 1 \in 0..n /\ i \in 0..n
      BY <1>6
    <2>2. a \in Pair /\ Sound(a, i - 1)
      BY <1>8, <2>1
    <2>3. CASE a.symbol # 16
      <3>1. plane(a, base + i - 1) = a
        BY <2>3 DEF Escape
      <3>2. Sound(a, i)
        BY <1>6, <2>2, <2>3, SMTT(30) DEF Pair
      <3> QED BY <2>1, <2>2, <3>1, <3>2
    <2>4. CASE a.symbol = 16
      <3>1. PICK k : k = base + i - 1
        OBVIOUS
      <3>2. k \in 0..13 /\ k + 1 \in 0..14 /\ k + 1 = base + i /\ (skipped => k > 0) /\ a.planes = k /\ k + 1 \in Nat
        BY <1>6, <2>2, <2>4, <3>1
      <3>3. PICK u : u = GetBits(a.bits, 1)
        OBVIOUS
      <3>4. PICK v : v = GetBits(u.bits, 1)
        OBVIOUS
      <3>5. PICK s : s = GetSymbol(v.bits, Models[ModelAt(lut, k + 1)])
        OBVIOUS
      <3>6. /\ u.bits \in Stream /\ u.value \in {0, 1} /\ v.bits \in Stream /\ v.value \in {0, 1}
        <4>1. a.bits \in Stream /\ 1 \in 1..32
          BY <2>2 DEF Pair
        <4> QED BY <3>3, <3>4, <4>1, GetsBits
      <3>7. s.bits \in Stream /\ s.value \in 0..16
        BY <3>2, <3>5, <3>6, GetsByLut
      <3>8. PICK r : r = [bits |-> s.bits, symbol |-> s.value, planes |-> k + 1,
                          u |-> a.u + u.value * 2^k, v |-> a.v + v.value * 2^k]
        OBVIOUS
      <3>9. plane(a, k) = r
        BY <2>4, <3>3, <3>4, <3>5, <3>8 DEF Escape
      <3>10. Held(a.u + u.value * 2^k, k + 1, skipped) /\ Held(a.v + v.value * 2^k, k + 1, skipped)
        <4>1. Held(a.u, k, skipped) /\ Held(a.v, k, skipped)
          BY <2>2, <3>2
        <4> QED BY <1>5, <3>2, <3>6, <4>1, NextPlane
      <3>11. Held(r.u, r.planes, skipped) /\ Held(r.v, r.planes, skipped) /\ r.planes = k + 1
        BY <3>8, <3>10
      <3>12. r \in Pair
        <4>1. a.u + u.value * 2^k \in Nat /\ a.v + v.value * 2^k \in Nat
          BY <3>10 DEF Held
        <4> QED BY <3>2, <3>7, <3>8, <4>1 DEF Pair
      <3>13. ~(lsbMode /\ ~skipped)
        BY <2>2, <2>4
      <3>14. Sound(r, i)
        BY <3>2, <3>11, <3>13
      <3> HIDE DEF plane, Sound
      <3> QED BY <2>1, <3>1, <3>9, <3>12, <3>14
    <2> QED BY <2>3, <2>4
  <1>9. first \in S[0]
    <2>1. Held(0, base, skipped)
      <3>1. 2^base \in 1..2^14
        <4>1. base \in 0..14
          BY <1>6
        <4> QED BY <4>1, PlanePowers
      <3> QED BY <3>1 DEF Held
    <2>2. first \in Pair
      BY <1>3, <1>6 DEF Pair
    <2>3. Sound(first, 0)
      BY <1>3, <1>4, <1>6, <2>1
    <2>4. 0 \in 0..n
      BY <1>6
    <2> HIDE DEF first, Sound
    <2> QED BY <2>2, <2>3, <2>4
  <1> HIDE DEF plane, S, first, seq
  <1>10. PICK step : step = [i \in 1..n |-> [a \in S[i - 1] |-> plane(a, base + i - 1)]]
    OBVIOUS
  <1>11. \A i \in 1..n : \A a \in S[i - 1] : step[i][a] = plane(a, base + i - 1)
    BY <1>10
  <1>12. n \in Nat
    BY <1>6
  <1>13. PICK f : RunIn(f, S, n, first, step)
    BY <1>8, <1>9, <1>11, <1>12, IterateIn
  <1>14. f = Body(f)
    <2>1. f \in [0..n -> UNION {S[i] : i \in 0..n}] /\ f[0] = first
      BY <1>13 DEF RunIn
    <2>2. \A i \in 1..n : f[i] = plane(f[i - 1], seq[i])
      <3>1. \A i \in 1..n : f[i - 1] \in S[i - 1] /\ f[i] = step[i][f[i - 1]]
        BY <1>13 DEF RunIn
      <3>2. \A i \in 1..n : seq[i] = base + i - 1
        BY <1>7
      <3> QED BY <1>11, <3>1, <3>2, Zenon
    <2> QED BY <1>7, <2>1, <2>2
  <1>15. after = Body(after)
    <2> HIDE DEF Body
    <2> QED BY <1>14, Zenon
  <1> HIDE DEF after
  <1>16. after[0] = first /\ \A i \in 1..n : after[i] = plane(after[i - 1], base + i - 1)
    BY <1>7, <1>12, <1>15
  <1>17. after[n] \in S[n]
    BY <1>8, <1>9, <1>12, <1>16, LeadsTo
  <1>18. g \in Pair /\ Sound(g, n)
    <2>1. n \in 0..n /\ g = after[n]
      BY <1>1, <1>7, <1>12
    <2> HIDE DEF Sound
    <2> QED BY <1>17, <2>1 DEF S
  <1>19. lsbMode /\ g.symbol # 16 /\ g.planes > 0 => skipped
    <2>1. lsbMode /\ ~skipped => g.planes = 0
      BY <1>18, Zenon
    <2>2. \A p : p = 0 => ~(p > 0)
      OBVIOUS
    <2> QED BY <2>1, <2>2, Zenon
  <1> QED BY <1>5, <1>18, <1>19

\* What a pair of coefficients is within, and in lsb mode without.
Coefficient(x) == x \in Int /\ Abs(x) < 2^16
Even(x) == x % 2 = 0
Small(x, y) == Abs(x) < 4 /\ Abs(y) < 4

LEMMA GetsSign ==
    ASSUME NEW b \in Stream, NEW v \in Nat, v < 2^16
    PROVE  /\ GetSign(b, v).bits \in Stream /\ Coefficient(GetSign(b, v).value)
           /\ Abs(GetSign(b, v).value) = v
           /\ Even(v) => Even(GetSign(b, v).value)
  <1>1. PICK sign : sign = GetBits(b, 1)
    OBVIOUS
  <1>2. sign.bits \in Stream
    BY <1>1, GetsBits
  <1>3. PICK r : r = GetSign(b, v)
    OBVIOUS
  <1>4. r.bits \in Stream /\ r.value \in {v, -v}
    BY <1>1, <1>2, <1>3 DEF GetSign, Read
  <1>5. r.value \in Int /\ Abs(r.value) = v /\ (Even(v) => Even(r.value))
    BY <1>4 DEF Abs, Even
  <1> QED BY <1>3, <1>4, <1>5 DEF Coefficient

LEMMA GetsPair ==
    ASSUME NEW b \in Stream, NEW lut \in Luts, NEW context \in 0..255, NEW lsbMode \in BOOLEAN,
           NEW pair, pair = GetPair(b, lut, context, lsbMode), pair.valid
    PROVE  /\ pair.bits \in Stream /\ pair.state \in 0..255
           /\ Coefficient(pair.x) /\ Coefficient(pair.y)
           /\ lsbMode => Small(pair.x, pair.y) \/ (Even(pair.x) /\ Even(pair.y))
  <1>1. PICK g : g = GetPlanes(b, lut, lsbMode)
    OBVIOUS
  <1>2. PICK even \in BOOLEAN : /\ g \in Pair /\ Held(g.u, g.planes, even) /\ Held(g.v, g.planes, even)
                                /\ lsbMode /\ g.symbol # 16 /\ g.planes > 0 => even
    BY <1>1, GetsPlanes
  <1>3. PICK a, c, p : a = g.symbol % 4 /\ c = g.symbol \div 4 /\ p = 2^g.planes
    OBVIOUS
  <1>4. PICK x : x = GetSign(g.bits, g.u + a * p)
    OBVIOUS
  <1>5. PICK y : y = GetSign(x.bits, g.v + c * p)
    OBVIOUS
  <1>6. pair = [valid |-> g.symbol # Escape, bits |-> y.bits, x |-> x.value, y |-> y.value,
                state |-> NextState(context, g.planes, a, c)]
    BY <1>1, <1>3, <1>4, <1>5, Zenon DEF GetPair, PairOf
  <1>7. g.symbol \in 0..15 /\ g.bits \in Stream /\ g.planes \in 0..14
    <2>1. g.symbol # 16
      <3>1. PICK ok : ok = (g.symbol # Escape)
        OBVIOUS
      <3>2. PICK next : next = NextState(context, g.planes, a, c)
        OBVIOUS
      <3>3. pair = [valid |-> ok, bits |-> y.bits, x |-> x.value, y |-> y.value, state |-> next]
        BY <1>6, <3>1, <3>2, Zenon
      <3>4. pair.valid = ok
        BY <3>3
      <3>5. g.symbol # Escape
        BY <3>1, <3>4
      <3> QED BY <3>5, Zenon DEF Escape
    <2>2. g.symbol \in 0..16 /\ g.bits \in Stream /\ g.planes \in 0..14
      BY <1>2, Zenon DEF Pair
    <2> QED BY <2>1, <2>2
  <1>8. a \in 0..3 /\ c \in 0..3
    BY <1>3, <1>7
  <1>9. p \in 1..2^14 /\ (g.planes = 0 => p = 1) /\ (g.planes > 0 => p % 2 = 0)
    <2>1. 2^g.planes \in 1..2^14 /\ (g.planes > 0 => 2^g.planes % 2 = 0)
      BY <1>7, PlanePowers
    <2>2. g.planes = 0 => 2^g.planes = 1
      OBVIOUS
    <2> QED BY <1>3, <1>7, <2>1, <2>2
  <1>10. ASSUME NEW h, Held(h, g.planes, even), NEW m \in 0..3
         PROVE  /\ h + m * p \in Nat /\ h + m * p < 2^16 /\ (g.planes = 0 => h + m * p < 4)
                /\ even /\ g.planes > 0 => Even(h + m * p)
    <2>1. h \in Nat /\ h < p /\ (even => h % 2 = 0)
      BY <1>3, <1>10 DEF Held
    <2>2. m = 0 \/ m = 1 \/ m = 2 \/ m = 3
      OBVIOUS
    <2> QED BY <1>9, <2>1, <2>2 DEF Even
  <1>11. /\ g.u + a * p \in Nat /\ g.u + a * p < 2^16 /\ (g.planes = 0 => g.u + a * p < 4)
         /\ even /\ g.planes > 0 => Even(g.u + a * p)
    BY <1>2, <1>8, <1>10
  <1>12. /\ g.v + c * p \in Nat /\ g.v + c * p < 2^16 /\ (g.planes = 0 => g.v + c * p < 4)
         /\ even /\ g.planes > 0 => Even(g.v + c * p)
    BY <1>2, <1>8, <1>10
  <1>13. /\ x.bits \in Stream /\ Coefficient(x.value) /\ Abs(x.value) = g.u + a * p
         /\ Even(g.u + a * p) => Even(x.value)
    BY <1>4, <1>7, <1>11, GetsSign
  <1>14. /\ y.bits \in Stream /\ Coefficient(y.value) /\ Abs(y.value) = g.v + c * p
         /\ Even(g.v + c * p) => Even(y.value)
    BY <1>5, <1>12, <1>13, GetsSign
  <1>15. NextState(context, g.planes, a, c) \in 0..255
    <2>1. PICK k : k = Least(g.planes, 3)
      OBVIOUS
    <2>2. k \in 0..3
      BY <1>7, <2>1 DEF Least
    <2>3. PICK m : m = IF k > 1 THEN 12 + k ELSE 1 + (a + c) * (k + 1)
      OBVIOUS
    <2>4. m \in Nat
      <3>1. k > 1 \/ k = 0 \/ k = 1
        BY <2>2
      <3> QED BY <1>8, <2>2, <2>3, <3>1
    <2>5. NextState(context, g.planes, a, c) = (context * 16 + m) % 256
      BY <2>1, <2>3 DEF NextState
    <2> QED BY <2>4, <2>5
  <1>16. lsbMode => Small(x.value, y.value) \/ (Even(x.value) /\ Even(y.value))
    <2>1. CASE g.planes = 0
      BY <1>11, <1>12, <1>13, <1>14, <2>1 DEF Small
    <2>2. CASE g.planes # 0
      <3>1. g.planes > 0 /\ g.symbol # 16
        BY <1>7, <2>2
      <3> QED BY <1>2, <1>11, <1>12, <1>13, <1>14, <3>1
    <2> QED BY <2>1, <2>2
  <1> QED BY <1>6, <1>13, <1>14, <1>15, <1>16

-----------------------------------------------------------------------------
(* What fills the frame                                                    *)

LEMMA LeftBits ==
    ASSUME NEW b \in Stream
    PROVE  BitsLeft(b) \in Int
  <1>1. BitLength(b.range) \in Nat
    <2>1. b.range \in Nat /\ b.range < 2^30
      BY StreamFields
    <2> QED BY <2>1, BitLengths
  <1>2. PICK n : n = Len(b.accu)
    OBVIOUS
  <1>3. n \in 0..32 /\ b.fw \in Nat /\ b.bw \in Nat /\ b.nover \in Nat /\ b.carryCount \in Nat /\ b.cache \in Int
    BY <1>2, StreamFields DEF LcBits
  <1>4. PICK pending : pending = PendingBits(b)
    OBVIOUS
  <1>5. pending \in Int
    BY <1>1, <1>3, <1>4 DEF PendingBits
  <1>6. PICK over : over = BitsLeftOrOver(b)
    OBVIOUS
  <1>7. over \in Int
    <2>1. CASE b.reading
      <3>1. over = 8 * (b.bw - b.fw + (32 \div 8 + 3)) - (32 - n + b.nover + pending)
        BY <1>2, <1>4, <1>6, <2>1 DEF BitsLeftOrOver, AccuBits
      <3> QED BY <1>3, <1>5, <3>1
    <2>2. CASE ~b.reading
      <3>1. over = 8 * (b.bw - b.fw + 0) - (n + b.nover + pending)
        BY <1>2, <1>4, <1>6, <2>2 DEF BitsLeftOrOver
      <3> QED BY <1>3, <1>5, <3>1
    <2> QED BY <2>1, <2>2
  <1>8. BitsLeft(b) = Most(over, 0)
    BY <1>6 DEF BitsLeft
  <1> QED BY <1>7, <1>8 DEF Most

LEMMA GetsResidual ==
    ASSUME NEW b \in Stream, NEW nbits \in Int, NEW x \in Seq(Int)
    PROVE  GetResidual(b, nbits, x).bits \in Stream
  <1>1. PICK n : n = Len(x)
    OBVIOUS
  <1>2. n \in Nat
    BY <1>1
  <1> DEFINE next(a, i) ==
                 IF x[i] = 0 \/ Len(a.value) >= nbits THEN a
                 ELSE LET r == GetBits(a.bits, 1)
                      IN  [bits |-> r.bits, value |-> Append(a.value, <<i, r.value>>)]
             first == [bits |-> b, value |-> <<>>]
             seq == [i \in 1..n |-> i]
             Body(f) == [i \in 0..Len(seq) |-> IF i = 0 THEN first ELSE next(f[i - 1], seq[i])]
             after == CHOOSE f : f = Body(f)
             All == [bits : Stream, value : Seq(Nat \X Nat)]
             S == [i \in 0..n |-> All]
  <1>3. GetResidual(b, nbits, x) = after[Len(seq)]
    BY <1>1 DEF GetResidual, Loop, Read
  <1>4. Len(seq) = n /\ \A i \in 1..n : seq[i] = i
    BY <1>2
  <1>5. ASSUME NEW i \in 1..n, NEW a \in S[i - 1] PROVE next(a, i) \in S[i]
    <2>1. i - 1 \in 0..n /\ i \in 0..n /\ i \in Nat
      BY <1>2
    <2>2. a \in All /\ a.bits \in Stream /\ a.value \in Seq(Nat \X Nat)
      BY <1>5, <2>1
    <2>3. PICK r : r = GetBits(a.bits, 1)
      OBVIOUS
    <2>4. r.bits \in Stream /\ r.value \in Nat
      <3>1. 1 \in 1..32
        OBVIOUS
      <3> QED BY <2>2, <2>3, <3>1, GetsBits
    <2>5. next(a, i) \in {a, [bits |-> r.bits, value |-> Append(a.value, <<i, r.value>>)]}
      BY <2>3
    <2>6. Append(a.value, <<i, r.value>>) \in Seq(Nat \X Nat)
      <3>1. <<i, r.value>> \in Nat \X Nat
        BY <2>1, <2>4
      <3> QED BY <2>2, <3>1
    <2> HIDE DEF next
    <2>7. next(a, i) \in All
      <3>1. [bits |-> r.bits, value |-> Append(a.value, <<i, r.value>>)] \in All
        BY <2>4, <2>6
      <3> HIDE DEF All
      <3> QED BY <2>2, <2>5, <3>1
    <2> HIDE DEF All
    <2> QED BY <2>1, <2>7
  <1>6. first \in S[0]
    <2>1. <<>> \in Seq(Nat \X Nat) /\ 0 \in 0..n
      BY <1>2
    <2> QED BY <2>1
  <1> HIDE DEF next, S, first, seq
  <1>7. PICK step : step = [i \in 1..n |-> [a \in S[i - 1] |-> next(a, i)]]
    OBVIOUS
  <1>8. \A i \in 1..n : \A a \in S[i - 1] : step[i][a] = next(a, i)
    BY <1>7
  <1>9. PICK f : RunIn(f, S, n, first, step)
    BY <1>2, <1>5, <1>6, <1>8, IterateIn
  <1>10. f = Body(f)
    <2>1. f \in [0..n -> UNION {S[i] : i \in 0..n}] /\ f[0] = first
      BY <1>9 DEF RunIn
    <2>2. \A i \in 1..n : f[i] = next(f[i - 1], seq[i])
      <3>1. \A i \in 1..n : f[i - 1] \in S[i - 1] /\ f[i] = step[i][f[i - 1]]
        BY <1>9 DEF RunIn
      <3>2. \A i \in 1..n : seq[i] = i
        BY <1>4
      <3> QED BY <1>8, <3>1, <3>2, Zenon
    <2> QED BY <1>4, <2>1, <2>2
  <1>11. after = Body(after)
    <2> HIDE DEF Body
    <2> QED BY <1>10, Zenon
  <1> HIDE DEF after
  <1>12. after[0] = first /\ \A i \in 1..n : after[i] = next(after[i - 1], i)
    BY <1>2, <1>4, <1>11
  <1>13. after[n] \in S[n]
    <2>1. \A i \in 1..n : after[i - 1] \in S[i - 1] => after[i] \in S[i]
      BY <1>5, <1>12
    <2>2. after[0] \in S[0]
      BY <1>6, <1>12
    <2> QED BY <1>2, <2>1, <2>2, LeadsTo, Zenon
  <1>14. after[n] \in All
    <2> HIDE DEF All
    <2>1. n \in 0..n
      BY <1>2
    <2> QED BY <1>13, <2>1 DEF S
  <1> QED BY <1>3, <1>4, <1>14

\* Coefficients, of which the lowest bit may still be added to the even ones.
Coefficients(n) == {x \in Seq(Int) : Len(x) = n /\ \A i \in 1..n : Coefficient(x[i])}
Filling(n) == [bits : Stream, n : Int, x : Coefficients(n)]

LEMMA GetsLsbAt ==
    ASSUME NEW n \in Nat, NEW acc \in Filling(n), NEW i \in 1..n, Even(acc.x[i])
    PROVE  /\ GetLsbAt(acc, i) \in Filling(n)
           /\ \A j \in 1..n : j # i => GetLsbAt(acc, i).x[j] = acc.x[j]
  <1>1. /\ acc.bits \in Stream /\ acc.n \in Int /\ acc.x \in Seq(Int) /\ Len(acc.x) = n
        /\ \A j \in 1..n : Coefficient(acc.x[j])
    BY DEF Filling, Coefficients
  <1>2. acc = [bits |-> acc.bits, n |-> acc.n, x |-> acc.x]
    BY DEF Filling
  <1>3. PICK bit : bit = IF acc.n > 0 THEN GetBits(acc.bits, 1) ELSE Read(acc.bits, 0)
    OBVIOUS
  <1>4. PICK sign : sign = IF acc.n - 1 > 0 THEN GetBits(bit.bits, 1) ELSE Read(bit.bits, 2)
    OBVIOUS
  <1>5. 1 \in 1..32
    OBVIOUS
  <1>6. bit.bits \in Stream
    BY <1>1, <1>3, <1>5, GetsBits DEF Read
  <1>7. sign.bits \in Stream
    BY <1>4, <1>5, <1>6, GetsBits DEF Read
  <1>8. PICK away : away = IF acc.x[i] < 0 THEN acc.x[i] - 1 ELSE acc.x[i] + 1
    OBVIOUS
  <1>9. Coefficient(away)
    <2>1. PICK v : v = acc.x[i]
      OBVIOUS
    <2>2. v \in Int /\ Abs(v) < 2^16 /\ v % 2 = 0
      BY <1>1, <2>1 DEF Coefficient, Even
    <2>3. away = IF v < 0 THEN v - 1 ELSE v + 1
      BY <1>8, <2>1
    <2> QED BY <2>2, <2>3 DEF Abs, Coefficient
  <1>10. PICK unit : unit = CASE sign.value = 0 -> 1 [] sign.value = 1 -> -1 [] OTHER -> 0
    OBVIOUS
  <1>11. Coefficient(unit)
    <2>1. unit \in {-1, 0, 1}
      BY <1>10
    <2> QED BY <2>1 DEF Abs, Coefficient
  <1>12. PICK m : m = acc.n - 1
    OBVIOUS
  <1>13. m \in Int /\ m - 1 \in Int
    BY <1>1, <1>12
  <1>14. PICK r : r = GetLsbAt(acc, i)
    OBVIOUS
  <1>15. \/ r = [acc EXCEPT !.bits = bit.bits, !.n = m]
         \/ r = [acc EXCEPT !.bits = bit.bits, !.n = m, !.x[i] = away]
         \/ r = [acc EXCEPT !.bits = sign.bits, !.n = m - 1, !.x[i] = unit]
    BY <1>3, <1>4, <1>8, <1>10, <1>12, <1>14 DEF GetLsbAt
  <1>16. ASSUME NEW v, Coefficient(v)
         PROVE  /\ [acc.x EXCEPT ![i] = v] \in Coefficients(n)
                /\ \A j \in 1..n : j # i => [acc.x EXCEPT ![i] = v][j] = acc.x[j]
    <2>1. v \in Int
      BY <1>16 DEF Coefficient
    <2>2. PICK y : y = [acc.x EXCEPT ![i] = v]
      OBVIOUS
    <2>3. y \in Seq(Int) /\ Len(y) = n /\ \A j \in 1..n : y[j] = IF j = i THEN v ELSE acc.x[j]
      BY <1>1, <2>1, <2>2
    <2>4. \A j \in 1..n : Coefficient(y[j])
      BY <1>1, <1>16, <2>3
    <2> QED BY <2>2, <2>3, <2>4 DEF Coefficients
  <1>17. acc.x \in Coefficients(n)
    BY <1>1 DEF Coefficients
  <1>18. CASE r = [acc EXCEPT !.bits = bit.bits, !.n = m]
    <2>1. r = [bits |-> bit.bits, n |-> m, x |-> acc.x]
      BY <1>2, <1>18
    <2> QED BY <1>6, <1>13, <1>14, <1>17, <2>1 DEF Filling
  <1>19. CASE r = [acc EXCEPT !.bits = bit.bits, !.n = m, !.x[i] = away]
    <2>1. PICK y : y = [acc.x EXCEPT ![i] = away]
      OBVIOUS
    <2>2. r = [bits |-> bit.bits, n |-> m, x |-> y]
      BY <1>2, <1>19, <2>1
    <2>3. y \in Coefficients(n) /\ \A j \in 1..n : j # i => y[j] = acc.x[j]
      BY <1>9, <1>16, <2>1
    <2> QED BY <1>6, <1>13, <1>14, <2>2, <2>3 DEF Filling
  <1>20. CASE r = [acc EXCEPT !.bits = sign.bits, !.n = m - 1, !.x[i] = unit]
    <2>1. PICK y : y = [acc.x EXCEPT ![i] = unit]
      OBVIOUS
    <2>2. r = [bits |-> sign.bits, n |-> m - 1, x |-> y]
      BY <1>2, <1>20, <2>1
    <2>3. y \in Coefficients(n) /\ \A j \in 1..n : j # i => y[j] = acc.x[j]
      BY <1>11, <1>16, <2>1
    <2> QED BY <1>7, <1>13, <1>14, <2>2, <2>3 DEF Filling
  <1> QED BY <1>15, <1>18, <1>19, <1>20

\* The pairs of lsb mode: no plane of theirs, or the lowest one left out.
LeftOut(x) ==
    \A p \in 1..Len(x) \div 2 :
        Small(x[2 * p - 1], x[2 * p]) \/ (Even(x[2 * p - 1]) /\ Even(x[2 * p]))

LEMMA GetsLsb ==
    ASSUME NEW b \in Stream, NEW nbits \in Int, NEW m \in Nat, NEW x \in Coefficients(m), LeftOut(x)
    PROVE  GetLsb(b, nbits, x).bits \in Stream /\ GetLsb(b, nbits, x).x \in Coefficients(m)
  <1>1. x \in Seq(Int) /\ Len(x) = m
    BY DEF Coefficients
  <1>2. PICK n : n = m \div 2
    OBVIOUS
  <1>3. n \in Nat /\ \A p \in 1..n : 2 * p - 1 \in 1..m /\ 2 * p \in 1..m
    BY <1>2
  <1> DEFINE escaped(acc, p) == Most(Abs(acc.x[2 * p - 1]), Abs(acc.x[2 * p])) >= 4
             pair(acc, p) == IF acc.n > 0 /\ escaped(acc, p)
                             THEN GetLsbAt(GetLsbAt(acc, 2 * p - 1), 2 * p) ELSE acc
             first == [bits |-> b, n |-> nbits, x |-> x]
             seq == [p \in 1..n |-> p]
             Body(f) == [i \in 0..Len(seq) |-> IF i = 0 THEN first ELSE pair(f[i - 1], seq[i])]
             after == CHOOSE f : f = Body(f)
             Ahead(a, i) == \A j \in 2 * i + 1 .. m : a.x[j] = x[j]
             S == [i \in 0..n |-> {a \in Filling(m) : Ahead(a, i)}]
  <1>4. GetLsb(b, nbits, x) = after[Len(seq)]
    BY <1>1, <1>2 DEF GetLsb, Loop
  <1>5. Len(seq) = n /\ \A i \in 1..n : seq[i] = i
    BY <1>3
  <1>6. ASSUME NEW i \in 1..n, NEW a \in S[i - 1] PROVE pair(a, i) \in S[i]
    <2>1. i - 1 \in 0..n /\ i \in 0..n /\ 2 * i - 1 \in 1..m /\ 2 * i \in 1..m
      BY <1>3
    <2>2. a \in Filling(m) /\ Ahead(a, i - 1)
      BY <1>6, <2>1
    <2>3. a.x[2 * i - 1] = x[2 * i - 1] /\ a.x[2 * i] = x[2 * i]
      <3>1. 2 * i - 1 \in 2 * (i - 1) + 1 .. m /\ 2 * i \in 2 * (i - 1) + 1 .. m
        BY <2>1
      <3> QED BY <2>2, <3>1
    <2>4. Ahead(a, i)
      <3>1. \A j \in 2 * i + 1 .. m : j \in 2 * (i - 1) + 1 .. m
        BY <1>3
      <3> QED BY <2>2, <3>1
    <2>5. CASE ~(a.n > 0 /\ escaped(a, i))
      <3>1. pair(a, i) = a
        BY <2>5
      <3> QED BY <2>1, <2>2, <2>4, <3>1
    <2>6. CASE a.n > 0 /\ escaped(a, i)
      <3>1. Even(x[2 * i - 1]) /\ Even(x[2 * i])
        <4>1. ~Small(x[2 * i - 1], x[2 * i])
          <5>1. PICK u, v : u = Abs(x[2 * i - 1]) /\ v = Abs(x[2 * i])
            OBVIOUS
          <5>2. Most(u, v) >= 4
            BY <2>3, <2>6, <5>1
          <5>3. ~(u < 4 /\ v < 4)
            <6>1. u \in Int /\ v \in Int
              BY <1>1, <2>1, <5>1 DEF Abs
            <6> QED BY <5>2, <6>1 DEF Most
          <5> QED BY <5>1, <5>3 DEF Small
        <4>2. i \in 1..Len(x) \div 2
          BY <1>1, <1>2
        <4> QED BY <4>1, <4>2 DEF LeftOut
      <3>2. PICK c : c = GetLsbAt(a, 2 * i - 1)
        OBVIOUS
      <3>3. c \in Filling(m) /\ \A j \in 1..m : j # 2 * i - 1 => c.x[j] = a.x[j]
        BY <2>1, <2>2, <2>3, <3>1, <3>2, GetsLsbAt
      <3>4. PICK d : d = GetLsbAt(c, 2 * i)
        OBVIOUS
      <3>5. Even(c.x[2 * i])
        <4>1. 2 * i # 2 * i - 1
          BY <1>3
        <4> QED BY <2>1, <2>3, <3>1, <3>3, <4>1
      <3>6. d \in Filling(m) /\ \A j \in 1..m : j # 2 * i => d.x[j] = c.x[j]
        BY <2>1, <3>3, <3>4, <3>5, GetsLsbAt
      <3>7. Ahead(d, i)
        <4>1. \A j \in 2 * i + 1 .. m : j \in 1..m /\ j # 2 * i /\ j # 2 * i - 1
          BY <1>3
        <4> QED BY <2>4, <3>3, <3>6, <4>1
      <3>8. pair(a, i) = d
        BY <2>6, <3>2, <3>4
      <3> HIDE DEF pair
      <3> QED BY <2>1, <3>6, <3>7, <3>8
    <2> QED BY <2>5, <2>6
  <1>7. first \in S[0]
    <2>1. first \in Filling(m)
      BY DEF Filling
    <2>2. Ahead(first, 0) /\ 0 \in 0..n
      BY <1>3
    <2> HIDE DEF first
    <2> QED BY <2>1, <2>2
  <1> HIDE DEF pair, S, first, seq
  <1>8. PICK step : step = [i \in 1..n |-> [a \in S[i - 1] |-> pair(a, i)]]
    OBVIOUS
  <1>9. \A i \in 1..n : \A a \in S[i - 1] : step[i][a] = pair(a, i)
    BY <1>8
  <1>10. PICK f : RunIn(f, S, n, first, step)
    BY <1>3, <1>6, <1>7, <1>9, IterateIn
  <1>11. f = Body(f)
    <2>1. f \in [0..n -> UNION {S[i] : i \in 0..n}] /\ f[0] = first
      BY <1>10 DEF RunIn
    <2>2. \A i \in 1..n : f[i] = pair(f[i - 1], seq[i])
      <3>1. \A i \in 1..n : f[i - 1] \in S[i - 1] /\ f[i] = step[i][f[i - 1]]
        BY <1>10 DEF RunIn
      <3>2. \A i \in 1..n : seq[i] = i
        BY <1>5
      <3> QED BY <1>9, <3>1, <3>2, Zenon
    <2> QED BY <1>5, <2>1, <2>2
  <1>12. after = Body(after)
    <2> HIDE DEF Body
    <2> QED BY <1>11, Zenon
  <1> HIDE DEF after
  <1>13. after[0] = first /\ \A i \in 1..n : after[i] = pair(after[i - 1], i)
    BY <1>3, <1>5, <1>12
  <1>14. after[n] \in S[n]
    BY <1>3, <1>6, <1>7, <1>13, LeadsTo
  <1>15. after[n] \in Filling(m)
    <2>1. n \in 0..n
      BY <1>3
    <2> QED BY <1>14, <2>1 DEF S
  <1> QED BY <1>4, <1>5, <1>15 DEF Filling

-----------------------------------------------------------------------------
(* Pulse vectors                                                           *)

\* How many vectors of i places have p pulses, up to the sign of the last one.
Vectors == <<
    <<1, 1, 1, 1, 1, 1, 1, 1, 1, 1, 1>>,
    <<1, 2, 4, 6, 8, 10, 12, 14, 16, 18, 20>>,
    <<1, 3, 9, 19, 33, 51, 73, 99, 129, 163, 201>>,
    <<1, 4, 16, 44, 96, 180, 304, 476, 704, 996, 1360>>,
    <<1, 5, 25, 85, 225, 501, 985, 1765, 2945, 4645, 7001>>,
    <<1, 6, 36, 146, 456, 1182, 2668, 5418, 10128, 17718, 29364>>,
    <<1, 7, 49, 231, 833, 2471, 6321, 14407, 29953, 57799, 104881>>,
    <<1, 8, 64, 344, 1408, 4712, 13504, 34232, 78592, 166344, 329024>>,
    <<1, 9, 81, 489, 2241, 8361, 26577, 74313, 187137, 432073, 927441>>,
    <<1, 10, 100, 670, 3400, 14002, 48940, 149830, 411280, 1030490, 2390004>>,
    <<1, 11, 121, 891, 4961, 22363, 85305, 284075, 845185, 2286955, 5707449>>,
    <<1, 12, 144, 1156, 7008, 34332, 142000, 511380, 1640640, 4772780, 12767184>>,
    <<1, 13, 169, 1469, 9633, 50973, 227305, 880685, 3032705, 9446125, 26986089>>,
    <<1, 14, 196, 1834, 12936, 73542, 351820, 1459810, 5373200, 17852030, 54284244>>,
    <<1, 15, 225, 2255, 17025, 103503, 528865, 2340495, 9173505, 32398735, 104535009>>,
    <<1, 16, 256, 2736, 22016, 142544, 774912, 3644272, 15158272, 56730512, 193664256>> >>

\* The rows of the table by which vectors are counted.
LEMMA Rows ==
    ASSUME NEW i \in 1..15
    PROVE  \A p \in 0..10 :
               /\ Vectors[i][p + 1] \in Nat \ {0} /\ Vectors[i + 1][p + 1] \in Nat \ {0}
               /\ Offset(i, p) \in Nat /\ Offset(i, 0) = 0
               /\ Vectors[i + 1][p + 1] <= Offset(i, p) + Vectors[i][p + 1]
               /\ p < 10 => Offset(i, p + 1) <= Offset(i, p) + 2 * Vectors[i][p + 1]
  <1>1. CASE i = 1
    <2>1. /\ Vectors[i] = <<1, 1, 1, 1, 1, 1, 1, 1, 1, 1, 1>>
          /\ Vectors[i + 1] = <<1, 2, 4, 6, 8, 10, 12, 14, 16, 18, 20>>
          /\ Offsets[i + 1] = <<0, 1, 3, 5, 7, 9, 11, 13, 15, 17, 19>>
      BY <1>1, SMTT(20) DEF Vectors, Offsets
    <2>2. \A p \in 0..10 : p = 0 \/ p = 1 \/ p = 2 \/ p = 3 \/ p = 4 \/ p = 5 \/ p = 6 \/ p = 7 \/ p = 8 \/ p = 9 \/ p = 10
      OBVIOUS
    <2> QED BY <2>1, <2>2, SMTT(20) DEF Offset
  <1>2. CASE i = 2
    <2>1. /\ Vectors[i] = <<1, 2, 4, 6, 8, 10, 12, 14, 16, 18, 20>>
          /\ Vectors[i + 1] = <<1, 3, 9, 19, 33, 51, 73, 99, 129, 163, 201>>
          /\ Offsets[i + 1] = <<0, 1, 5, 13, 25, 41, 61, 85, 113, 145, 181>>
      BY <1>2, SMTT(20) DEF Vectors, Offsets
    <2>2. \A p \in 0..10 : p = 0 \/ p = 1 \/ p = 2 \/ p = 3 \/ p = 4 \/ p = 5 \/ p = 6 \/ p = 7 \/ p = 8 \/ p = 9 \/ p = 10
      OBVIOUS
    <2> QED BY <2>1, <2>2, SMTT(20) DEF Offset
  <1>3. CASE i = 3
    <2>1. /\ Vectors[i] = <<1, 3, 9, 19, 33, 51, 73, 99, 129, 163, 201>>
          /\ Vectors[i + 1] = <<1, 4, 16, 44, 96, 180, 304, 476, 704, 996, 1360>>
          /\ Offsets[i + 1] = <<0, 1, 7, 25, 63, 129, 231, 377, 575, 833, 1159>>
      BY <1>3, SMTT(20) DEF Vectors, Offsets
    <2>2. \A p \in 0..10 : p = 0 \/ p = 1 \/ p = 2 \/ p = 3 \/ p = 4 \/ p = 5 \/ p = 6 \/ p = 7 \/ p = 8 \/ p = 9 \/ p = 10
      OBVIOUS
    <2> QED BY <2>1, <2>2, SMTT(20) DEF Offset
  <1>4. CASE i = 4
    <2>1. /\ Vectors[i] = <<1, 4, 16, 44, 96, 180, 304, 476, 704, 996, 1360>>
          /\ Vectors[i + 1] = <<1, 5, 25, 85, 225, 501, 985, 1765, 2945, 4645, 7001>>
          /\ Offsets[i + 1] = <<0, 1, 9, 41, 129, 321, 681, 1289, 2241, 3649, 5641>>
      BY <1>4, SMTT(20) DEF Vectors, Offsets
    <2>2. \A p \in 0..10 : p = 0 \/ p = 1 \/ p = 2 \/ p = 3 \/ p = 4 \/ p = 5 \/ p = 6 \/ p = 7 \/ p = 8 \/ p = 9 \/ p = 10
      OBVIOUS
    <2> QED BY <2>1, <2>2, SMTT(20) DEF Offset
  <1>5. CASE i = 5
    <2>1. /\ Vectors[i] = <<1, 5, 25, 85, 225, 501, 985, 1765, 2945, 4645, 7001>>
          /\ Vectors[i + 1] = <<1, 6, 36, 146, 456, 1182, 2668, 5418, 10128, 17718, 29364>>
          /\ Offsets[i + 1] = <<0, 1, 11, 61, 231, 681, 1683, 3653, 7183, 13073, 22363>>
      BY <1>5, SMTT(20) DEF Vectors, Offsets
    <2>2. \A p \in 0..10 : p = 0 \/ p = 1 \/ p = 2 \/ p = 3 \/ p = 4 \/ p = 5 \/ p = 6 \/ p = 7 \/ p = 8 \/ p = 9 \/ p = 10
      OBVIOUS
    <2> QED BY <2>1, <2>2, SMTT(20) DEF Offset
  <1>6. CASE i = 6
    <2>1. /\ Vectors[i] = <<1, 6, 36, 146, 456, 1182, 2668, 5418, 10128, 17718, 29364>>
          /\ Vectors[i + 1] = <<1, 7, 49, 231, 833, 2471, 6321, 14407, 29953, 57799, 104881>>
          /\ Offsets[i + 1] = <<0, 1, 13, 85, 377, 1289, 3653, 8989, 19825, 40081, 75517>>
      BY <1>6, SMTT(20) DEF Vectors, Offsets
    <2>2. \A p \in 0..10 : p = 0 \/ p = 1 \/ p = 2 \/ p = 3 \/ p = 4 \/ p = 5 \/ p = 6 \/ p = 7 \/ p = 8 \/ p = 9 \/ p = 10
      OBVIOUS
    <2> QED BY <2>1, <2>2, SMTT(20) DEF Offset
  <1>7. CASE i = 7
    <2>1. /\ Vectors[i] = <<1, 7, 49, 231, 833, 2471, 6321, 14407, 29953, 57799, 104881>>
          /\ Vectors[i + 1] = <<1, 8, 64, 344, 1408, 4712, 13504, 34232, 78592, 166344, 329024>>
          /\ Offsets[i + 1] = <<0, 1, 15, 113, 575, 2241, 7183, 19825, 48639, 108545, 224143>>
      BY <1>7, SMTT(20) DEF Vectors, Offsets
    <2>2. \A p \in 0..10 : p = 0 \/ p = 1 \/ p = 2 \/ p = 3 \/ p = 4 \/ p = 5 \/ p = 6 \/ p = 7 \/ p = 8 \/ p = 9 \/ p = 10
      OBVIOUS
    <2> QED BY <2>1, <2>2, SMTT(20) DEF Offset
  <1>8. CASE i = 8
    <2>1. /\ Vectors[i] = <<1, 8, 64, 344, 1408, 4712, 13504, 34232, 78592, 166344, 329024>>
          /\ Vectors[i + 1] = <<1, 9, 81, 489, 2241, 8361, 26577, 74313, 187137, 432073, 927441>>
          /\ Offsets[i + 1] = <<0, 1, 17, 145, 833, 3649, 13073, 40081, 108545, 265729, 598417>>
      BY <1>8, SMTT(20) DEF Vectors, Offsets
    <2>2. \A p \in 0..10 : p = 0 \/ p = 1 \/ p = 2 \/ p = 3 \/ p = 4 \/ p = 5 \/ p = 6 \/ p = 7 \/ p = 8 \/ p = 9 \/ p = 10
      OBVIOUS
    <2> QED BY <2>1, <2>2, SMTT(20) DEF Offset
  <1>9. CASE i = 9
    <2>1. /\ Vectors[i] = <<1, 9, 81, 489, 2241, 8361, 26577, 74313, 187137, 432073, 927441>>
          /\ Vectors[i + 1] = <<1, 10, 100, 670, 3400, 14002, 48940, 149830, 411280, 1030490, 2390004>>
          /\ Offsets[i + 1] = <<0, 1, 19, 181, 1159, 5641, 22363, 75517, 224143, 598417, 1462563>>
      BY <1>9, SMTT(20) DEF Vectors, Offsets
    <2>2. \A p \in 0..10 : p = 0 \/ p = 1 \/ p = 2 \/ p = 3 \/ p = 4 \/ p = 5 \/ p = 6 \/ p = 7 \/ p = 8 \/ p = 9 \/ p = 10
      OBVIOUS
    <2> QED BY <2>1, <2>2, SMTT(20) DEF Offset
  <1>10. CASE i = 10
    <2>1. /\ Vectors[i] = <<1, 10, 100, 670, 3400, 14002, 48940, 149830, 411280, 1030490, 2390004>>
          /\ Vectors[i + 1] = <<1, 11, 121, 891, 4961, 22363, 85305, 284075, 845185, 2286955, 5707449>>
          /\ Offsets[i + 1] = <<0, 1, 21, 221, 1561, 8361, 36365, 134245, 433905, 1256465, 3317445>>
      BY <1>10, SMTT(20) DEF Vectors, Offsets
    <2>2. \A p \in 0..10 : p = 0 \/ p = 1 \/ p = 2 \/ p = 3 \/ p = 4 \/ p = 5 \/ p = 6 \/ p = 7 \/ p = 8 \/ p = 9 \/ p = 10
      OBVIOUS
    <2> QED BY <2>1, <2>2, SMTT(20) DEF Offset
  <1>11. CASE i = 11
    <2>1. /\ Vectors[i] = <<1, 11, 121, 891, 4961, 22363, 85305, 284075, 845185, 2286955, 5707449>>
          /\ Vectors[i + 1] = <<1, 12, 144, 1156, 7008, 34332, 142000, 511380, 1640640, 4772780, 12767184>>
          /\ Offsets[i + 1] = <<0, 1, 23, 265, 2047, 11969, 56695, 227305, 795455, 2485825, 7059735>>
      BY <1>11, SMTT(20) DEF Vectors, Offsets
    <2>2. \A p \in 0..10 : p = 0 \/ p = 1 \/ p = 2 \/ p = 3 \/ p = 4 \/ p = 5 \/ p = 6 \/ p = 7 \/ p = 8 \/ p = 9 \/ p = 10
      OBVIOUS
    <2> QED BY <2>1, <2>2, SMTT(20) DEF Offset
  <1>12. CASE i = 12
    <2>1. /\ Vectors[i] = <<1, 12, 144, 1156, 7008, 34332, 142000, 511380, 1640640, 4772780, 12767184>>
          /\ Vectors[i + 1] = <<1, 13, 169, 1469, 9633, 50973, 227305, 880685, 3032705, 9446125, 26986089>>
          /\ Offsets[i + 1] = <<0, 1, 25, 313, 2625, 16641, 85305, 369305, 1392065, 4673345, 14218905>>
      BY <1>12, SMTT(20) DEF Vectors, Offsets
    <2>2. \A p \in 0..10 : p = 0 \/ p = 1 \/ p = 2 \/ p = 3 \/ p = 4 \/ p = 5 \/ p = 6 \/ p = 7 \/ p = 8 \/ p = 9 \/ p = 10
      OBVIOUS
    <2> QED BY <2>1, <2>2, SMTT(20) DEF Offset
  <1>13. CASE i = 13
    <2>1. /\ Vectors[i] = <<1, 13, 169, 1469, 9633, 50973, 227305, 880685, 3032705, 9446125, 26986089>>
          /\ Vectors[i + 1] = <<1, 14, 196, 1834, 12936, 73542, 351820, 1459810, 5373200, 17852030, 54284244>>
          /\ Offsets[i + 1] = <<0, 1, 27, 365, 3303, 22569, 124515, 579125, 2340495, 8405905, 27298155>>
      BY <1>13, SMTT(20) DEF Vectors, Offsets
    <2>2. \A p \in 0..10 : p = 0 \/ p = 1 \/ p = 2 \/ p = 3 \/ p = 4 \/ p = 5 \/ p = 6 \/ p = 7 \/ p = 8 \/ p = 9 \/ p = 10
      OBVIOUS
    <2> QED BY <2>1, <2>2, SMTT(20) DEF Offset
  <1>14. CASE i = 14
    <2>1. /\ Vectors[i] = <<1, 14, 196, 1834, 12936, 73542, 351820, 1459810, 5373200, 17852030, 54284244>>
          /\ Vectors[i + 1] = <<1, 15, 225, 2255, 17025, 103503, 528865, 2340495, 9173505, 32398735, 104535009>>
          /\ Offsets[i + 1] = <<0, 1, 29, 421, 4089, 29961, 177045, 880685, 3800305, 14546705, 50250765>>
      BY <1>14, SMTT(20) DEF Vectors, Offsets
    <2>2. \A p \in 0..10 : p = 0 \/ p = 1 \/ p = 2 \/ p = 3 \/ p = 4 \/ p = 5 \/ p = 6 \/ p = 7 \/ p = 8 \/ p = 9 \/ p = 10
      OBVIOUS
    <2> QED BY <2>1, <2>2, SMTT(20) DEF Offset
  <1>15. CASE i = 15
    <2>1. /\ Vectors[i] = <<1, 15, 225, 2255, 17025, 103503, 528865, 2340495, 9173505, 32398735, 104535009>>
          /\ Vectors[i + 1] = <<1, 16, 256, 2736, 22016, 142544, 774912, 3644272, 15158272, 56730512, 193664256>>
          /\ Offsets[i + 1] = <<0, 1, 31, 481, 4991, 39041, 246047, 1303777, 5984767, 24331777, 89129247>>
      BY <1>15, SMTT(20) DEF Vectors, Offsets
    <2>2. \A p \in 0..10 : p = 0 \/ p = 1 \/ p = 2 \/ p = 3 \/ p = 4 \/ p = 5 \/ p = 6 \/ p = 7 \/ p = 8 \/ p = 9 \/ p = 10
      OBVIOUS
    <2> QED BY <2>1, <2>2, SMTT(20) DEF Offset
  <1> QED BY <1>1, <1>2, <1>3, <1>4, <1>5, <1>6, <1>7, <1>8, <1>9, <1>10, <1>11, <1>12, <1>13, <1>14, <1>15, SMTT(30)

LEMMA Ones ==
    /\ \A p \in 0..10 : Vectors[1][p + 1] = 1
    /\ \A i \in 1..16 : Vectors[i][1] = 1
  BY SMTT(20) DEF Vectors

LEMMA Ends ==
    /\ Vectors[10][11] = SizeA(0) /\ Vectors[16][9] = SizeA(1) /\ Vectors[16][7] = 774912
    /\ Vectors[6][2] = 6
  BY SMTT(20) DEF Vectors, SizeA

\* The sums that lead to the energy of a vector.
Sums(s, sum) ==
    /\ sum[0] = 0
    /\ \A i \in 1..Len(s) : sum[i] = sum[i - 1] + Abs(s[i])

LEMMA Energies ==
    ASSUME NEW s \in Seq(Int)
    PROVE  \E sum : /\ Sums(s, sum) /\ Energy(s) = sum[Len(s)]
                    /\ \A i \in 0..Len(s) : sum[i] \in Nat
  <1>1. PICK n : n = Len(s)
    OBVIOUS
  <1>2. n \in Nat /\ \A i \in 1..n : s[i] \in Int
    BY <1>1, Elements
  <1> DEFINE Body(f) == [i \in 0..Len(s) |-> IF i = 0 THEN 0 ELSE f[i - 1] + Abs(s[i])]
             after == CHOOSE f : f = Body(f)
  <1>3. Energy(s) = after[Len(s)]
    BY DEF Energy, Loop
  <1>4. \A i \in 1..n : Abs(s[i]) \in Nat
    BY <1>2 DEF Abs
  <1>5. PICK step : step = [i \in 1..n |-> [x \in Nat |-> x + Abs(s[i])]]
    OBVIOUS
  <1>6. step \in [1..n -> [Nat -> Nat]] /\ \A i \in 1..n, x \in Nat : step[i][x] = x + Abs(s[i])
    BY <1>4, <1>5, SMTT(30)
  <1>7. PICK f : Run(f, Nat, n, 0, step)
    BY <1>2, <1>6, Iterate
  <1>8. f \in [0..n -> Nat] /\ f[0] = 0 /\ \A i \in 1..n : f[i] = f[i - 1] + Abs(s[i])
    <2>1. f \in [0..n -> Nat] /\ f[0] = 0 /\ \A i \in 1..n : f[i - 1] \in Nat /\ f[i] = step[i][f[i - 1]]
      BY <1>2, <1>7 DEF Run
    <2> QED BY <1>6, <2>1
  <1>9. f = Body(f)
    BY <1>1, <1>8
  <1>10. after = Body(after)
    <2> HIDE DEF Body
    <2> QED BY <1>9, Zenon
  <1> HIDE DEF after
  <1>11. after[0] = 0 /\ \A i \in 1..n : after[i] = after[i - 1] + Abs(s[i])
    <2>1. after = [i \in 0..n |-> IF i = 0 THEN 0 ELSE after[i - 1] + Abs(s[i])]
      BY <1>1, <1>10, Zenon
    <2> QED BY <1>2, <2>1
  <1>12. \A i \in 0..n : after[i] \in Nat
    <2>1. after[0] \in Nat
      BY <1>11
    <2>2. \A i \in 1..n : after[i - 1] \in Nat => after[i] \in Nat
      BY <1>4, <1>11
    <2> QED BY <1>2, <2>1, <2>2, LoopStays
  <1>13. Sums(s, after)
    BY <1>1, <1>11 DEF Sums
  <1> QED BY <1>1, <1>3, <1>12, <1>13

LEMMA EnergyIs ==
    ASSUME NEW s \in Seq(Int), NEW sum, Sums(s, sum)
    PROVE  Energy(s) = sum[Len(s)]
  <1>1. PICK e : Sums(s, e) /\ Energy(s) = e[Len(s)]
    BY Energies
  <1>2. PICK n : n = Len(s)
    OBVIOUS
  <1>3. n \in Nat
    BY <1>2
  <1>4. sum[0] = e[0] /\ \A i \in 1..n : sum[i] = sum[i - 1] + Abs(s[i]) /\ e[i] = e[i - 1] + Abs(s[i])
    BY <1>1, <1>2 DEF Sums
  <1> DEFINE A == {i \in 0..n : sum[i] = e[i]}
  <1>5. 0 \in A
    BY <1>3, <1>4
  <1>6. ASSUME NEW i \in 0..n, i \in A, i < n PROVE i + 1 \in A
    <2>1. i + 1 \in 1..n /\ i + 1 - 1 = i
      BY <1>3, <1>6
    <2>2. sum[i + 1] = sum[i] + Abs(s[i + 1]) /\ e[i + 1] = e[i] + Abs(s[i + 1])
      BY <1>4, <2>1
    <2> QED BY <1>6, <2>1, <2>2
  <1>7. \A i \in 0..n : i \in A
    <2> HIDE DEF A
    <2> QED BY <1>3, <1>5, <1>6, BoundedInduction
  <1>8. sum[n] = e[n]
    BY <1>3, <1>7
  <1> QED BY <1>1, <1>2, <1>8

LEMMA EnergyJoined ==
    ASSUME NEW s \in Seq(Int), NEW t \in Seq(Int)
    PROVE  Energy(s) \in Nat /\ Energy(s \o t) = Energy(s) + Energy(t)
  <1>1. PICK e : Sums(s, e) /\ Energy(s) = e[Len(s)] /\ \A i \in 0..Len(s) : e[i] \in Nat
    BY Energies
  <1>2. PICK d : Sums(t, d) /\ Energy(t) = d[Len(t)] /\ \A i \in 0..Len(t) : d[i] \in Nat
    BY Energies
  <1>3. PICK n, m : n = Len(s) /\ m = Len(t)
    OBVIOUS
  <1>4. n \in Nat /\ m \in Nat
    BY <1>3
  <1>5. PICK sum : sum = [i \in 0..n + m |-> IF i <= n THEN e[i] ELSE e[n] + d[i - n]]
    OBVIOUS
  <1>6. PICK r : r = s \o t
    OBVIOUS
  <1>7. /\ r \in Seq(Int) /\ Len(r) = n + m
        /\ \A i \in 1..n : r[i] = s[i]
        /\ \A i \in 1..m : r[n + i] = t[i]
    BY <1>3, <1>6, Joined
  <1>8. e[0] = 0 /\ \A i \in 1..n : e[i] = e[i - 1] + Abs(s[i])
    BY <1>1, <1>3 DEF Sums
  <1>9. d[0] = 0 /\ \A i \in 1..m : d[i] = d[i - 1] + Abs(t[i])
    BY <1>2, <1>3 DEF Sums
  <1>10. e[n] \in Nat /\ \A i \in 1..m : d[i - 1] \in Nat
    BY <1>1, <1>2, <1>3, <1>4
  <1>11. ASSUME NEW i \in 1..n + m PROVE sum[i] = sum[i - 1] + Abs(r[i])
    <2>1. CASE i <= n
      <3>1. i \in 1..n /\ i \in 0..n + m /\ i - 1 \in 0..n + m /\ i - 1 <= n
        BY <1>4, <2>1
      <3> QED BY <1>5, <1>7, <1>8, <2>1, <3>1
    <2>2. CASE ~(i <= n)
      <3>1. PICK j : j = i - n
        OBVIOUS
      <3>2. j \in 1..m /\ i = n + j /\ i \in 0..n + m /\ i - 1 \in 0..n + m /\ i - 1 - n = j - 1 /\ (i - 1 <= n <=> j = 1)
        BY <1>4, <2>2, <3>1
      <3>3. sum[i] = e[n] + d[j] /\ d[j] = d[j - 1] + Abs(t[j]) /\ r[i] = t[j] /\ d[j - 1] \in Nat
        BY <1>5, <1>7, <1>9, <1>10, <2>2, <3>1, <3>2
      <3>4. t[j] \in Int
        BY <1>3, <3>2
      <3>5. Abs(t[j]) \in Nat
        BY <3>4 DEF Abs
      <3>6. sum[i - 1] = e[n] + d[j - 1]
        <4>1. CASE j = 1
          <5>1. i - 1 = n /\ i - 1 <= n
            BY <1>4, <3>2, <4>1
          <5> QED BY <1>4, <1>5, <1>9, <1>10, <3>2, <4>1, <5>1
        <4>2. CASE j # 1
          BY <1>5, <3>2, <4>2
        <4> QED BY <4>1, <4>2
      <3> QED BY <1>10, <3>3, <3>5, <3>6
    <2> QED BY <2>1, <2>2
  <1>12. Sums(r, sum)
    <2>1. sum[0] = 0
      BY <1>4, <1>5, <1>8
    <2> QED BY <1>7, <1>11, <2>1 DEF Sums
  <1>13. Energy(r) = sum[n + m]
    BY <1>7, <1>12, EnergyIs
  <1>14. sum[n + m] = e[n] + d[m]
    <2>1. CASE m = 0
      BY <1>4, <1>5, <1>9, <1>10, <2>1
    <2>2. CASE m # 0
      <3>1. PICK k : k = n + m
        OBVIOUS
      <3>2. ~(k <= n) /\ k \in 0..n + m /\ k - n = m
        BY <1>4, <2>2, <3>1
      <3>3. sum[k] = e[n] + d[k - n]
        BY <1>5, <3>2
      <3> QED BY <3>1, <3>2, <3>3
    <2> QED BY <2>1, <2>2
  <1> QED BY <1>1, <1>2, <1>3, <1>6, <1>10, <1>13, <1>14

LEMMA EnergyAppended ==
    ASSUME NEW s \in Seq(Int), NEW v \in Int
    PROVE  Energy(Append(s, v)) = Energy(s) + Abs(v)
  <1>1. PICK t : t = <<v>>
    OBVIOUS
  <1>2. t \in Seq(Int) /\ Append(s, v) = s \o t
    BY <1>1
  <1>3. Energy(t) = Abs(v)
    <2>1. PICK sum : sum = [i \in 0..1 |-> IF i = 0 THEN 0 ELSE Abs(v)]
      OBVIOUS
    <2>2. Abs(v) \in Nat
      BY DEF Abs
    <2>3. sum[0] = 0 /\ sum[1] = Abs(v) /\ Len(t) = 1 /\ t[1] = v
      BY <1>1, <2>1
    <2>4. sum[1] = sum[1 - 1] + Abs(t[1])
      BY <2>2, <2>3
    <2>5. Sums(t, sum)
      <3>1. \A i \in 1..1 : i = 1
        OBVIOUS
      <3> QED BY <2>3, <2>4, <3>1 DEF Sums
    <2> QED BY <1>2, <2>3, <2>5, EnergyIs
  <1> QED BY <1>2, <1>3, EnergyJoined

\* Zeros weigh nothing.
LEMMA NoEnergy ==
    ASSUME NEW n \in Nat
    PROVE  [i \in 1..n |-> 0] \in Seq(Int) /\ Energy([i \in 1..n |-> 0]) = 0
  <1>1. PICK s : s = [i \in 1..n |-> 0]
    OBVIOUS
  <1>2. s \in Seq(Int) /\ Len(s) = n /\ \A i \in 1..n : s[i] = 0
    BY <1>1
  <1>3. PICK sum : sum = [i \in 0..n |-> 0]
    OBVIOUS
  <1>4. sum[0] = 0 /\ sum[n] = 0
    BY <1>3
  <1>5. \A i \in 1..n : sum[i] = 0 /\ sum[i - 1] = 0
    BY <1>3
  <1>6. Abs(0) = 0
    BY DEF Abs
  <1>7. Sums(s, sum)
    BY <1>2, <1>4, <1>5, <1>6 DEF Sums
  <1>8. Energy(s) = sum[n]
    BY <1>2, <1>7, EnergyIs
  <1> QED BY <1>1, <1>2, <1>4, <1>8

LEMMA Positive ==
    ASSUME NEW i \in 1..16, NEW p \in 0..10
    PROVE  Vectors[i][p + 1] \in Nat /\ Vectors[i][p + 1] >= 1
  <1>1. CASE i < 16
    <2>1. i \in 1..15
      BY <1>1
    <2> QED BY <2>1, Rows, SMTT(30)
  <1>2. CASE ~(i < 16)
    <2>1. i = 15 + 1 /\ 15 \in 1..15
      BY <1>2
    <2> QED BY <2>1, Rows, SMTT(30)
  <1> QED BY <1>1, <1>2

\* The pulses a place is told to have: the index is between two offsets.
LEMMA PulsesFound ==
    ASSUME NEW i \in 1..15, NEW idx \in Nat, NEW pulses \in 0..10, NEW ci, ci = PulsesAt(i, idx, pulses)
    PROVE  /\ ci \in 0..pulses /\ Offset(i, pulses - ci) <= idx
           /\ ci > 0 => idx < Offset(i, pulses - ci + 1)
  <1> DEFINE from(d) == Offset(i, pulses - d)
             Found(k) == idx >= from(k) /\ \A d \in 0..k - 1 : idx < from(d)
             A == {k \in 0..pulses : (\E c \in 0..pulses : Found(c)) \/ \A d \in 0..k - 1 : idx < from(d)}
  <1>1. \A d \in 0..pulses : from(d) \in Nat
    <2>1. \A d \in 0..pulses : pulses - d \in 0..10
      OBVIOUS
    <2> QED BY <2>1, Rows
  <1>2. from(pulses) = 0
    <2>1. pulses - pulses = 0
      OBVIOUS
    <2> QED BY <2>1, Rows
  <1>3. ci = CHOOSE k \in 0..pulses : Found(k)
    BY Zenon DEF PulsesAt
  <1> HIDE DEF from
  <1>4. 0 \in A
    OBVIOUS
  <1>5. ASSUME NEW k \in 0..pulses, k \in A, k < pulses PROVE k + 1 \in A
    <2>1. k + 1 \in 0..pulses
      BY <1>5
    <2>2. CASE \E c \in 0..pulses : Found(c)
      BY <2>1, <2>2
    <2>3. CASE \A d \in 0..k - 1 : idx < from(d)
      <3>1. CASE idx >= from(k)
        BY <2>1, <2>3, <3>1
      <3>2. CASE ~(idx >= from(k))
        <4>1. idx < from(k)
          BY <1>1, <3>2
        <4>2. \A d \in 0..k + 1 - 1 : d \in 0..k - 1 \/ d = k
          OBVIOUS
        <4>3. \A d \in 0..k + 1 - 1 : idx < from(d)
          BY <2>3, <4>1, <4>2
        <4> HIDE DEF Found
        <4> QED BY <2>1, <4>3
      <3> QED BY <3>1, <3>2
    <2> HIDE DEF Found
    <2> QED BY <1>5, <2>2, <2>3
  <1>6. \A k \in 0..pulses : k \in A
    <2>1. pulses \in Nat
      OBVIOUS
    <2> HIDE DEF A
    <2> QED BY <1>4, <1>5, <2>1, BoundedInduction
  <1>7. \E c \in 0..pulses : Found(c)
    <2>1. pulses \in A /\ pulses \in 0..pulses
      BY <1>6
    <2>2. CASE \A d \in 0..pulses - 1 : idx < from(d)
      BY <1>2, <2>1, <2>2
    <2> HIDE DEF Found
    <2> QED BY <2>1, <2>2
  <1>8. ci \in 0..pulses /\ Found(ci)
    <2> HIDE DEF Found
    <2> QED BY <1>3, <1>7
  <1>9. ci > 0 => idx < from(ci - 1)
    <2>1. ci > 0 => ci - 1 \in 0..ci - 1
      BY <1>8
    <2> QED BY <1>8, <2>1
  <1>10. pulses - (ci - 1) = pulses - ci + 1
    BY <1>8
  <1>11. from(ci) <= idx
    BY <1>1, <1>8
  <1> QED BY <1>8, <1>9, <1>10, <1>11 DEF from

\* What the index has told after k places of n.
Told == [c : Seq(Int), idx : Nat, ls : BOOLEAN, pulses : 0..10]
InTold(a, k, n, total) ==
    /\ a \in Told
    /\ Len(a.c) <= k /\ Len(a.c) <= n - 1 /\ (a.idx > 0 => Len(a.c) = k)
    /\ Energy(a.c) + a.pulses = total
    /\ a.idx < Vectors[Most(n - k, 1)][a.pulses + 1]

LEMMA Tells ==
    ASSUME NEW n \in 1..16, NEW total \in 0..10, NEW k \in 1..n, NEW a, InTold(a, k - 1, n, total)
    PROVE  InTold(DeenumAt(a, n - k), k, n, total)
  <1>1. PICK i, p, idx, c : i = n - k /\ p = a.pulses /\ idx = a.idx /\ c = a.c
    OBVIOUS
  <1>2. a \in Told /\ c \in Seq(Int) /\ idx \in Nat /\ a.ls \in BOOLEAN /\ p \in 0..10
    BY <1>1 DEF InTold, Told
  <1>3. PICK len : len = Len(c)
    OBVIOUS
  <1>4. len \in Nat /\ len <= k - 1 /\ len <= n - 1 /\ (idx > 0 => len = k - 1)
    <2>1. len \in Nat
      BY <1>2, <1>3, Elements
    <2>2. len <= k - 1 /\ len <= n - 1 /\ (idx > 0 => len = k - 1)
      BY <1>1, <1>3, Zenon DEF InTold
    <2> QED BY <2>1, <2>2
  <1>5. Energy(c) \in Nat /\ Energy(c) + p = total
    <2>1. Energy(c) \in Nat
      BY <1>2, EnergyJoined
    <2> QED BY <1>1, <2>1 DEF InTold
  <1>6. idx < Vectors[Most(n - (k - 1), 1)][p + 1]
    BY <1>1, Zenon DEF InTold
  <1>7. PICK m : m = Most(n - k, 1)
    OBVIOUS
  <1>8. m \in 1..16
    BY <1>7 DEF Most
  <1>9. CASE idx = 0
    <2>1. DeenumAt(a, n - k) = a
      BY <1>1, <1>9, Zenon DEF DeenumAt
    <2>2. idx < Vectors[m][p + 1]
      <3>1. PICK w : w = Vectors[m][p + 1]
        OBVIOUS
      <3>2. w \in Nat /\ w >= 1
        BY <1>2, <1>8, <3>1, Positive
      <3>3. idx < w
        BY <1>9, <3>2
      <3> QED BY <3>1, <3>3
    <2>3. len <= k /\ len <= n - 1 /\ ~(idx > 0)
      BY <1>4, <1>9
    <2>4. Len(a.c) <= k /\ Len(a.c) <= n - 1 /\ ~(a.idx > 0)
      BY <1>1, <1>3, <2>3, Zenon
    <2>5. Energy(a.c) + a.pulses = total /\ a.idx < Vectors[Most(n - k, 1)][a.pulses + 1]
      BY <1>1, <1>5, <1>7, <2>2, Zenon
    <2> QED BY <1>2, <2>1, <2>4, <2>5, Zenon DEF InTold
  <1>10. CASE idx > 0
    <2>1. p # 0
      <3>1. CASE p = 0
        <4>1. Most(n - (k - 1), 1) \in 1..16
          BY DEF Most
        <4>2. Vectors[Most(n - (k - 1), 1)][1] = 1
          BY <4>1, Ones
        <4>3. p + 1 = 1
          BY <3>1
        <4>4. idx < 1
          BY <1>6, <4>2, <4>3, Zenon
        <4> QED BY <1>2, <1>10, <4>4
      <3> QED BY <3>1
    <2>2. k # n
      <3>1. CASE k = n
        <4>1. Most(n - (k - 1), 1) = 1
          BY <3>1 DEF Most
        <4>2. Vectors[1][p + 1] = 1
          BY <1>2, Ones
        <4>3. idx < 1
          BY <1>6, <4>1, <4>2, Zenon
        <4> QED BY <1>2, <1>10, <4>3
      <3> QED BY <3>1
    <2>3. i \in 1..15 /\ Most(n - (k - 1), 1) = i + 1 /\ m = i
      BY <1>1, <1>7, <2>2 DEF Most
    <2>4. PICK ci : ci = PulsesAt(i, idx, p)
      OBVIOUS
    <2>5. PICK q : q = p - ci
      OBVIOUS
    <2>6. ci \in 0..p /\ Offset(i, q) <= idx /\ (ci > 0 => idx < Offset(i, q + 1))
      BY <1>2, <2>3, <2>4, <2>5, PulsesFound
    <2>7. q \in 0..10 /\ (ci > 0 => q < 10) /\ (ci = 0 => q = p)
      BY <1>2, <2>5, <2>6
    <2>8. PICK off, size : off = Offset(i, q) /\ size = Vectors[i][q + 1]
      OBVIOUS
    <2>9. /\ off \in Nat /\ size \in Nat
          /\ Vectors[i + 1][q + 1] <= off + size /\ Vectors[i + 1][q + 1] \in Nat
          /\ q < 10 => Offset(i, q + 1) <= off + 2 * size
      BY <2>3, <2>7, <2>8, Rows
    <2>10. PICK rest : rest = idx - off
      OBVIOUS
    <2>11. rest \in Nat /\ off <= idx
      BY <1>2, <2>6, <2>8, <2>9, <2>10
    <2>12. PICK new : new = IF ci > 0 THEN rest \div 2 ELSE rest
      OBVIOUS
    <2>13. new \in Nat /\ new < size
      <3>1. CASE ci > 0
        <4>1. PICK upper : upper = Offset(i, q + 1)
          OBVIOUS
        <4>2. upper \in Nat
          <5>1. q + 1 \in 0..10
            BY <2>7, <3>1
          <5> QED BY <2>3, <4>1, <5>1, Rows
        <4>3. idx < upper /\ upper <= off + 2 * size
          BY <2>6, <2>7, <2>9, <3>1, <4>1
        <4>4. rest < 2 * size
          BY <1>2, <2>9, <2>10, <4>2, <4>3
        <4>5. new = rest \div 2
          BY <2>12, <3>1
        <4> QED BY <2>9, <2>11, <4>4, <4>5
      <3>2. CASE ~(ci > 0)
        <4>1. ci = 0 /\ new = rest
          BY <2>6, <2>12, <3>2
        <4>2. idx < Vectors[i + 1][q + 1]
          BY <1>6, <2>3, <2>7, <4>1
        <4> QED BY <1>2, <2>9, <2>10, <2>11, <4>1, <4>2
      <3> QED BY <3>1, <3>2
    <2>14. PICK ls : ls = IF ci > 0 THEN rest % 2 = 1 ELSE a.ls
      OBVIOUS
    <2>15. ls \in BOOLEAN
      BY <1>2, <2>14
    <2>16. PICK v : v = Signed(a.ls, ci)
      OBVIOUS
    <2>17. v \in Int /\ Abs(v) = ci
      BY <1>2, <2>6, <2>16 DEF Signed, Abs
    <2>18. PICK d : d = Append(c, v)
      OBVIOUS
    <2>19. d \in Seq(Int) /\ Len(d) = len + 1 /\ Energy(d) = Energy(c) + ci
      BY <1>2, <1>3, <2>17, <2>18, EnergyAppended
    <2>20. PICK r : r = [c |-> d, pulses |-> q, ls |-> ls, idx |-> new]
      OBVIOUS
    <2>21. DeenumAt(a, n - k) = r
      <3>1. DeenumAt(a, n - k) =
                [c |-> Append(c, Signed(a.ls, ci)), pulses |-> p - ci,
                 ls |-> IF ci > 0 THEN (idx - Offset(i, p - ci)) % 2 = 1 ELSE a.ls,
                 idx |-> IF ci > 0 THEN (idx - Offset(i, p - ci)) \div 2 ELSE idx - Offset(i, p - ci)]
        <4>1. a.idx # 0
          BY <1>1, <1>10
        <4> QED BY <1>1, <2>4, <4>1, Zenon DEF DeenumAt
      <3> QED BY <2>5, <2>8, <2>10, <2>12, <2>14, <2>16, <2>18, <2>20, <3>1, Zenon
    <2>22. r \in Told /\ r.c = d /\ r.pulses = q /\ r.idx = new
      BY <2>7, <2>13, <2>15, <2>19, <2>20 DEF Told
    <2>23. len + 1 = k /\ len + 1 <= k /\ len + 1 <= n - 1
      BY <1>4, <1>10, <2>2
    <2>24. Len(r.c) <= k /\ Len(r.c) <= n - 1 /\ Len(r.c) = k
      BY <2>19, <2>22, <2>23, Zenon
    <2>25. Energy(r.c) + r.pulses = total
      BY <1>2, <1>5, <2>5, <2>6, <2>19, <2>22
    <2>26. r.idx < Vectors[Most(n - k, 1)][r.pulses + 1]
      BY <1>7, <2>3, <2>8, <2>13, <2>22, Zenon
    <2> QED BY <2>21, <2>22, <2>24, <2>25, <2>26, Zenon DEF InTold
  <1> QED BY <1>2, <1>9, <1>10

\* The same of integers.
LEMMA JoinedIntegers ==
    \A s, t \in Seq(Int) :
        /\ s \o t \in Seq(Int) /\ Len(s \o t) = Len(s) + Len(t)
        /\ \A i \in 1..Len(s) : (s \o t)[i] = s[i]
        /\ \A i \in 1..Len(t) : (s \o t)[Len(s) + i] = t[i]
  OBVIOUS

\* An index in range is a vector of as many pulses.
LEMMA Deenumerates ==
    ASSUME NEW n \in 1..16, NEW npulses \in 0..10, NEW index \in Nat, NEW sign \in BOOLEAN,
           index < Vectors[n][npulses + 1],
           NEW v, v = DeenumMvpq(index, sign, npulses, n)
    PROVE  v \in Seq(Int) /\ Len(v) = n /\ Energy(v) = npulses
  <1> DEFINE first == [c |-> <<>>, idx |-> index, ls |-> sign, pulses |-> npulses]
             seq == [k \in 1..n |-> n - k]
             Body(f) == [k \in 0..Len(seq) |-> IF k = 0 THEN first ELSE DeenumAt(f[k - 1], seq[k])]
             after == CHOOSE f : f = Body(f)
             S == [k \in 0..n |-> {a \in Told : InTold(a, k, n, npulses)}]
             told == after[Len(seq)]
             set == Len(told.c)
  <1>1. v = [i \in 1..n |-> IF i <= set THEN told.c[i]
                            ELSE IF i = set + 1 THEN Signed(told.ls, told.pulses) ELSE 0]
    BY DEF DeenumMvpq, Places, Loop
  <1>2. Len(seq) = n /\ \A k \in 1..n : seq[k] = n - k
    OBVIOUS
  <1>3. ASSUME NEW k \in 1..n, NEW a \in S[k - 1] PROVE DeenumAt(a, n - k) \in S[k]
    <2>1. k - 1 \in 0..n /\ k \in 0..n
      BY SMTT(30)
    <2>2. InTold(a, k - 1, n, npulses)
      BY <1>3, <2>1
    <2>3. InTold(DeenumAt(a, n - k), k, n, npulses)
      BY <2>2, Tells
    <2>4. DeenumAt(a, n - k) \in Told
      BY <2>3 DEF InTold
    <2> QED BY <2>1, <2>3, <2>4
  <1>4. first \in S[0]
    <2>1. first \in Told
      BY DEF Told
    <2>2. <<>> \in Seq(Int) /\ Len(<<>>) = 0 /\ 0 <= n - 1 /\ 0 <= 0 /\ 0 \in 0..n /\ Most(n - 0, 1) = n /\ 0 + npulses = npulses
      BY DEF Most
    <2>3. Energy(<<>>) = 0
      <3>1. PICK sum : sum = [i \in 0..0 |-> 0]
        OBVIOUS
      <3>2. Sums(<<>>, sum) /\ sum[0] = 0
        BY <3>1 DEF Sums
      <3>3. Energy(<<>>) = sum[Len(<<>>)]
        BY <2>2, <3>2, EnergyIs
      <3> QED BY <2>2, <3>2, <3>3, Zenon
    <2>4. first.c = <<>> /\ first.idx = index /\ first.pulses = npulses
      OBVIOUS
    <2> HIDE DEF first
    <2>5. InTold(first, 0, n, npulses)
      BY <2>1, <2>2, <2>3, <2>4, Zenon DEF InTold
    <2> QED BY <2>1, <2>2, <2>5
  <1> HIDE DEF S, first, seq
  <1>5. PICK step : step = [k \in 1..n |-> [a \in S[k - 1] |-> DeenumAt(a, n - k)]]
    OBVIOUS
  <1>6. \A k \in 1..n : \A a \in S[k - 1] : step[k][a] = DeenumAt(a, n - k)
    BY <1>5
  <1>7. n \in Nat
    OBVIOUS
  <1>8. PICK f : RunIn(f, S, n, first, step)
    BY <1>3, <1>4, <1>6, <1>7, IterateIn
  <1>9. f = Body(f)
    <2>1. f \in [0..n -> UNION {S[k] : k \in 0..n}] /\ f[0] = first
      BY <1>8 DEF RunIn
    <2>2. \A k \in 1..n : f[k] = DeenumAt(f[k - 1], seq[k])
      <3>1. \A k \in 1..n : f[k - 1] \in S[k - 1] /\ f[k] = step[k][f[k - 1]]
        BY <1>8 DEF RunIn
      <3>2. \A k \in 1..n : seq[k] = n - k
        BY <1>2
      <3> QED BY <1>6, <3>1, <3>2, Zenon
    <2>3. f = [k \in 0..n |-> IF k = 0 THEN first ELSE DeenumAt(f[k - 1], seq[k])]
      <3> HIDE DEF after, told, set, Body
      <3>1. \A k \in 0..n : f[k] = IF k = 0 THEN first ELSE DeenumAt(f[k - 1], seq[k])
        <4>1. \A k \in 0..n : k = 0 \/ k \in 1..n
          OBVIOUS
        <4>2. \A k \in 1..n : k # 0
          OBVIOUS
        <4> QED BY <2>1, <2>2, <4>1, <4>2, Zenon
      <3>2. f = [k \in 0..n |-> f[k]]
        BY <2>1, Zenon
      <3> QED BY <3>1, <3>2, Zenon
    <2>4. Body(f) = [k \in 0..n |-> IF k = 0 THEN first ELSE DeenumAt(f[k - 1], seq[k])]
      BY <1>2, Zenon
    <2> QED BY <2>3, <2>4, Zenon
  <1>10. after = Body(after)
    <2> HIDE DEF Body
    <2> QED BY <1>9, Zenon
  <1> HIDE DEF after
  <1>11. after[0] = first /\ \A k \in 1..n : after[k] = DeenumAt(after[k - 1], n - k)
    BY <1>2, <1>7, <1>10
  <1>12. after[n] \in S[n]
    BY <1>3, <1>4, <1>7, <1>11, LeadsTo
  <1>13. InTold(told, n, n, npulses)
    <2>1. n \in 0..n
      OBVIOUS
    <2> QED BY <1>2, <1>12, <2>1 DEF S
  <1>14. /\ told.c \in Seq(Int) /\ told.pulses \in 0..10 /\ told.ls \in BOOLEAN
         /\ set <= n - 1 /\ Energy(told.c) + told.pulses = npulses
    BY <1>13 DEF InTold, Told
  <1> HIDE DEF told
  <1>15. set \in 0..n - 1
    <2>1. PICK m : m = set
      OBVIOUS
    <2>2. m \in Nat /\ m <= n - 1
      BY <1>14, <2>1, Elements, Zenon
    <2>3. m \in 0..n - 1
      BY <2>2
    <2> QED BY <2>1, <2>3
  <1>16. PICK w : w = Signed(told.ls, told.pulses)
    OBVIOUS
  <1>17. w \in Int /\ Abs(w) = told.pulses
    BY <1>14, <1>16 DEF Signed, Abs
  <1>18. PICK d : d = Append(told.c, w)
    OBVIOUS
  <1>19. /\ d \in Seq(Int) /\ Len(d) = set + 1 /\ d[set + 1] = w /\ \A i \in 1..set : d[i] = told.c[i]
         /\ Energy(d) = Energy(told.c) + told.pulses
    BY <1>14, <1>17, <1>18, EnergyAppended
  <1>20. PICK rest : rest = n - (set + 1)
    OBVIOUS
  <1>21. rest \in Nat /\ set + 1 + rest = n
    <2> HIDE DEF set
    <2> QED BY <1>15, <1>20
  <1>22. PICK zeros : zeros = [i \in 1..rest |-> 0]
    OBVIOUS
  <1>23. zeros \in Seq(Int) /\ Energy(zeros) = 0 /\ Len(zeros) = rest /\ \A i \in 1..rest : zeros[i] = 0
    <2>1. zeros \in Seq(Int) /\ Energy(zeros) = 0
      BY <1>21, <1>22, NoEnergy
    <2>2. Len(zeros) = rest /\ \A i \in 1..rest : zeros[i] = 0
      BY <1>21, <1>22
    <2> QED BY <2>1, <2>2
  <1>24. PICK all : all = d \o zeros
    OBVIOUS
  <1>25. /\ all \in Seq(Int) /\ Len(all) = set + 1 + rest
         /\ \A i \in 1..set + 1 : all[i] = d[i]
         /\ \A i \in 1..rest : all[set + 1 + i] = 0
    <2>1. /\ all \in Seq(Int) /\ Len(all) = Len(d) + Len(zeros)
          /\ \A i \in 1..Len(d) : all[i] = d[i]
          /\ \A i \in 1..Len(zeros) : all[Len(d) + i] = zeros[i]
      BY <1>19, <1>23, <1>24, JoinedIntegers, Zenon
    <2> QED BY <1>19, <1>23, <2>1, Zenon
  <1>26. Energy(all) = npulses
    <2>1. Energy(all) = Energy(d) + Energy(zeros)
      BY <1>19, <1>23, <1>24, EnergyJoined
    <2>2. Energy(told.c) \in Nat
      BY <1>14, EnergyJoined
    <2> QED BY <1>14, <1>19, <1>23, <2>1, <2>2
  <1>27. v = all
    <2>1. Len(all) = n
      BY <1>21, <1>25, Zenon
    <2>2. ASSUME NEW i \in 1..n PROVE v[i] = all[i]
      <3> HIDE DEF set
      <3>1. CASE i <= set
        <4>1. i \in 1..set /\ i \in 1..set + 1
          BY <1>15, <3>1
        <4>2. v[i] = told.c[i]
          BY <1>1, <3>1
        <4> QED BY <1>19, <1>25, <4>1, <4>2
      <3>2. CASE i = set + 1
        <4>1. ~(i <= set) /\ i \in 1..set + 1
          BY <1>15, <3>2
        <4>2. v[i] = w
          BY <1>1, <1>16, <3>2, <4>1
        <4> QED BY <1>19, <1>25, <3>2, <4>1, <4>2
      <3>3. CASE ~(i <= set) /\ i # set + 1
        <4>1. PICK j : j = i - (set + 1)
          OBVIOUS
        <4>2. j \in 1..rest /\ i = set + 1 + j
          BY <1>15, <1>20, <3>3, <4>1
        <4>3. v[i] = 0
          BY <1>1, <3>3
        <4> QED BY <1>25, <4>2, <4>3
      <3> QED BY <3>1, <3>2, <3>3
    <2>3. v = [i \in 1..n |-> v[i]]
      BY <1>1
    <2>4. all = [i \in 1..n |-> all[i]]
      BY <1>25, <2>1
    <2> QED BY <2>2, <2>3, <2>4
  <1>28. Len(all) = n
    BY <1>21, <1>25, Zenon
  <1> QED BY <1>25, <1>26, <1>27, <1>28

-----------------------------------------------------------------------------
(* The vector of a shape                                                   *)

\* What the numbers of a vector have to be for a shape.
InRange(data) ==
    /\ data.shape \in 0..3 /\ data.idxA \in Nat /\ data.idxB \in Nat
    /\ data.lsA \in BOOLEAN /\ data.lsB \in BOOLEAN
    /\ data.idxA < Vectors[PlacesOf(data.shape)][PulsesOf(data.shape) + 1]
    /\ data.shape = 0 => data.idxB < Vectors[6][2]

LEMMA Shapes ==
    \A shape \in 0..3 :
        /\ PlacesOf(shape) \in 1..16 /\ PulsesOf(shape) \in 0..10
        /\ shape < 2 => PlacesOf(shape) = 10
        /\ ~(shape < 2) => PlacesOf(shape) = 16
  BY DEF PlacesOf, PulsesOf

\* n places with p pulses.
IsVector(v, n, p) == v \in Seq(Int) /\ Len(v) = n /\ Energy(v) = p

LEMMA IndexedVectors ==
    \A n \in 1..16, p \in 0..10, index \in Nat, sign \in BOOLEAN :
        index < Vectors[n][p + 1] => IsVector(DeenumMvpq(index, sign, p, n), n, p)
  <1> SUFFICES ASSUME NEW n \in 1..16, NEW p \in 0..10, NEW index \in Nat, NEW sign \in BOOLEAN,
                      index < Vectors[n][p + 1]
               PROVE  IsVector(DeenumMvpq(index, sign, p, n), n, p)
    BY Zenon
  <1>1. PICK v : v = DeenumMvpq(index, sign, p, n)
    OBVIOUS
  <1>2. v \in Seq(Int) /\ Len(v) = n /\ Energy(v) = p
    BY <1>1, Deenumerates
  <1> QED BY <1>1, <1>2, Zenon DEF IsVector

\* Sixteen places, with the pulses of the shape.
LEMMA Deenumerated ==
    ASSUME NEW data, InRange(data)
    PROVE  /\ Deenumerate(data) \in Seq(Int) /\ Len(Deenumerate(data)) = 16
           /\ Energy(Deenumerate(data)) = PulsesOf(data.shape) + Flag(data.shape = 0)
  <1>1. PICK shape, places, pulses : shape = data.shape /\ places = PlacesOf(shape) /\ pulses = PulsesOf(shape)
    OBVIOUS
  <1>2. /\ shape \in 0..3 /\ places \in 1..16 /\ pulses \in 0..10
        /\ (shape < 2 => places = 10) /\ (~(shape < 2) => places = 16)
    BY <1>1, Shapes DEF InRange
  <1>3. PICK a : a = DeenumMvpq(data.idxA, data.lsA, pulses, places)
    OBVIOUS
  <1>4. a \in Seq(Int) /\ Len(a) = places /\ Energy(a) = pulses
    <2>1. data.idxA \in Nat /\ data.lsA \in BOOLEAN /\ data.idxA < Vectors[places][pulses + 1]
      BY <1>1 DEF InRange
    <2>2. places \in 1..16 /\ pulses \in 0..10
      BY <1>2
    <2>3. IsVector(a, places, pulses)
      BY <1>3, <2>1, <2>2, IndexedVectors, Zenon
    <2> QED BY <2>3 DEF IsVector
  <1>5. CASE shape = 0
    <2>1. PICK b : b = DeenumMvpq(data.idxB, data.lsB, 1, 6)
      OBVIOUS
    <2>2. b \in Seq(Int) /\ Len(b) = 6 /\ Energy(b) = 1
      <3>1. data.idxB \in Nat /\ data.lsB \in BOOLEAN /\ data.idxB < Vectors[6][1 + 1]
        BY <1>1, <1>5 DEF InRange
      <3>2. 6 \in 1..16 /\ 1 \in 0..10
        OBVIOUS
      <3> QED BY <2>1, <3>1, <3>2, IndexedVectors DEF IsVector
    <2>3. Deenumerate(data) = a \o b
      BY <1>1, <1>3, <1>5, <2>1 DEF Deenumerate
    <2>4. Flag(data.shape = 0) = 1
      BY <1>1, <1>5 DEF Flag
    <2>5. a \o b \in Seq(Int) /\ Len(a \o b) = Len(a) + Len(b)
      BY <1>4, <2>2, JoinedIntegers, Zenon
    <2>6. Energy(a \o b) = Energy(a) + Energy(b)
      BY <1>4, <2>2, EnergyJoined
    <2>7. places = 10
      BY <1>2, <1>5
    <2> QED BY <1>1, <1>2, <1>4, <2>2, <2>3, <2>4, <2>5, <2>6, <2>7
  <1>6. CASE shape = 1
    <2>1. PICK b : b = [i \in 1..6 |-> 0]
      OBVIOUS
    <2>2. b \in Seq(Int) /\ Len(b) = 6 /\ Energy(b) = 0
      <3>1. b \in Seq(Int) /\ Energy(b) = 0
        <4>1. 6 \in Nat
          OBVIOUS
        <4> QED BY <2>1, <4>1, NoEnergy, Zenon
      <3>2. Len(b) = 6
        BY <2>1
      <3> QED BY <3>1, <3>2
    <2>3. Deenumerate(data) = a \o b
      BY <1>1, <1>3, <1>6, <2>1 DEF Deenumerate
    <2>4. Flag(data.shape = 0) = 0
      BY <1>1, <1>6 DEF Flag
    <2>5. a \o b \in Seq(Int) /\ Len(a \o b) = Len(a) + Len(b)
      BY <1>4, <2>2, JoinedIntegers, Zenon
    <2>6. Energy(a \o b) = Energy(a) + Energy(b)
      BY <1>4, <2>2, EnergyJoined
    <2>7. places = 10
      BY <1>2, <1>6
    <2> QED BY <1>1, <1>2, <1>4, <2>2, <2>3, <2>4, <2>5, <2>6, <2>7
  <1>7. CASE shape \in 2..3
    <2>1. Deenumerate(data) = a
      BY <1>1, <1>3, <1>7 DEF Deenumerate
    <2>2. Flag(data.shape = 0) = 0
      BY <1>1, <1>7 DEF Flag
    <2>3. places = 16
      BY <1>2, <1>7
    <2> QED BY <1>1, <1>2, <1>4, <2>1, <2>2, <2>3
  <1> QED BY <1>2, <1>5, <1>6, <1>7

\* A vector of sixteen places, and the energy its shape has.
IsShape(sns) ==
    /\ Len(sns.c) = 16
    /\ Energy(sns.c) = PulsesOf(sns.shape) + Flag(sns.shape = 0)

\* The numbers, as they are taken out of the muxed one.
LEMMA Demuxed ==
    ASSUME NEW msb \in {0, 1}, NEW mux \in Nat, NEW ls, mux < MuxEnd(msb)
    PROVE  InRange(Demux(msb, ls, mux))
  <1>0. PICK high, rest, shape : /\ high = mux \div SizeA(msb) /\ rest = mux % SizeA(msb)
                                 /\ shape = IF msb = 0 THEN Flag(high < 2) ELSE 2 + Flag(high > 0)
    OBVIOUS
  <1>1. PICK size : size = SizeA(msb)
    OBVIOUS
  <1>2. size \in Nat \ {0}
    BY <1>1, SMT DEF SizeA
  <1>3. high \in Nat /\ rest \in 0..size - 1 /\ mux = size * high + rest
    <2>1. high = mux \div size /\ rest = mux % size
      BY <1>0, <1>1, Zenon
    <2>2. /\ mux \div size \in Int /\ mux % size \in 0..size - 1
          /\ mux = size * (mux \div size) + (mux % size) /\ (mux >= 0 => mux \div size >= 0)
      <3>1. mux \in Int
        OBVIOUS
      <3> QED BY <1>2, <3>1, Division, Zenon
    <2>3. high \in Int /\ rest \in 0..size - 1 /\ mux = size * high + rest /\ (mux >= 0 => high >= 0)
      BY <2>1, <2>2, Zenon
    <2> QED BY <2>3
  <1>4. msb = 0 => high < 14
    <2>1. msb = 0 => size = 2390004 /\ mux < 14 * 2390004
      BY <1>1, SMT DEF MuxEnd, SizeA
    <2>2. msb = 0 => mux = 2390004 * high + rest /\ rest >= 0
      BY <1>3, <2>1, SMTT(20)
    <2> QED BY <1>3, <2>1, <2>2, SMTT(20)
  <1>5. msb = 1 => (high > 0 => high = 1 /\ rest < 1549824)
    <2>1. ASSUME msb = 1 PROVE high > 0 => high = 1 /\ rest < 1549824
      <3>1. size = 15158272 /\ mux < 15158272 + 1549824
        BY <1>1, <2>1, SMT DEF SizeA, MuxEnd
      <3>2. PICK p, h, r : p = size * high /\ h = high /\ r = rest
        OBVIOUS
      <3>3. /\ h \in Nat /\ r \in Nat /\ mux = p + r
            /\ p \in Nat /\ (2 <= h => size * 2 <= p) /\ (h = 1 => p = size)
        <4>1. size \in Nat /\ high \in Nat /\ 2 \in Nat /\ rest \in Nat
          BY <1>2, <1>3
        <4>2. size * high \in Nat /\ (2 <= high => size * 2 <= size * high) /\ size * 1 = size
          <5>1. size * 1 = size
            BY <4>1
          <5> QED BY <4>1, <5>1, Products, Zenon
        <4> QED BY <1>3, <3>2, <4>1, <4>2, Zenon
      <3>4. h > 0 => h = 1 /\ r < 1549824
        BY <3>1, <3>3, SMTT(20)
      <3> QED BY <3>2, <3>4, SMT
    <2> QED BY <2>1, SMT
  <1>6. /\ shape \in 0..3 /\ (shape < 2 <=> msb = 0) /\ (shape = 0 <=> msb = 0 /\ high >= 2)
        /\ (shape = 3 <=> msb = 1 /\ high > 0)
    BY <1>0, <1>3 DEF Flag
  <1>7. PICK idxA, idxB : /\ idxA = IF shape = 3 THEN rest \div 2 ELSE rest
                          /\ idxB = IF shape = 0 THEN (high - 2) \div 2 ELSE 0
    OBVIOUS
  <1>8. idxA \in Nat /\ idxA < Vectors[PlacesOf(shape)][PulsesOf(shape) + 1]
    <2>1. shape \in {0, 1} => PlacesOf(shape) = 10 /\ PulsesOf(shape) = 10
      BY DEF PlacesOf, PulsesOf
    <2>2. shape = 2 => PlacesOf(shape) = 16 /\ PulsesOf(shape) = 8
      BY DEF PlacesOf, PulsesOf
    <2>3. shape = 3 => PlacesOf(shape) = 16 /\ PulsesOf(shape) = 6
      BY DEF PlacesOf, PulsesOf
    <2>4. /\ shape \in {0, 1} => Vectors[PlacesOf(shape)][PulsesOf(shape) + 1] = SizeA(0)
          /\ shape = 2 => Vectors[PlacesOf(shape)][PulsesOf(shape) + 1] = SizeA(1)
          /\ shape = 3 => Vectors[PlacesOf(shape)][PulsesOf(shape) + 1] = 774912
      BY <2>1, <2>2, <2>3, Ends, SMT
    <2>5. /\ shape \in {0, 1} => size = SizeA(0)
          /\ shape = 2 => size = SizeA(1)
          /\ shape = 3 => rest < 1549824
      BY <1>1, <1>5, <1>6, SMTT(20)
    <2>6. shape = 3 => rest \div 2 \in Nat /\ rest \div 2 < 774912
      BY <1>2, <1>3, <2>5, SMTT(20)
    <2>7. shape # 3 => rest \in Nat /\ rest < size
      BY <1>2, <1>3
    <2> QED BY <1>6, <1>7, <2>4, <2>5, <2>6, <2>7, SMTT(20)
  <1>9. idxB \in Nat /\ (shape = 0 => idxB < Vectors[6][2])
    <2>1. Vectors[6][2] = 6
      BY Ends, SMT
    <2>2. shape = 0 => (high - 2) \div 2 \in Nat /\ (high - 2) \div 2 < 6
      BY <1>3, <1>4, <1>6
    <2> QED BY <1>7, <2>1, <2>2
  <1>10. PICK p, q : p = (ls = 1) /\ q = (shape = 0 /\ high % 2 = 1)
    OBVIOUS
  <1>11. p \in BOOLEAN /\ q \in BOOLEAN
    BY <1>10, Zenon
  <1>12. InRange([shape |-> shape, lsA |-> p, idxA |-> idxA, idxB |-> idxB, lsB |-> q])
    BY <1>6, <1>8, <1>9, <1>11 DEF InRange
  <1>13. Demux(msb, ls, mux) = [shape |-> shape, lsA |-> p, idxA |-> idxA, idxB |-> idxB, lsB |-> q]
    BY <1>0, <1>7, <1>10, Zenon DEF Demux
  <1> QED BY <1>12, <1>13, Zenon

LEMMA SnsOfIsShape ==
    ASSUME NEW msb \in {0, 1}, NEW mux \in Nat, NEW lfcb, NEW hfcb, NEW gain, NEW ls,
           mux < MuxEnd(msb)
    PROVE  IsShape(SnsOf(msb, lfcb, hfcb, gain, ls, mux))
  <1>1. PICK data, sns : data = Demux(msb, ls, mux) /\ sns = SnsOf(msb, lfcb, hfcb, gain, ls, mux)
    OBVIOUS
  <1>2. sns.shape = data.shape /\ sns.c = Deenumerate(data)
    BY <1>1 DEF SnsOf
  <1>3. InRange(data)
    BY <1>1, Demuxed
  <1>4. /\ Len(Deenumerate(data)) = 16
        /\ Energy(Deenumerate(data)) = PulsesOf(data.shape) + Flag(data.shape = 0)
    BY <1>3, Deenumerated, Zenon
  <1> QED BY <1>1, <1>2, <1>4, Zenon DEF IsShape

\* Whatever arrives, the shape that is read is one the synthesis has.
LEMMA GetsSns ==
    ASSUME NEW b \in Stream
    PROVE  SnsGet(b).bits \in Stream /\ (SnsGet(b).valid => IsShape(SnsGet(b).value))
  <1>1. PICK head : head = GetFields(b, <<5, 5, 1>>)
    OBVIOUS
  <1>2. PICK fields : fields = head.value
    OBVIOUS
  <1>3. head.bits \in Stream /\ fields[3] \in {0, 1}
    <2>1. PICK sizes : sizes = <<5, 5, 1>>
      OBVIOUS
    <2>2. sizes \in Seq(1..32) /\ Len(sizes) = 3 /\ sizes[3] = 1 /\ 3 \in 1..3
      BY <2>1
    <2> QED BY <1>1, <1>2, <2>1, <2>2, GetsFields
  <1>4. PICK msb : msb = fields[3]
    OBVIOUS
  <1>5. PICK sizes : sizes = <<1 + msb, 1, 25 - msb>>
    OBVIOUS
  <1>6. sizes \in Seq(1..32) /\ Len(sizes) = 3
    BY <1>3, <1>4, <1>5
  <1>7. PICK r : r = GetFields(head.bits, sizes)
    OBVIOUS
  <1>8. r.bits \in Stream /\ r.value \in Seq(Nat) /\ Len(r.value) = 3
    BY <1>3, <1>6, <1>7, GetsFields
  <1>9. PICK mux : mux = r.value[3]
    OBVIOUS
  <1>10. mux \in Nat
    <2>1. 3 \in 1..3
      OBVIOUS
    <2> QED BY <1>8, <1>9, <2>1, Elements, Zenon
  <1>11. PICK valid : valid = (mux < MuxEnd(msb))
    OBVIOUS
  <1>12. PICK sns : sns = SnsOf(msb, fields[1], fields[2], r.value[1], r.value[2], mux)
    OBVIOUS
  <1>13. SnsGet(b) = Part(r.bits, IF valid THEN sns ELSE <<>>, valid)
    BY <1>1, <1>2, <1>4, <1>5, <1>7, <1>9, <1>11, <1>12 DEF SnsGet, SnsPart
  <1>14. /\ SnsGet(b).bits = r.bits /\ SnsGet(b).valid = valid
         /\ SnsGet(b).value = IF valid THEN sns ELSE <<>>
    BY <1>13 DEF Part
  <1>15. valid => IsShape(sns)
    BY <1>3, <1>4, <1>10, <1>11, <1>12, SnsOfIsShape
  <1> QED BY <1>8, <1>14, <1>15

-----------------------------------------------------------------------------
(* Writing bits                                                            *)

LEMMA Pieces ==
    ASSUME NEW S, NEW s \in Seq(S), NEW i \in Nat, NEW j \in Nat, 1 <= i, i <= j + 1, j <= Len(s)
    PROVE  SubSeq(s, i, j) \in Seq(S) /\ Len(SubSeq(s, i, j)) = j - i + 1
  OBVIOUS

LEMMA NewBuffer ==
    ASSUME NEW b \in Stream, NEW buffer \in Seq(Nat), Len(buffer) = Len(b.buffer)
    PROVE  [b EXCEPT !.buffer = buffer] \in Stream /\ [b EXCEPT !.buffer = buffer].buffer = buffer
  <1>1. /\ b \in LcBits /\ b.fw <= Len(b.buffer) /\ b.bw <= Len(b.buffer) /\ Len(b.accu) <= 32
        /\ 2^16 <= b.range /\ b.range < 2^24
    BY DEF Stream
  <1>2. PICK c : c = [b EXCEPT !.buffer = buffer]
    OBVIOUS
  <1>3. c \in LcBits /\ c.accu = b.accu /\ c.fw = b.fw /\ c.bw = b.bw /\ c.range = b.range /\ c.buffer = buffer
    BY <1>1, <1>2 DEF LcBits
  <1>4. c \in Stream
    BY <1>1, <1>3 DEF Stream
  <1> QED BY <1>2, <1>3, <1>4

\* Whole bytes of the accumulator go to the end of the buffer.
LEMMA FlushesAccu ==
    ASSUME NEW b \in Stream
    PROVE  AccuFlush(b) \in Stream
  <1>1. PICK m, top, fw, bw, accu : m = Len(b.accu) /\ top = Len(b.buffer) /\ fw = b.fw /\ bw = b.bw /\ accu = b.accu
    OBVIOUS
  <1>2. m \in 0..32 /\ top \in Nat /\ fw \in 0..top /\ bw \in 0..top /\ accu \in Seq({0, 1}) /\ Len(accu) = m
    BY <1>1, StreamFields
  <1>3. PICK nbytes : nbytes = Least(m \div 8, Most(bw - fw, 0))
    OBVIOUS
  <1>4. nbytes \in 0..bw /\ 8 * nbytes <= m
    BY <1>2, <1>3 DEF Least, Most
  <1>5. PICK rest : rest = SubSeq(accu, 8 * nbytes + 1, m)
    OBVIOUS
  <1>6. rest \in Seq({0, 1}) /\ Len(rest) <= 32
    <2>1. PICK k : k = 8 * nbytes
      OBVIOUS
    <2>2. k \in Nat /\ k <= m
      BY <1>2, <1>4, <2>1
    <2>3. SubSeq(accu, k + 1, m) \in Seq({0, 1}) /\ Len(SubSeq(accu, k + 1, m)) = m - (k + 1) + 1
      BY <1>2, <2>2, Pieces
    <2> QED BY <1>2, <1>5, <2>1, <2>2, <2>3
  <1> DEFINE byte(i) == ValueOf(SubSeq(accu, 8 * i + 1, 8 * i + 8))
             buffer == [j \in DOMAIN b.buffer |-> IF j \in bw - nbytes + 1 .. bw THEN byte(bw - j)
                                                  ELSE b.buffer[j]]
             kept == IF Len(rest) >= 8 THEN <<>> ELSE rest
             next == [b EXCEPT !.accu = kept, !.bw = bw - nbytes, !.buffer = buffer]
  <1>7. \A i \in 0..nbytes - 1 : byte(i) \in Nat
    <2> SUFFICES ASSUME NEW i \in 0..nbytes - 1 PROVE byte(i) \in Nat
      OBVIOUS
    <2>1. 8 * i + 1 \in Nat /\ 8 * i + 8 \in Nat /\ 1 <= 8 * i + 1 /\ 8 * i + 1 <= 8 * i + 8 + 1 /\ 8 * i + 8 <= m
      BY <1>2, <1>4
    <2>2. SubSeq(accu, 8 * i + 1, 8 * i + 8) \in Seq({0, 1})
      BY <1>2, <2>1, Pieces
    <2> QED BY <2>2, Values
  <1> HIDE DEF byte
  <1>8. buffer \in Seq(Nat) /\ Len(buffer) = top
    <2>1. DOMAIN b.buffer = 1..top /\ \A j \in 1..top : b.buffer[j] \in Nat
      BY <1>1, StreamFields
    <2>2. \A j \in 1..top : j \in bw - nbytes + 1 .. bw => bw - j \in 0..nbytes - 1
      BY <1>2, <1>4
    <2>3. \A j \in 1..top : buffer[j] \in Nat
      BY <1>7, <2>1, <2>2
    <2>4. buffer = [j \in 1..top |-> buffer[j]]
      BY <2>1
    <2> HIDE DEF buffer
    <2> QED BY <1>2, <2>3, <2>4
  <1>9. AccuFlush(b) = next
    <2> DEFINE nb == Least(Len(b.accu) \div 8, Most(b.bw - b.fw, 0))
               over == SubSeq(b.accu, 8 * nb + 1, Len(b.accu))
    <2>1. AccuFlush(b) =
              [b EXCEPT !.accu = IF Len(over) >= 8 THEN <<>> ELSE over, !.bw = b.bw - nb,
                        !.buffer = [j \in DOMAIN b.buffer |->
                                        IF j \in b.bw - nb + 1 .. b.bw
                                        THEN ValueOf(SubSeq(b.accu, 8 * (b.bw - j) + 1, 8 * (b.bw - j) + 8))
                                        ELSE b.buffer[j]]]
      BY DEF AccuFlush
    <2>2. nb = nbytes
      BY <1>1, <1>3, Zenon
    <2> HIDE DEF nb
    <2>3. over = rest
      BY <1>1, <1>5, <2>2, Zenon
    <2> HIDE DEF over
    <2> QED BY <1>1, <2>1, <2>2, <2>3, Zenon DEF byte
  <1> HIDE DEF buffer
  <1>10. kept \in Seq({0, 1}) /\ Len(kept) <= 32
    <2>1. <<>> \in Seq({0, 1}) /\ Len(<<>>) <= 32
      OBVIOUS
    <2> QED BY <1>6, <2>1
  <1>11. bw - nbytes \in 0..top
    BY <1>2, <1>4
  <1> HIDE DEF kept
  <1>12. PICK b1, b2, b3 : /\ b1 = [b EXCEPT !.accu = kept] /\ b2 = [b1 EXCEPT !.bw = bw - nbytes]
                           /\ b3 = [b2 EXCEPT !.buffer = buffer]
    OBVIOUS
  <1>13. b1 \in Stream /\ b1.buffer = b.buffer
    BY <1>10, <1>12, NewAccu
  <1>14. b2 \in Stream /\ b2.buffer = b.buffer
    <2>1. PICK k : k = bw - nbytes
      OBVIOUS
    <2>2. k \in 0..Len(b1.buffer)
      BY <1>1, <1>11, <1>13, <2>1
    <2>3. b2 = [b1 EXCEPT !.bw = k]
      BY <1>12, <2>1
    <2>4. b2.buffer = b1.buffer
      BY <1>13, <2>3 DEF Stream, LcBits
    <2> QED BY <1>13, <2>2, <2>3, <2>4, NewBackwards
  <1>15. b3 \in Stream
    BY <1>1, <1>8, <1>12, <1>14, NewBuffer
  <1>16. next = b3
    BY <1>12
  <1> QED BY <1>9, <1>15, <1>16

LEMMA PutsBits ==
    ASSUME NEW b \in Stream, NEW v \in Int, NEW n \in 0..32
    PROVE  PutBits(b, v, n) \in Stream
  <1>1. PICK m, accu, bits : m = Len(b.accu) /\ accu = b.accu /\ bits = BitsOf(v, n)
    OBVIOUS
  <1>2. m \in 0..32 /\ accu \in Seq({0, 1}) /\ Len(accu) = m
    BY <1>1, StreamFields
  <1>3. bits \in Seq({0, 1}) /\ Len(bits) = n
    BY <1>1, BitSequences
  <1>4. PICK n1 : n1 = Least(AccuBits - m, n)
    OBVIOUS
  <1>5. n1 \in 0..n /\ m + n1 <= 32
    BY <1>2, <1>4 DEF Least, AccuBits
  <1>6. PICK head, tail : head = SubSeq(bits, 1, n1) /\ tail = SubSeq(bits, n1 + 1, n)
    OBVIOUS
  <1>7. head \in Seq({0, 1}) /\ Len(head) = n1
    <2>1. n1 \in Nat /\ 1 <= n1 + 1 /\ n1 <= Len(bits) /\ n1 - 1 + 1 = n1 /\ 1 \in Nat
      BY <1>3, <1>5
    <2> QED BY <1>3, <1>6, <2>1, Pieces
  <1>8. tail \in Seq({0, 1}) /\ Len(tail) <= 32
    <2>1. n1 + 1 \in Nat /\ n \in Nat /\ 1 <= n1 + 1 /\ n1 + 1 <= n + 1 /\ n <= Len(bits)
      BY <1>3, <1>5
    <2>2. Len(tail) = n - (n1 + 1) + 1
      BY <1>3, <1>6, <2>1, Pieces
    <2>3. tail \in Seq({0, 1})
      BY <1>3, <1>6, <2>1, Pieces
    <2> QED BY <1>5, <2>2, <2>3
  <1>9. PICK filled, next : filled = [b EXCEPT !.accu = accu \o head] /\ next = [AccuFlush(filled) EXCEPT !.accu = tail]
    OBVIOUS
  <1>10. PutBits(b, v, n) = IF m + n <= AccuBits THEN filled ELSE next
    BY <1>1, <1>4, <1>6, <1>9 DEF PutBits
  <1>11. filled \in Stream
    <2>1. PICK all : all = accu \o head
      OBVIOUS
    <2>2. all \in Seq({0, 1}) /\ Len(all) = m + n1
      BY <1>2, <1>7, <2>1, Joined
    <2>3. Len(all) <= 32
      BY <1>5, <2>2
    <2> QED BY <1>9, <2>1, <2>2, <2>3, NewAccu
  <1>12. next \in Stream
    BY <1>8, <1>9, <1>11, FlushesAccu, NewAccu
  <1> QED BY <1>10, <1>11, <1>12

\* A coder between two renormalisations.
Unsettled == {b \in LcBits : b.fw <= Len(b.buffer) /\ b.bw <= Len(b.buffer) /\ Len(b.accu) <= 32}

LEMMA Settles ==
    /\ \A b \in Stream : b \in Unsettled
    /\ \A b \in Unsettled : b.range \in 2^16..2^24 - 1 => b \in Stream
  <1>1. \A b \in Stream : b \in Unsettled
    BY Zenon DEF Stream, Unsettled
  <1>2. ASSUME NEW b \in Unsettled, b.range \in 2^16..2^24 - 1 PROVE b \in Stream
    <2>1. 2^16 <= b.range /\ b.range < 2^24
      BY <1>2
    <2> QED BY <2>1, Zenon DEF Stream, Unsettled
  <1> QED BY <1>1, <1>2

LEMMA Tabulated ==
    ASSUME NEW S, NEW n \in Nat, NEW s, s = [j \in 1..n |-> s[j]], \A j \in 1..n : s[j] \in S
    PROVE  s \in Seq(S) /\ Len(s) = n
  <1>1. PICK t : t = [j \in 1..n |-> s[j]]
    OBVIOUS
  <1>2. t \in [1..n -> S]
    BY <1>1
  <1>3. t \in Seq(S) /\ Len(t) = n
    BY <1>2
  <1> QED BY <1>1, <1>3, Zenon

\* Bytes go to the front of the buffer, as long as there is room.
LEMMA AcPuts ==
    ASSUME NEW b \in Unsettled, NEW bytes \in Seq(Int)
    PROVE  \E fw \in Nat, buffer \in Seq(Nat) :
               /\ AcPut(b, bytes) = [b EXCEPT !.fw = fw, !.buffer = buffer]
               /\ fw <= Len(buffer) /\ Len(buffer) = Len(b.buffer)
  <1>1. PICK top, fw, size : top = Len(b.buffer) /\ fw = b.fw /\ size = Len(bytes)
    OBVIOUS
  <1>2. /\ b.buffer \in Seq(Nat) /\ top \in Nat /\ fw \in Nat /\ fw <= top /\ size \in Nat
        /\ DOMAIN b.buffer = 1..top /\ \A j \in 1..top : b.buffer[j] \in Nat
        /\ \A j \in 1..size : bytes[j] \in Int
    <2>1. b \in LcBits /\ b.fw <= Len(b.buffer)
      BY DEF Unsettled
    <2>2. b.buffer \in Seq(Nat) /\ b.fw \in Nat
      BY <2>1 DEF LcBits
    <2>3. Len(b.buffer) \in Nat /\ DOMAIN b.buffer = 1..Len(b.buffer) /\ \A j \in 1..Len(b.buffer) : b.buffer[j] \in Nat
      BY <2>2
    <2>4. Len(bytes) \in Nat /\ \A j \in 1..Len(bytes) : bytes[j] \in Int
      BY Elements
    <2> QED BY <1>1, <2>1, <2>2, <2>3, <2>4, Zenon
  <1> DEFINE room == Least(size, top - fw)
             buffer == [j \in DOMAIN b.buffer |-> IF j \in fw + 1 .. fw + room THEN bytes[j - fw] % 256
                                                  ELSE b.buffer[j]]
  <1>3. AcPut(b, bytes) = [b EXCEPT !.fw = fw + room, !.buffer = buffer]
    BY <1>1 DEF AcPut
  <1>4. room \in 0..size /\ fw + room <= top
    BY <1>2 DEF Least
  <1> HIDE DEF room
  <1>5. buffer \in Seq(Nat) /\ Len(buffer) = top
    <2>1. \A x \in Int : x % 256 \in Nat
      OBVIOUS
    <2>2. \A j \in 1..top : j \in fw + 1 .. fw + room => j - fw \in 1..size
      BY <1>2, <1>4
    <2>3. \A j \in 1..top : buffer[j] \in Nat
      BY <1>2, <2>1, <2>2
    <2>4. buffer = [j \in 1..top |-> buffer[j]]
      BY <1>2
    <2>5. top \in Nat
      BY <1>2
    <2>6. PICK q : q = buffer
      OBVIOUS
    <2> HIDE DEF buffer
    <2>7. q = [j \in 1..top |-> q[j]] /\ \A j \in 1..top : q[j] \in Nat
      BY <2>3, <2>4, <2>6, Zenon
    <2>8. q \in Seq(Nat) /\ Len(q) = top
      BY <2>5, <2>7, Tabulated
    <2> QED BY <2>6, <2>8, Zenon
  <1> HIDE DEF buffer
  <1>6. fw + room \in Nat
    BY <1>2, <1>4
  <1> QED BY <1>1, <1>3, <1>4, <1>5, <1>6

\* A byte is shifted out, or waits: then there is one at hand, or some that wait.
LEMMA AcShifts ==
    ASSUME NEW b \in Unsettled
    PROVE  /\ AcShift(b) \in Unsettled /\ AcShift(b).range = b.range
           /\ AcShift(b).carryCount > 0 \/ AcShift(b).cache >= 0
  <1>1. /\ b \in LcBits /\ b.fw <= Len(b.buffer) /\ b.bw <= Len(b.buffer) /\ Len(b.accu) <= 32
    BY DEF Unsettled
  <1>2. /\ b.buffer \in Seq(Nat) /\ b.low \in Nat /\ b.cache \in Int /\ b.carry \in {0, 1}
        /\ b.carryCount \in Nat /\ b.range \in Nat
    BY <1>1 DEF LcBits
  <1>3. PICK low, top : low = (b.low % 2^16) * 2^8 /\ top = b.low \div 2^16
    OBVIOUS
  <1>4. low \in Nat /\ top \in Nat
    BY <1>2, <1>3, SMTT(30)
  <1>5. PICK cached, waiting :
            /\ cached = IF b.cache >= 0 THEN <<b.cache + b.carry>> ELSE <<>>
            /\ waiting = [i \in 1..b.carryCount |-> IF b.carry = 1 THEN 0 ELSE 255]
    OBVIOUS
  <1>6. cached \in Seq(Int) /\ waiting \in Seq(Int)
    <2>1. b.cache + b.carry \in Int
      BY <1>2
    <2>2. <<b.cache + b.carry>> \in Seq(Int) /\ <<>> \in Seq(Int)
      BY <2>1
    <2>3. waiting \in Seq(Int)
      BY <1>2, <1>5
    <2> QED BY <1>5, <2>2, <2>3
  <1>7. PICK ready : ready = cached \o waiting
    OBVIOUS
  <1>8. ready \in Seq(Int)
    BY <1>6, <1>7, JoinedIntegers, Zenon
  <1>9. PICK next : next = [b EXCEPT !.low = low]
    OBVIOUS
  <1>10. /\ next \in LcBits /\ next.fw = b.fw /\ next.bw = b.bw /\ next.buffer = b.buffer
         /\ next.accu = b.accu /\ next.range = b.range /\ next.carryCount = b.carryCount
    BY <1>1, <1>4, <1>9 DEF LcBits
  <1>11. next \in Unsettled
    BY <1>1, <1>10, Zenon DEF Unsettled
  <1>12. PICK fw \in Nat, buffer \in Seq(Nat) :
             /\ AcPut(next, ready) = [next EXCEPT !.fw = fw, !.buffer = buffer]
             /\ fw <= Len(buffer) /\ Len(buffer) = Len(next.buffer)
    BY <1>8, <1>11, AcPuts
  <1>13. PICK shifted, waits : 
             /\ shifted = [AcPut(next, ready) EXCEPT !.cache = top, !.carry = 0, !.carryCount = 0]
             /\ waits = [next EXCEPT !.carryCount = next.carryCount + 1]
    OBVIOUS
  <1>14. AcShift(b) = IF b.low < 255 * 2^16 \/ b.carry = 1 THEN shifted ELSE waits
    <2>1. AcShift(b) =
              IF b.low < 255 * 2^16 \/ b.carry = 1
              THEN [AcPut([b EXCEPT !.low = (b.low % 2^16) * 2^8],
                          (IF b.cache >= 0 THEN <<b.cache + b.carry>> ELSE <<>>)
                              \o [i \in 1..b.carryCount |-> IF b.carry = 1 THEN 0 ELSE 255])
                       EXCEPT !.cache = b.low \div 2^16, !.carry = 0, !.carryCount = 0]
              ELSE [[b EXCEPT !.low = (b.low % 2^16) * 2^8] EXCEPT
                        !.carryCount = [b EXCEPT !.low = (b.low % 2^16) * 2^8].carryCount + 1]
      BY DEF AcShift
    <2>2. CASE b.low < 255 * 2^16 \/ b.carry = 1
      BY <1>3, <1>5, <1>7, <1>9, <1>13, <2>1, <2>2, SMT
    <2>3. CASE ~(b.low < 255 * 2^16 \/ b.carry = 1)
      BY <1>3, <1>9, <1>13, <2>1, <2>3, SMT
    <2> QED BY <2>2, <2>3
  <1>15. /\ shifted \in LcBits /\ shifted.fw = fw /\ shifted.bw = b.bw /\ shifted.buffer = buffer
         /\ shifted.accu = b.accu /\ shifted.range = b.range /\ shifted.cache = top
    <2>1. PICK put : put = [next EXCEPT !.fw = fw, !.buffer = buffer]
      OBVIOUS
    <2>2. /\ put \in LcBits /\ put.fw = fw /\ put.bw = b.bw /\ put.buffer = buffer
          /\ put.accu = b.accu /\ put.range = b.range
      BY <1>10, <2>1 DEF LcBits
    <2>3. shifted = [put EXCEPT !.cache = top, !.carry = 0, !.carryCount = 0]
      BY <1>12, <1>13, <2>1, Zenon
    <2>4. PICK s1, s2 : s1 = [put EXCEPT !.cache = top] /\ s2 = [s1 EXCEPT !.carry = 0]
      OBVIOUS
    <2>5. /\ s1 \in LcBits /\ s1.fw = fw /\ s1.bw = b.bw /\ s1.buffer = buffer
          /\ s1.accu = b.accu /\ s1.range = b.range /\ s1.cache = top
      <3>1. top \in Int
        BY <1>4
      <3> QED BY <2>2, <2>4, <3>1 DEF LcBits
    <2>6. /\ s2 \in LcBits /\ s2.fw = fw /\ s2.bw = b.bw /\ s2.buffer = buffer
          /\ s2.accu = b.accu /\ s2.range = b.range /\ s2.cache = top
      BY <2>4, <2>5 DEF LcBits
    <2>7. shifted = [s2 EXCEPT !.carryCount = 0]
      BY <2>3, <2>4, Zenon
    <2> QED BY <2>6, <2>7 DEF LcBits
  <1>16. shifted \in Unsettled /\ shifted.range = b.range /\ shifted.cache >= 0
    <2>1. fw <= Len(buffer) /\ Len(buffer) = Len(b.buffer)
      BY <1>10, <1>12
    <2>2. shifted.cache >= 0
      BY <1>4, <1>15
    <2> QED BY <1>1, <1>15, <2>1, <2>2, Zenon DEF Unsettled
  <1>17. waits \in Unsettled /\ waits.range = b.range /\ waits.carryCount > 0
    <2>1. b.carryCount + 1 \in Nat /\ b.carryCount + 1 > 0
      BY <1>2
    <2>2. /\ waits \in LcBits /\ waits.fw = b.fw /\ waits.bw = b.bw /\ waits.buffer = b.buffer
          /\ waits.accu = b.accu /\ waits.range = b.range /\ waits.carryCount = b.carryCount + 1
      BY <1>10, <1>13, <2>1 DEF LcBits
    <2> QED BY <1>1, <2>1, <2>2, Zenon DEF Unsettled
  <1> QED BY <1>14, <1>16, <1>17

\* Between renormalisations the range and `low` change.
LEMMA NewRange ==
    ASSUME NEW b \in Unsettled, NEW range \in Nat, NEW c, c = [b EXCEPT !.range = range]
    PROVE  c \in Unsettled /\ c.range = range
  <1>1. b \in LcBits /\ b.fw <= Len(b.buffer) /\ b.bw <= Len(b.buffer) /\ Len(b.accu) <= 32
    BY DEF Unsettled
  <1>2. /\ c \in LcBits /\ c.fw = b.fw /\ c.bw = b.bw /\ c.buffer = b.buffer /\ c.accu = b.accu
        /\ c.range = range
    BY <1>1 DEF LcBits
  <1> QED BY <1>1, <1>2, Zenon DEF Unsettled

LEMMA NewLow ==
    ASSUME NEW b \in Unsettled, NEW low \in Nat, NEW carry \in {0, 1},
           NEW c, c = [b EXCEPT !.low = low, !.carry = carry]
    PROVE  c \in Unsettled /\ c.range = b.range
  <1>1. b \in LcBits /\ b.fw <= Len(b.buffer) /\ b.bw <= Len(b.buffer) /\ Len(b.accu) <= 32
    BY DEF Unsettled
  <1>2. PICK d : d = [b EXCEPT !.low = low]
    OBVIOUS
  <1>3. /\ d \in LcBits /\ d.fw = b.fw /\ d.bw = b.bw /\ d.buffer = b.buffer /\ d.accu = b.accu
        /\ d.range = b.range
    BY <1>1, <1>2 DEF LcBits
  <1>4. c = [d EXCEPT !.carry = carry]
    BY <1>2, Zenon
  <1>5. /\ c \in LcBits /\ c.fw = b.fw /\ c.bw = b.bw /\ c.buffer = b.buffer /\ c.accu = b.accu
        /\ c.range = b.range
    BY <1>3, <1>4 DEF LcBits
  <1> QED BY <1>1, <1>5, Zenon DEF Unsettled

\* A symbol that has a share of the range leaves a settled writer.
LEMMA PutsSymbol ==
    ASSUME NEW b \in Stream, NEW n \in 1..17, NEW model, IsModel(model, n), NEW s \in 0..n - 1
    PROVE  PutSymbol(b, model, s) \in Stream
  <1> DEFINE range == b.range \div Whole
             low == b.low + range * model[s].low
             coded == [b EXCEPT !.low = low % Full, !.range = range * model[s].range,
                                !.carry = IF low >= Full THEN 1 ELSE b.carry]
             next(c, i) == [AcShift(c) EXCEPT !.range = AcShift(c).range * 2^8]
             seq == [i \in 1..Shifts(coded.range) |-> i]
             first == coded
             Body(f) == [i \in 0..Len(seq) |-> IF i = 0 THEN first ELSE next(f[i - 1], seq[i])]
             after == CHOOSE f : f = Body(f)
  <1>1. PutSymbol(b, model, s) = after[Len(seq)]
    BY DEF PutSymbol, Loop
  <1>2. /\ b \in Unsettled /\ b.range \in 2^16..2^24 - 1 /\ b.low \in Nat /\ b.carry \in {0, 1}
    BY Settles, StreamFields
  <1>3. /\ s \in 0..16 /\ model[s].low \in Nat /\ model[s].range \in 1..Whole
    <2>1. s \in 0..16 /\ s < n
      OBVIOUS
    <2>2. model[s].low \in 0..Whole /\ model[s].range \in 0..Whole /\ model[s].range > 0
      BY <2>1, Shares, Zenon
    <2> QED BY <2>1, <2>2 DEF Whole
  <1>4. range \in 64..2^14 - 1 /\ range * model[s].range \in 64..2^24 - 1
    BY <1>2, <1>3, Portions, Zenon
  <1> HIDE DEF range
  <1>5. low \in Nat
    <2>1. range \in Nat
      BY <1>4
    <2>2. PICK p : p = range * model[s].low
      OBVIOUS
    <2>3. p \in Nat
      BY <1>3, <2>1, <2>2, Products, Zenon
    <2>4. b.low + p \in Nat
      BY <1>2, <2>3
    <2> QED BY <2>2, <2>4, Zenon
  <1> HIDE DEF low
  <1>6. PICK l, r, carry : /\ l = low % Full /\ r = range * model[s].range
                           /\ carry = IF low >= Full THEN 1 ELSE b.carry
    OBVIOUS
  <1>7. l \in Nat /\ r \in 64..2^24 - 1 /\ carry \in {0, 1}
    BY <1>2, <1>4, <1>5, <1>6 DEF Full
  <1>8. coded \in Unsettled /\ coded.range = r
    <2>1. coded = [b EXCEPT !.low = l, !.range = r, !.carry = carry]
      BY <1>6, Zenon
    <2>2. r \in Nat
      BY <1>7
    <2>3. l \in Nat /\ carry \in {0, 1}
      BY <1>7
    <2>4. PICK c, d : c = [b EXCEPT !.low = l, !.carry = carry] /\ d = [c EXCEPT !.range = r]
      OBVIOUS
    <2>5. b \in Unsettled
      BY <1>2
    <2>6. c \in Unsettled
      BY <2>3, <2>4, <2>5, NewLow
    <2>7. d \in Unsettled /\ d.range = r
      BY <2>2, <2>4, <2>6, NewRange
    <2>8. coded = d
      BY <2>1, <2>4, Zenon
    <2> QED BY <2>7, <2>8, Zenon
  <1> HIDE DEF coded
  <1>9. PICK shifts : shifts = Shifts(r)
    OBVIOUS
  <1>10. shifts \in 0..2 /\ r * 2^(8 * shifts) \in 2^16..2^24 - 1
    BY <1>7, <1>9, Renormalised
  <1>11. seq = [i \in 1..shifts |-> i]
    BY <1>8, <1>9
  <1>12. Len(seq) = shifts /\ \A i \in 1..shifts : seq[i] = i
    <2> HIDE DEF seq
    <2> QED BY <1>10, <1>11
  <1> DEFINE scaled(i) == IF i = 0 THEN r ELSE IF i = 1 THEN r * 2^8 ELSE r * 2^16
             S == [i \in 0..shifts |-> {c \in Unsettled : c.range = scaled(i)}]
  <1>13. ASSUME NEW i \in 1..shifts, NEW c \in S[i - 1] PROVE next(c, i) \in S[i]
    <2>1. i \in 0..shifts /\ i - 1 \in 0..shifts /\ i \in 1..2
      BY <1>10
    <2>2. c \in Unsettled /\ c.range = scaled(i - 1)
      BY <1>13, <2>1
    <2>3. PICK d : d = AcShift(c)
      OBVIOUS
    <2>4. d \in Unsettled /\ d.range = scaled(i - 1)
      BY <2>2, <2>3, AcShifts
    <2>5. scaled(i - 1) * 2^8 = scaled(i) /\ scaled(i) \in Nat
      BY <1>7, <2>1
    <2> HIDE DEF scaled
    <2>6. next(c, i) = [d EXCEPT !.range = scaled(i)]
      BY <2>3, <2>4, <2>5, Zenon
    <2>7. next(c, i) \in Unsettled /\ next(c, i).range = scaled(i)
      <3> HIDE DEF next
      <3> QED BY <2>4, <2>5, <2>6, NewRange
    <2> HIDE DEF next
    <2> QED BY <2>1, <2>7
  <1>14. first \in S[0]
    <2>1. 0 \in 0..shifts
      BY <1>10
    <2> QED BY <1>8, <2>1
  <1>15. shifts \in Nat
    BY <1>10
  <1> HIDE DEF next, S, first, seq
  <1>16. PICK step : step = [i \in 1..shifts |-> [a \in S[i - 1] |-> next(a, i)]]
    OBVIOUS
  <1>17. \A i \in 1..shifts : \A a \in S[i - 1] : step[i][a] = next(a, i)
    BY <1>16
  <1>18. PICK f : RunIn(f, S, shifts, first, step)
    BY <1>15, <1>13, <1>14, <1>17, IterateIn
  <1>19. f = Body(f)
    <2>1. f \in [0..shifts -> UNION {S[i] : i \in 0..shifts}] /\ f[0] = first
      BY <1>18 DEF RunIn
    <2>2. \A i \in 1..shifts : f[i] = next(f[i - 1], seq[i])
      <3>1. \A i \in 1..shifts : f[i - 1] \in S[i - 1] /\ f[i] = step[i][f[i - 1]]
        BY <1>18 DEF RunIn
      <3>2. \A i \in 1..shifts : seq[i] = i
        BY <1>12
      <3> QED BY <1>17, <3>1, <3>2, Zenon
    <2> QED BY <1>12, <2>1, <2>2
  <1>20. after = Body(after)
    <2> HIDE DEF Body
    <2> QED BY <1>19, Zenon
  <1> HIDE DEF after
  <1>21. after[0] = first /\ \A i \in 1..shifts : after[i] = next(after[i - 1], i)
    BY <1>15, <1>12, <1>20
  <1>22. after[shifts] \in S[shifts]
    BY <1>15, <1>13, <1>14, <1>21, LeadsTo
  <1>23. after[shifts] \in Unsettled /\ after[shifts].range = r * 2^(8 * shifts)
    <2>1. after[shifts] \in Unsettled /\ after[shifts].range = scaled(shifts)
      <3> HIDE DEF scaled
      <3>1. shifts \in 0..shifts
        BY <1>15
      <3> QED BY <1>22, <3>1 DEF S
    <2>2. scaled(shifts) = r * 2^(8 * shifts)
      <3>1. shifts = 0 \/ shifts = 1 \/ shifts = 2
        BY <1>10
      <3>2. CASE shifts = 0
        <4>1. 2^(8 * shifts) = 1
          <5>1. 8 * shifts = 0 /\ 2^0 = 1
            BY <3>2
          <5> QED BY <5>1
        <4> QED BY <1>7, <3>2, <4>1
      <3>3. CASE shifts = 1
        <4>1. 2^(8 * shifts) = 2^8 /\ shifts # 0
          <5>1. 8 * shifts = 8 /\ shifts # 0
            BY <3>3
          <5> QED BY <5>1, Zenon
        <4> QED BY <3>3, <4>1, Zenon
      <3>4. CASE shifts = 2
        <4>1. 2^(8 * shifts) = 2^16 /\ shifts # 0 /\ shifts # 1
          <5>1. 8 * shifts = 16 /\ shifts # 0 /\ shifts # 1
            BY <3>4
          <5> QED BY <5>1, Zenon
        <4> QED BY <4>1, Zenon
      <3> QED BY <3>1, <3>2, <3>3, <3>4
    <2> HIDE DEF scaled
    <2> QED BY <2>1, <2>2, Zenon
  <1>24. after[shifts] \in Stream
    BY <1>10, <1>23, Settles, Zenon
  <1> QED BY <1>1, <1>12, <1>24, Zenon

LEMMA Growing ==
    ASSUME NEW k \in 0..30
    PROVE  \A j \in 0..30 : j <= k => 2^j <= 2^k
  <1>1. \A j \in 0..30 : 2^j \in Nat
    BY Powers
  <1> SUFFICES ASSUME NEW j \in 0..30, j <= k PROVE 2^j <= 2^k
    OBVIOUS
  <1> DEFINE A == {i \in 0..30 : j <= i => 2^j <= 2^i}
  <1>2. 0 \in A
    <2>1. j <= 0 => j = 0
      OBVIOUS
    <2>2. j = 0 => 2^j <= 2^0
      BY <1>1
    <2> QED BY <2>1, <2>2
  <1>3. ASSUME NEW i \in 0..30, i \in A, i < 30 PROVE i + 1 \in A
    <2>1. i + 1 \in 0..30 /\ (j <= i + 1 => j <= i \/ j = i + 1)
      BY <1>3
    <2>2. 2^i \in Nat /\ 2^(i + 1) = 2 * 2^i
      BY <2>1, Powers
    <2>3. 2^i <= 2^(i + 1)
      BY <2>2
    <2>4. CASE j <= i
      <3>1. PICK p, q, r : p = 2^j /\ q = 2^i /\ r = 2^(i + 1)
        OBVIOUS
      <3>2. p \in Nat /\ q \in Nat /\ r \in Nat /\ p <= q /\ q <= r
        BY <1>1, <1>3, <2>1, <2>3, <2>4, <3>1
      <3>3. p <= r
        BY <3>2
      <3> QED BY <2>1, <3>1, <3>3
    <2>5. CASE j = i + 1
      BY <1>1, <2>1, <2>5
    <2>6. CASE ~(j <= i) /\ j # i + 1
      BY <2>1, <2>6
    <2> QED BY <2>4, <2>5, <2>6
  <1>4. \A i \in 0..30 : i \in A
    <2>1. 30 \in Nat
      OBVIOUS
    <2> HIDE DEF A
    <2> QED BY <1>2, <1>3, <2>1, BoundedInduction
  <1> QED BY <1>4

LEMMA Lengths ==
    ASSUME NEW range \in 2^16..2^24 - 1
    PROVE  BitLength(range) \in 17..24
  <1>1. PICK k : k = BitLength(range)
    OBVIOUS
  <1>2. k \in 0..30 /\ range < 2^k /\ (k = 0 \/ 2^(k - 1) <= range)
    <2>1. range \in Nat /\ range < 2^30
      OBVIOUS
    <2> QED BY <1>1, <2>1, BitLengths
  <1>3. ~(k <= 16)
    <2> SUFFICES ASSUME k <= 16 PROVE FALSE
      OBVIOUS
    <2>1. 16 \in 0..30
      OBVIOUS
    <2>2. 2^k <= 2^16 /\ 2^k \in Nat
      BY <1>2, <2>1, Growing, Powers
    <2>3. PICK p : p = 2^k
      OBVIOUS
    <2>4. p \in Nat /\ range < p /\ p <= 2^16
      BY <1>2, <2>2, <2>3
    <2> QED BY <2>4
  <1>4. ~(k >= 25)
    <2> SUFFICES ASSUME k >= 25 PROVE FALSE
      OBVIOUS
    <2>1. 24 \in 0..30 /\ k - 1 \in 0..30 /\ 24 <= k - 1 /\ k # 0
      BY <1>2
    <2>2. 2^24 <= 2^(k - 1) /\ 2^(k - 1) \in Nat
      BY <2>1, Growing, Powers
    <2>3. PICK p : p = 2^(k - 1)
      OBVIOUS
    <2>4. p \in Nat /\ p <= range /\ 2^24 <= p
      BY <1>2, <2>1, <2>2, <2>3
    <2> QED BY <2>4
  <1> QED BY <1>1, <1>2, <1>3, <1>4

\* Cutting the low bits of a number that is cut to 24 bits.
LEMMA Cuts ==
    ASSUME NEW v \in Nat, NEW k \in 15..23
    PROVE  (v % Full) - (v % 2^k) \in Nat
  <1>1. CASE k = 15
    BY <1>1, SMTT(20) DEF Full
  <1>2. CASE k = 16
    BY <1>2, SMTT(20) DEF Full
  <1>3. CASE k = 17
    BY <1>3, SMTT(20) DEF Full
  <1>4. CASE k = 18
    BY <1>4, SMTT(20) DEF Full
  <1>5. CASE k = 19
    BY <1>5, SMTT(20) DEF Full
  <1>6. CASE k = 20
    BY <1>6, SMTT(20) DEF Full
  <1>7. CASE k = 21
    BY <1>7, SMTT(20) DEF Full
  <1>8. CASE k = 22
    BY <1>8, SMTT(20) DEF Full
  <1>9. CASE k = 23
    BY <1>9, SMTT(20) DEF Full
  <1> QED BY <1>1, <1>2, <1>3, <1>4, <1>5, <1>6, <1>7, <1>8, <1>9

\* The last bytes of the number leave bytes in the buffer.
LEMMA EndsArithmetic ==
    ASSUME NEW b \in Unsettled, b.carryCount > 0 \/ b.cache >= 0, NEW last \in 1..8
    PROVE  EndArithmetic(b, last).buffer \in Seq(Nat)
  <1>1. PICK held, w : held = (b.carryCount > 0) /\ w = 2^(8 - last)
    OBVIOUS
  <1>2. w \in Nat \ {0}
    <2>1. 8 - last \in 0..30
      OBVIOUS
    <2> QED BY <1>1, <2>1, Powers
  <1>3. PICK endVal : endVal = IF held THEN IF last < 8 THEN 0 ELSE 255 ELSE b.cache \div w
    OBVIOUS
  <1>4. /\ b \in LcBits /\ b.fw <= Len(b.buffer) /\ b.fw \in Nat /\ b.buffer \in Seq(Nat)
        /\ b.cache \in Int /\ b.carryCount \in Nat
    <2>1. b \in LcBits /\ b.fw <= Len(b.buffer)
      BY DEF Unsettled
    <2> QED BY <2>1 DEF LcBits
  <1>5. endVal \in Nat
    <2>1. CASE held
      BY <1>3, <2>1, SMT
    <2>2. CASE ~held
      <3>1. b.cache >= 0
        BY <1>1, <2>2
      <3>2. PICK cache : cache = b.cache
        OBVIOUS
      <3>3. cache \in Nat
        BY <1>4, <3>1, <3>2
      <3>4. cache \div w \in Nat
        BY <1>2, <3>3, Division
      <3> QED BY <1>3, <2>2, <3>2, <3>4
    <2> QED BY <2>1, <2>2
  <1>6. PICK bytes : bytes = <<b.cache>> \o [i \in 1..b.carryCount - 1 |-> 255]
    OBVIOUS
  <1>7. ASSUME held PROVE bytes \in Seq(Int)
    <2>1. b.carryCount - 1 \in Nat
      <3>1. b.carryCount > 0
        BY <1>1, <1>7
      <3> QED BY <1>4, <3>1
    <2>2. [i \in 1..b.carryCount - 1 |-> 255] \in Seq(Int)
      BY <2>1, SMT
    <2>3. <<b.cache>> \in Seq(Int)
      BY <1>4
    <2> QED BY <1>6, <2>2, <2>3, JoinedIntegers, Zenon
  <1>8. PICK c : c = IF held THEN AcPut(b, bytes) ELSE b
    OBVIOUS
  <1>9. c \in LcBits /\ c.buffer \in Seq(Nat) /\ c.fw \in Nat
    <2>1. CASE held
      <3>1. bytes \in Seq(Int) /\ c = AcPut(b, bytes)
        BY <1>7, <1>8, <2>1
      <3>2. PICK fw \in Nat, buffer \in Seq(Nat) :
                /\ AcPut(b, bytes) = [b EXCEPT !.fw = fw, !.buffer = buffer]
                /\ fw <= Len(buffer) /\ Len(buffer) = Len(b.buffer)
        <4>1. b \in Unsettled /\ bytes \in Seq(Int)
          BY <3>1
        <4> QED BY <4>1, AcPuts, Zenon
      <3> QED BY <1>4, <3>1, <3>2 DEF LcBits
    <2>2. CASE ~held
      BY <1>4, <1>8, <2>2
    <2> QED BY <2>1, <2>2
  <1>10. EndArithmetic(b, last) =
             IF c.fw < Len(c.buffer)
             THEN [c EXCEPT !.buffer = [c.buffer EXCEPT ![c.fw + 1] = (c.buffer[c.fw + 1] % w) + endVal * w]]
             ELSE c
    BY <1>1, <1>3, <1>6, <1>8, ZenonT(40) DEF EndArithmetic
  <1>11. PICK buffer, at1 : buffer = c.buffer /\ at1 = c.fw + 1
    OBVIOUS
  <1>12. PICK byte : byte = (buffer[at1] % w) + endVal * w
    OBVIOUS
  <1>13. CASE c.fw < Len(c.buffer)
    <2>1. at1 \in 1..Len(buffer) /\ buffer \in Seq(Nat)
      BY <1>9, <1>11, <1>13
    <2>2. buffer[at1] \in Int
      BY <2>1, Elements
    <2>3. byte \in Nat
      <3>1. endVal * w \in Nat
        BY <1>2, <1>5, Products
      <3>2. buffer[at1] % w \in Nat
        BY <1>2, <2>2, Division, SMTT(30)
      <3>3. \A p, q \in Nat : p + q \in Nat
        OBVIOUS
      <3> QED BY <1>12, <3>1, <3>2, <3>3, Zenon
    <2>4. [buffer EXCEPT ![at1] = byte] \in Seq(Nat)
      BY <2>1, <2>3
    <2>5. EndArithmetic(b, last) = [c EXCEPT !.buffer = [buffer EXCEPT ![at1] = byte]]
      BY <1>10, <1>11, <1>12, <1>13, Zenon
    <2>6. PICK d : d = [buffer EXCEPT ![at1] = byte]
      OBVIOUS
    <2>7. [c EXCEPT !.buffer = d].buffer = d
      BY <1>9 DEF LcBits
    <2> QED BY <2>4, <2>5, <2>6, <2>7, Zenon
  <1>14. CASE ~(c.fw < Len(c.buffer))
    BY <1>9, <1>10, <1>14
  <1> QED BY <1>13, <1>14

LEMMA Terminates ==
    ASSUME NEW b \in Stream
    PROVE  AcTerminate(b).buffer \in Seq(Nat)
  <1> DEFINE n0 == 25 - BitLength(b.range)
             mask0 == 2^(24 - n0) - 1
             val0 == b.low + mask0
             high == b.low + b.range
             cut(v, mask) == (v % Full) - (v % (mask + 1))
             same == (val0 >= Full) = (high >= Full)
             longer == same /\ cut(val0, mask0) + mask0 >= high % Full
             ended(val) == [b EXCEPT !.low = val, !.carry = IF same /\ val < b.low THEN 1 ELSE b.carry]
             once(mask) == AcShift(ended(cut(b.low + mask, mask)))
             put(nbits, mask) ==
                 IF nbits > 8 THEN EndArithmetic(AcShift(once(mask)), nbits - 8)
                 ELSE EndArithmetic(once(mask), nbits)
  <1>1. AcTerminate(b) = IF longer THEN put(n0 + 1, mask0 \div 2) ELSE put(n0, mask0)
    BY DEF AcTerminate
  <1>2. b \in Unsettled /\ b.range \in 2^16..2^24 - 1 /\ b.low \in Nat /\ b.carry \in {0, 1}
    BY Settles, StreamFields
  <1>3. n0 \in 1..8
    <2>1. BitLength(b.range) \in 17..24
      BY <1>2, Lengths
    <2> QED BY <2>1
  <1> HIDE DEF n0
  <1>4. mask0 \in Nat /\ mask0 + 1 = 2^(24 - n0) /\ 24 - n0 \in 15..23
    <2>1. 24 - n0 \in 0..30 /\ 24 - n0 \in 15..23
      BY <1>3
    <2>2. 2^(24 - n0) \in Nat \ {0}
      BY <2>1, Powers
    <2>3. PICK p : p = 2^(24 - n0)
      OBVIOUS
    <2>4. p - 1 \in Nat /\ p - 1 + 1 = p
      BY <2>2, <2>3
    <2> QED BY <2>1, <2>3, <2>4
  <1>5. mask0 \div 2 \in Nat /\ (mask0 \div 2) + 1 = 2^(23 - n0) /\ 23 - n0 \in 15..23
    <2>1. 23 - n0 \in 0..30 /\ 24 - n0 \in 0..30 /\ 24 - n0 = 23 - n0 + 1 /\ 23 - n0 \in 15..23
      BY <1>3
    <2>2. 2^(23 - n0) \in Nat \ {0} /\ 2^(24 - n0) = 2 * 2^(23 - n0)
      BY <2>1, Powers
    <2>3. PICK p : p = 2^(23 - n0)
      OBVIOUS
    <2>4. p \in Nat \ {0} /\ mask0 = 2 * p - 1
      BY <2>2, <2>3
    <2>5. (2 * p - 1) \div 2 = p - 1 /\ p - 1 \in Nat /\ p - 1 + 1 = p
      BY <2>4
    <2> HIDE DEF mask0
    <2> QED BY <2>1, <2>3, <2>4, <2>5
  <1> HIDE DEF mask0, same, longer
  <1>6. ASSUME NEW nbits \in 1..9, NEW mask \in Nat, NEW k \in 15..23, mask + 1 = 2^k
        PROVE  put(nbits, mask).buffer \in Seq(Nat)
    <2>1. PICK val : val = cut(b.low + mask, mask)
      OBVIOUS
    <2>2. val \in Nat
      <3>1. PICK v : v = b.low + mask
        OBVIOUS
      <3>2. v \in Nat
        BY <1>2, <1>6, <3>1
      <3>3. (v % Full) - (v % 2^k) \in Nat
        BY <3>2, Cuts
      <3> QED BY <1>6, <2>1, <3>1, <3>3, Zenon
    <2>3. PICK carry : carry = IF same /\ val < b.low THEN 1 ELSE b.carry
      OBVIOUS
    <2>4. carry \in {0, 1}
      BY <1>2, <2>3
    <2>5. PICK e, s1, s2 : e = [b EXCEPT !.low = val, !.carry = carry] /\ s1 = AcShift(e) /\ s2 = AcShift(s1)
      OBVIOUS
    <2>6. e \in Unsettled
      BY <1>2, <2>2, <2>4, <2>5, NewLow
    <2>7. s1 \in Unsettled /\ (s1.carryCount > 0 \/ s1.cache >= 0)
      BY <2>5, <2>6, AcShifts
    <2>8. s2 \in Unsettled /\ (s2.carryCount > 0 \/ s2.cache >= 0)
      BY <2>5, <2>7, AcShifts
    <2>9. once(mask) = s1
      BY <2>1, <2>3, <2>5, Zenon
    <2> HIDE DEF once
    <2>10. put(nbits, mask) = IF nbits > 8 THEN EndArithmetic(s2, nbits - 8) ELSE EndArithmetic(s1, nbits)
      BY <2>5, <2>9, Zenon
    <2> HIDE DEF put
    <2>11. CASE nbits > 8
      <3>1. nbits - 8 \in 1..8
        BY <2>11
      <3> QED BY <2>8, <2>10, <2>11, <3>1, EndsArithmetic
    <2>12. CASE ~(nbits > 8)
      <3>1. nbits \in 1..8
        BY <2>12
      <3> QED BY <2>7, <2>10, <2>12, <3>1, EndsArithmetic
    <2> QED BY <2>11, <2>12
  <1> HIDE DEF put
  <1>7. n0 \in 1..9 /\ n0 + 1 \in 1..9
    BY <1>3
  <1> QED BY <1>1, <1>4, <1>5, <1>6, <1>7, Zenon

-----------------------------------------------------------------------------
(* Writing fields                                                          *)

LEMMA PutsFields ==
    ASSUME NEW b \in Stream, NEW fields, NEW n \in Nat, n = Len(fields),
           \A i \in 1..n : fields[i][1] \in Int /\ fields[i][2] \in 0..32
    PROVE  PutFields(b, fields) \in Stream
  <1> DEFINE next(c, f) == PutBits(c, f[1], f[2])
             first == b
             seq == fields
             Body(f) == [i \in 0..Len(seq) |-> IF i = 0 THEN first ELSE next(f[i - 1], seq[i])]
             after == CHOOSE f : f = Body(f)
             S == [i \in 0..n |-> Stream]
             field(i) == fields[i]
  <1>1. PutFields(b, fields) = after[n]
    BY DEF PutFields, Loop
  <1>2. Len(seq) = n /\ \A i \in 1..n : seq[i] = field(i)
    OBVIOUS
  <1>3. ASSUME NEW i \in 1..n, NEW a \in S[i - 1] PROVE next(a, field(i)) \in S[i]
    <2>1. i - 1 \in 0..n /\ i \in 0..n
      OBVIOUS
    <2>2. a \in Stream /\ fields[i][1] \in Int /\ fields[i][2] \in 0..32
      BY <1>3, <2>1
    <2>3. next(a, field(i)) \in Stream
      BY <2>2, PutsBits
    <2> HIDE DEF next
    <2> QED BY <2>1, <2>3
  <1>4. first \in S[0]
    OBVIOUS
  <1>5. n \in Nat
    OBVIOUS
  <1> HIDE DEF field
  <1> HIDE DEF next, S, first, seq
  <1>6. PICK step : step = [i \in 1..n |-> [a \in S[i - 1] |-> next(a, field(i))]]
    OBVIOUS
  <1>7. \A i \in 1..n : \A a \in S[i - 1] : step[i][a] = next(a, field(i))
    BY <1>6
  <1>8. PICK f : RunIn(f, S, n, first, step)
    BY <1>5, <1>3, <1>4, <1>7, IterateIn
  <1>9. f = Body(f)
    <2>1. f \in [0..n -> UNION {S[i] : i \in 0..n}] /\ f[0] = first
      BY <1>8 DEF RunIn
    <2>2. \A i \in 1..n : f[i] = next(f[i - 1], seq[i])
      <3>1. \A i \in 1..n : f[i - 1] \in S[i - 1] /\ f[i] = step[i][f[i - 1]]
        BY <1>8 DEF RunIn
      <3>2. \A i \in 1..n : seq[i] = field(i)
        BY <1>2
      <3> QED BY <1>7, <3>1, <3>2, Zenon
    <2> QED BY <1>2, <2>1, <2>2
  <1>10. after = Body(after)
    <2> HIDE DEF Body
    <2> QED BY <1>9, Zenon
  <1> HIDE DEF after
  <1>11. after[0] = first /\ \A i \in 1..n : after[i] = next(after[i - 1], field(i))
    BY <1>5, <1>2, <1>10
  <1>12. after[n] \in S[n]
    <2>1. after[0] \in S[0] /\ \A i \in 1..n : after[i - 1] \in S[i - 1] => after[i] \in S[i]
      BY <1>3, <1>4, <1>11
    <2> QED BY <1>5, <2>1, LeadsTo
  <1> QED BY <1>1, <1>5, <1>12 DEF S

\* The stream is flushed to bytes.
LEMMA Flushes ==
    ASSUME NEW b \in Stream
    PROVE  FlushBits(b).buffer \in Seq(Nat)
  <1>1. PICK bits : bits = 8 * (b.bw - b.fw) - Len(b.accu)
    OBVIOUS
  <1>2. PICK n : n = Most((bits + 31) \div 32, 0)
    OBVIOUS
  <1> DEFINE size(i) == Least(bits - 32 * (i - 1), 32)
             next(c, k) == PutBits(c, 0, k)
             first == b
             seq == [i \in 1..n |-> size(i)]
             Body(f) == [i \in 0..Len(seq) |-> IF i = 0 THEN first ELSE next(f[i - 1], seq[i])]
             after == CHOOSE f : f = Body(f)
             S == [i \in 0..n |-> Stream]
  <1>3. FlushBits(b) = AcTerminate(AccuFlush(after[Len(seq)]))
    BY <1>1, <1>2 DEF FlushBits, Loop
  <1>4. bits \in Int /\ n \in Nat
    <2>1. b.bw \in Int /\ b.fw \in Int /\ Len(b.accu) \in Int
      BY StreamFields
    <2>2. bits \in Int
      BY <1>1, <2>1
    <2> QED BY <1>2, <2>2 DEF Most
  <1>5. \A i \in 1..n : size(i) \in 0..32
    BY <1>2, <1>4 DEF Most, Least
  <1> HIDE DEF size
  <1>6. Len(seq) = n /\ \A i \in 1..n : seq[i] = size(i)
    BY <1>4
  <1>7. ASSUME NEW i \in 1..n, NEW a \in S[i - 1] PROVE next(a, size(i)) \in S[i]
    <2>1. i - 1 \in 0..n /\ i \in 0..n
      BY <1>4
    <2>2. a \in Stream /\ size(i) \in 0..32 /\ 0 \in Int
      BY <1>5, <1>7, <2>1
    <2>3. next(a, size(i)) \in Stream
      BY <2>2, PutsBits
    <2> HIDE DEF next
    <2> QED BY <2>1, <2>3
  <1>8. first \in S[0]
    BY <1>4
  <1> HIDE DEF next, S, first, seq
  <1>9. PICK step : step = [i \in 1..n |-> [a \in S[i - 1] |-> next(a, size(i))]]
    OBVIOUS
  <1>10. \A i \in 1..n : \A a \in S[i - 1] : step[i][a] = next(a, size(i))
    BY <1>9
  <1>11. PICK f : RunIn(f, S, n, first, step)
    BY <1>4, <1>7, <1>8, <1>10, IterateIn
  <1>12. f = Body(f)
    <2>1. f \in [0..n -> UNION {S[i] : i \in 0..n}] /\ f[0] = first
      BY <1>11 DEF RunIn
    <2>2. \A i \in 1..n : f[i] = next(f[i - 1], seq[i])
      <3>1. \A i \in 1..n : f[i - 1] \in S[i - 1] /\ f[i] = step[i][f[i - 1]]
        BY <1>11 DEF RunIn
      <3>2. \A i \in 1..n : seq[i] = size(i)
        BY <1>6
      <3> QED BY <1>10, <3>1, <3>2, Zenon
    <2> QED BY <1>6, <2>1, <2>2
  <1>13. after = Body(after)
    <2> HIDE DEF Body
    <2> QED BY <1>12, Zenon
  <1> HIDE DEF after
  <1>14. after[0] = first /\ \A i \in 1..n : after[i] = next(after[i - 1], size(i))
    BY <1>4, <1>6, <1>13
  <1>15. after[n] \in S[n]
    <2>1. after[0] \in S[0] /\ \A i \in 1..n : after[i - 1] \in S[i - 1] => after[i] \in S[i]
      BY <1>7, <1>8, <1>14
    <2> QED BY <1>4, <2>1, LeadsTo
  <1>16. after[n] \in Stream
    BY <1>4, <1>15 DEF S
  <1>17. AccuFlush(after[n]) \in Stream
    BY <1>16, FlushesAccu
  <1>18. AcTerminate(AccuFlush(after[n])).buffer \in Seq(Nat)
    BY <1>17, Terminates
  <1> QED BY <1>3, <1>6, <1>18, Zenon

\* The streams of a buffer of bytes, to be written and to be read.
LEMMA Writers ==
    ASSUME NEW buffer \in Seq(Nat)
    PROVE  WriterOf(buffer) \in Stream /\ ReaderOf(buffer) \in Stream
  <1>1. PICK top : top = Len(buffer)
    OBVIOUS
  <1>2. top \in Nat
    BY <1>1
  <1>3. PICK w, r : w = WriterOf(buffer) /\ r = [w EXCEPT !.reading = TRUE]
    OBVIOUS
  <1>4. <<>> \in Seq({0, 1}) /\ Len(<<>>) = 0
    OBVIOUS
  <1>5. /\ w \in LcBits /\ w.fw = 0 /\ w.bw = top /\ w.buffer = buffer /\ w.accu = <<>>
        /\ w.range = Full - 1
    <2>1. Full - 1 \in Nat /\ -1 \in Int
      BY DEF Full
    <2> QED BY <1>1, <1>2, <1>3, <1>4, <2>1 DEF WriterOf, LcBits
  <1>6. 2^16 <= Full - 1 /\ Full - 1 < 2^24
    BY DEF Full
  <1>7. w \in Stream
    <2>1. w.fw <= Len(w.buffer) /\ w.bw <= Len(w.buffer) /\ Len(w.accu) <= 32
      BY <1>1, <1>2, <1>4, <1>5
    <2>2. 2^16 <= w.range /\ w.range < 2^24
      BY <1>5, <1>6, Zenon
    <2> QED BY <1>5, <2>1, <2>2, Zenon DEF Stream
  <1>8. r \in LcBits /\ r.fw = w.fw /\ r.bw = w.bw /\ r.buffer = w.buffer /\ r.accu = w.accu /\ r.range = w.range
    BY <1>3, <1>5 DEF LcBits
  <1>9. r \in Stream
    BY <1>7, <1>8, Zenon DEF Stream
  <1>10. PICK g : g = AcGet(r, 3)
    OBVIOUS
  <1>11. g \in Stream
    <2>1. r \in LcBits /\ r.fw <= Len(r.buffer) /\ 3 \in 0..3
      BY <1>9 DEF Stream
    <2>2. PICK fw \in 0..Len(r.buffer), low \in Nat : AcGet(r, 3) = [r EXCEPT !.fw = fw, !.low = low]
      BY <2>1, AcGets
    <2>3. PICK q : q = [r EXCEPT !.fw = fw]
      OBVIOUS
    <2>4. q \in Stream
      <3>1. r.range \in 2^16..2^24 - 1 /\ r.error \in BOOLEAN
        BY <1>9, StreamFields
      <3> QED BY <1>9, <2>3, <3>1, NewRegisters
    <2>5. [q EXCEPT !.low = low] \in Stream
      <3>1. q.fw \in 0..Len(q.buffer) /\ q.range \in 2^16..2^24 - 1 /\ q.error \in BOOLEAN
        BY <2>4, StreamFields
      <3> QED BY <2>4, <3>1, NewRegisters
    <2>6. g = [q EXCEPT !.low = low]
      BY <1>10, <2>2, <2>3, Zenon
    <2> QED BY <2>5, <2>6
  <1>12. ReaderOf(buffer) = AccuLoad(g)
    BY <1>3, <1>10, Zenon DEF ReaderOf
  <1> QED BY <1>3, <1>7, <1>11, <1>12, AccuLoads

-----------------------------------------------------------------------------
(* Writing the side data                                                   *)

LEMMA PutsSome ==
    ASSUME NEW b \in Stream, NEW v \in Int, NEW n \in 0..32
    PROVE  PutSome(b, v, n) \in Stream
  BY PutsBits DEF PutSome

LEMMA Flags ==
    ASSUME NEW p
    PROVE  Flag(p) \in {0, 1} /\ Flag(p) \in Nat /\ Flag(p) \in Int
  BY DEF Flag

\* Three fields.
LEMMA PutsThree ==
    ASSUME NEW b \in Stream, NEW v1 \in Int, NEW n1 \in 0..32, NEW v2 \in Int, NEW n2 \in 0..32,
           NEW v3 \in Int, NEW n3 \in 0..32
    PROVE  PutFields(b, <<<<v1, n1>>, <<v2, n2>>, <<v3, n3>>>>) \in Stream
  <1>1. PICK fields : fields = <<<<v1, n1>>, <<v2, n2>>, <<v3, n3>>>>
    OBVIOUS
  <1>2. Len(fields) = 3 /\ fields[1] = <<v1, n1>> /\ fields[2] = <<v2, n2>> /\ fields[3] = <<v3, n3>>
    BY <1>1
  <1>3. \A i \in 1..3 : i = 1 \/ i = 2 \/ i = 3
    OBVIOUS
  <1>4. \A i \in 1..3 : fields[i][1] \in Int /\ fields[i][2] \in 0..32
    BY <1>2, <1>3
  <1>5. 3 \in Nat /\ 3 = Len(fields)
    BY <1>2
  <1>6. PutFields(b, fields) \in Stream
    BY <1>4, <1>5, PutsFields
  <1> QED BY <1>1, <1>6

LEMMA PutsTwo ==
    ASSUME NEW b \in Stream, NEW v1 \in Int, NEW n1 \in 0..32, NEW v2 \in Int, NEW n2 \in 0..32
    PROVE  PutFields(b, <<<<v1, n1>>, <<v2, n2>>>>) \in Stream
  <1>1. PICK fields : fields = <<<<v1, n1>>, <<v2, n2>>>>
    OBVIOUS
  <1>2. Len(fields) = 2 /\ fields[1] = <<v1, n1>> /\ fields[2] = <<v2, n2>>
    BY <1>1
  <1>3. \A i \in 1..2 : i = 1 \/ i = 2
    OBVIOUS
  <1>4. \A i \in 1..2 : fields[i][1] \in Int /\ fields[i][2] \in 0..32
    BY <1>2, <1>3
  <1>5. 2 \in Nat /\ 2 = Len(fields)
    BY <1>2
  <1>6. PutFields(b, fields) \in Stream
    BY <1>4, <1>5, PutsFields
  <1> QED BY <1>1, <1>6

LEMMA PutsSide ==
    ASSUME NEW b \in Stream, NEW sr \in 0..4, NEW side, side.nq \in Nat, side.gain \in Nat
    PROVE  PutSide(b, sr, side) \in Stream
  <1>1. PICK count, mode, size, gain :
            count = Most(side.nq \div 2, 1) - 1 /\ mode = Flag(side.lsbMode) /\ size = NqNbits(sr)
            /\ gain = side.gain
    OBVIOUS
  <1>2. count \in Int /\ mode \in Int /\ gain \in Int
    <2>1. PICK nq : nq = side.nq
      OBVIOUS
    <2>2. nq \in Nat
      BY <2>1
    <2>3. Most(nq \div 2, 1) - 1 \in Int
      BY <2>2 DEF Most
    <2> QED BY <1>1, <2>1, <2>3, Flags
  <1>3. size \in 0..32 /\ 1 \in 0..32 /\ 8 \in 0..32
    <2>1. size \in 4..8
      BY <1>1, Counts
    <2> QED BY <2>1
  <1>4. PutFields(b, <<<<count, size>>, <<mode, 1>>, <<gain, 8>>>>) \in Stream
    BY <1>2, <1>3, PutsThree
  <1> QED BY <1>1, <1>4, Zenon DEF PutSide

LEMMA PutsLtpf ==
    ASSUME NEW b \in Stream, NEW ltpf, ltpf.pitchIndex \in Nat
    PROVE  LtpfPut(b, ltpf) \in Stream
  <1>1. PICK active, pitch : active = Flag(ltpf.active) /\ pitch = ltpf.pitchIndex
    OBVIOUS
  <1>2. active \in Int /\ pitch \in Int
    BY <1>1, Flags
  <1>3. 1 \in 0..32 /\ 9 \in 0..32
    OBVIOUS
  <1>4. PutFields(b, <<<<active, 1>>, <<pitch, 9>>>>) \in Stream
    BY <1>2, <1>3, PutsTwo
  <1> QED BY <1>1, <1>4, Zenon DEF LtpfPut

\* A filter, of orders and coefficients that have a share of their models.
LEMMA PutsFilter ==
    ASSUME NEW b \in Stream, NEW nbytes, NEW rc \in Filters
    PROVE  PutFilter(b, nbytes, rc) \in Stream
  <1>1. PICK n : n = Len(rc)
    OBVIOUS
  <1>2. rc \in Seq(-8..8) /\ n \in 0..8 /\ \A i \in 1..n : rc[i] \in -8..8
    <2>1. rc \in Seq(-8..8) /\ Len(rc) <= 8
      BY DEF Filters
    <2>2. Len(rc) \in Nat /\ \A i \in 1..Len(rc) : rc[i] \in -8..8
      BY <2>1, Elements
    <2>3. n \in Nat /\ n <= 8
      BY <1>1, <2>1, <2>2, Zenon
    <2>4. n \in 0..8
      BY <2>3
    <2> QED BY <1>1, <2>1, <2>2, <2>4, Zenon
  <1>3. PutBits(b, 0, 1) \in Stream /\ PutBits(b, 1, 1) \in Stream
    <2>1. 0 \in Int /\ 1 \in Int /\ 1 \in 0..32
      OBVIOUS
    <2> QED BY <2>1, PutsBits
  <1>4. 17 \in 1..17 /\ \A r \in -8..8 : 8 + r \in 0..17 - 1
    OBVIOUS
  <1>5. PICK present, order, model :
            /\ present = PutBits(b, 1, 1) /\ model = OrderModels[LpcWeighting(nbytes)]
            /\ order = PutSymbol(present, model, n - 1)
    OBVIOUS
  <1> DEFINE next(c, i) == PutSymbol(c, CoeffModels[i], 8 + rc[i])
             first == order
             seq == [i \in 1..n |-> i]
             Body(f) == [i \in 0..Len(seq) |-> IF i = 0 THEN first ELSE next(f[i - 1], seq[i])]
             after == CHOOSE f : f = Body(f)
             S == [i \in 0..n |-> Stream]
  <1>6. PutFilter(b, nbytes, rc) = IF rc = <<>> THEN PutBits(b, 0, 1) ELSE after[Len(seq)]
    BY <1>1, <1>5 DEF PutFilter, Loop
  <1>7. CASE rc = <<>>
    BY <1>3, <1>6, <1>7
  <1>8. CASE rc # <<>>
    <2>1. n - 1 \in 0..8 - 1
      <3>1. n # 0
        BY <1>1, <1>2, <1>8
      <3> QED BY <1>2, <3>1
    <2>2. IsModel(model, 8) /\ 8 \in 1..17
      <3>1. LpcWeighting(nbytes) \in BOOLEAN
        BY DEF LpcWeighting
      <3> QED BY <1>5, <3>1, SideTables
    <2>3. order \in Stream
      BY <1>3, <1>5, <2>1, <2>2, PutsSymbol
    <2>4. n \in Nat
      BY <1>2
    <2>5. Len(seq) = n /\ \A i \in 1..n : seq[i] = i
      BY <1>2
    <2>6. ASSUME NEW i \in 1..n, NEW a \in S[i - 1] PROVE next(a, i) \in S[i]
      <3>1. i - 1 \in 0..n /\ i \in 0..n /\ i \in 1..8
        BY <1>2
      <3>2. a \in Stream
        BY <2>6, <3>1
      <3>3. PICK v : v = 8 + rc[i]
        OBVIOUS
      <3>4. v \in 0..17 - 1 /\ 17 \in 1..17
        <4>1. PICK r : r = rc[i]
          OBVIOUS
        <4>2. r \in -8..8
          BY <1>2, <4>1
        <4>3. v = 8 + r
          BY <3>3, <4>1, Zenon
        <4> QED BY <1>4, <4>2, <4>3, Zenon
      <3>5. IsModel(CoeffModels[i], 17)
        BY <3>1, SideTables
      <3>6. PutSymbol(a, CoeffModels[i], v) \in Stream
        BY <3>2, <3>4, <3>5, PutsSymbol
      <3>7. next(a, i) \in Stream
        BY <3>3, <3>6
      <3> HIDE DEF next
      <3> QED BY <3>1, <3>7
    <2>7. first \in S[0]
      BY <2>3, <2>4
    <2> HIDE DEF next, S, first, seq
    <2>8. PICK step : step = [i \in 1..n |-> [a \in S[i - 1] |-> next(a, i)]]
      OBVIOUS
    <2>9. \A i \in 1..n : \A a \in S[i - 1] : step[i][a] = next(a, i)
      BY <2>8
    <2>10. PICK f : RunIn(f, S, n, first, step)
      BY <2>4, <2>6, <2>7, <2>9, IterateIn
    <2>11. f = Body(f)
      <3>1. f \in [0..n -> UNION {S[i] : i \in 0..n}] /\ f[0] = first
        BY <2>10 DEF RunIn
      <3>2. \A i \in 1..n : f[i] = next(f[i - 1], seq[i])
        <4>1. \A i \in 1..n : f[i - 1] \in S[i - 1] /\ f[i] = step[i][f[i - 1]]
          BY <2>10 DEF RunIn
        <4>2. \A i \in 1..n : seq[i] = i
          BY <2>5
        <4> QED BY <2>9, <4>1, <4>2, Zenon
      <3> QED BY <2>5, <3>1, <3>2
    <2>12. after = Body(after)
      <3> HIDE DEF Body
      <3> QED BY <2>11, Zenon
    <2> HIDE DEF after
    <2>13. after[0] = first /\ \A i \in 1..n : after[i] = next(after[i - 1], i)
      BY <2>4, <2>5, <2>12
    <2>14. after[n] \in S[n]
      <3>1. after[0] \in S[0] /\ \A i \in 1..n : after[i - 1] \in S[i - 1] => after[i] \in S[i]
        BY <2>6, <2>7, <2>13
      <3> QED BY <2>4, <3>1, LeadsTo
    <2>15. after[n] \in Stream
      BY <2>4, <2>14 DEF S
    <2> QED BY <1>6, <1>8, <2>5, <2>15, Zenon
  <1> QED BY <1>7, <1>8

LEMMA PutsTns ==
    ASSUME NEW b \in Stream, NEW nbytes, NEW filters \in Seq(Filters)
    PROVE  TnsPut(b, nbytes, filters) \in Stream
  <1>1. PICK n : n = Len(filters)
    OBVIOUS
  <1>2. n \in Nat /\ \A i \in 1..n : filters[i] \in Filters
    BY <1>1, Elements
  <1> DEFINE filter(i) == filters[i]
             next(c, rc) == PutFilter(c, nbytes, rc)
             first == b
             seq == filters
             Body(f) == [i \in 0..Len(seq) |-> IF i = 0 THEN first ELSE next(f[i - 1], seq[i])]
             after == CHOOSE f : f = Body(f)
             S == [i \in 0..n |-> Stream]
  <1>3. TnsPut(b, nbytes, filters) = after[n]
    BY <1>1 DEF TnsPut, Loop
  <1>4. Len(seq) = n /\ \A i \in 1..n : seq[i] = filter(i)
    BY <1>1
  <1>5. ASSUME NEW i \in 1..n, NEW a \in S[i - 1] PROVE next(a, filter(i)) \in S[i]
    <2>1. i - 1 \in 0..n /\ i \in 0..n
      BY <1>2
    <2>2. a \in Stream /\ filter(i) \in Filters
      BY <1>2, <1>5, <2>1
    <2>3. next(a, filter(i)) \in Stream
      BY <2>2, PutsFilter
    <2> HIDE DEF next
    <2> QED BY <2>1, <2>3
  <1>6. first \in S[0]
    BY <1>2
  <1>7. n \in Nat
    BY <1>2
  <1> HIDE DEF filter
  <1> HIDE DEF next, S, first, seq
  <1>8. PICK step : step = [i \in 1..n |-> [a \in S[i - 1] |-> next(a, filter(i))]]
    OBVIOUS
  <1>9. \A i \in 1..n : \A a \in S[i - 1] : step[i][a] = next(a, filter(i))
    BY <1>8
  <1>10. PICK f : RunIn(f, S, n, first, step)
    BY <1>7, <1>5, <1>6, <1>9, IterateIn
  <1>11. f = Body(f)
    <2>1. f \in [0..n -> UNION {S[i] : i \in 0..n}] /\ f[0] = first
      BY <1>10 DEF RunIn
    <2>2. \A i \in 1..n : f[i] = next(f[i - 1], seq[i])
      <3>1. \A i \in 1..n : f[i - 1] \in S[i - 1] /\ f[i] = step[i][f[i - 1]]
        BY <1>10 DEF RunIn
      <3>2. \A i \in 1..n : seq[i] = filter(i)
        BY <1>4
      <3> QED BY <1>9, <3>1, <3>2, Zenon
    <2> QED BY <1>4, <2>1, <2>2
  <1>12. after = Body(after)
    <2> HIDE DEF Body
    <2> QED BY <1>11, Zenon
  <1> HIDE DEF after
  <1>13. after[0] = first /\ \A i \in 1..n : after[i] = next(after[i - 1], filter(i))
    BY <1>7, <1>4, <1>12
  <1>14. after[n] \in S[n]
    <2>1. after[0] \in S[0] /\ \A i \in 1..n : after[i - 1] \in S[i - 1] => after[i] \in S[i]
      BY <1>5, <1>6, <1>13
    <2> QED BY <1>7, <2>1, LeadsTo
  <1> QED BY <1>3, <1>7, <1>14 DEF S

-----------------------------------------------------------------------------
(* Writing the shape                                                       *)

\* The sums of the pulses grow from place to place.
LEMMA Grows ==
    ASSUME NEW s \in Seq(Int), NEW sum, Sums(s, sum), \A i \in 0..Len(s) : sum[i] \in Nat
    PROVE  \A i \in 0..Len(s) : sum[i] <= sum[Len(s)]
  <1>1. PICK n : n = Len(s)
    OBVIOUS
  <1>2. n \in Nat /\ (\A i \in 1..n : s[i] \in Int) /\ \A i \in 0..n : sum[i] \in Nat
    BY <1>1, Elements
  <1>3. \A i \in 1..n : sum[i] = sum[i - 1] + Abs(s[i])
    BY <1>1 DEF Sums
  <1> DEFINE A == {k \in 0..n : sum[n - k] <= sum[n]}
  <1>4. 0 \in A
    <2>1. n - 0 = n /\ sum[n] \in Nat
      BY <1>2
    <2> QED BY <1>2, <2>1
  <1>5. ASSUME NEW k \in 0..n, k \in A, k < n PROVE k + 1 \in A
    <2>1. PICK i : i = n - k
      OBVIOUS
    <2>2. i \in 1..n /\ i - 1 \in 0..n /\ i \in 0..n /\ n - (k + 1) = i - 1 /\ k + 1 \in 0..n
      BY <1>2, <1>5, <2>1
    <2>3. sum[i] <= sum[n] /\ sum[i] = sum[i - 1] + Abs(s[i])
      BY <1>3, <1>5, <2>1, <2>2
    <2>4. Abs(s[i]) \in Nat
      BY <1>2, <2>2 DEF Abs
    <2>5. sum[i] \in Nat /\ sum[i - 1] \in Nat /\ sum[n] \in Nat
      BY <1>2, <2>2
    <2>6. sum[i - 1] <= sum[n]
      BY <2>3, <2>4, <2>5
    <2> QED BY <2>2, <2>6
  <1>6. \A k \in 0..n : k \in A
    <2> HIDE DEF A
    <2> QED BY <1>2, <1>4, <1>5, BoundedInduction
  <1>7. ASSUME NEW i \in 0..n PROVE sum[i] <= sum[n]
    <2>1. PICK k : k = n - i
      OBVIOUS
    <2>2. k \in 0..n /\ n - k = i
      BY <1>2, <2>1
    <2>3. sum[n - k] <= sum[n]
      BY <1>6, <2>2
    <2> QED BY <2>2, <2>3
  <1> QED BY <1>1, <1>7

\* A vector of pulses has a last place that is not empty.
LEMMA LastPlaces ==
    ASSUME NEW s \in Seq(Int), Energy(s) # 0
    PROVE  \E i \in 1..Len(s) : s[i] # 0 /\ \A j \in i + 1..Len(s) : s[j] = 0
  <1>1. PICK n : n = Len(s)
    OBVIOUS
  <1>2. n \in Nat
    BY <1>1
  <1> DEFINE Final(i) == s[i] # 0 /\ \A j \in i + 1..n : s[j] = 0
             A == {k \in 0..n : (\E i \in 1..n : Final(i)) \/ \A j \in n - k + 1..n : s[j] = 0}
  <1>3. 0 \in A
    BY <1>2
  <1>4. ASSUME NEW k \in 0..n, k \in A, k < n PROVE k + 1 \in A
    <2>1. k + 1 \in 0..n
      BY <1>2, <1>4
    <2>2. CASE \E i \in 1..n : Final(i)
      BY <2>1, <2>2
    <2>3. CASE \A j \in n - k + 1..n : s[j] = 0
      <3>1. PICK i : i = n - k
        OBVIOUS
      <3>2. i \in 1..n /\ \A j \in i + 1..n : s[j] = 0
        BY <1>2, <1>4, <2>3, <3>1
      <3>3. CASE s[i] # 0
        BY <2>1, <3>2, <3>3
      <3>4. CASE s[i] = 0
        <4>1. \A j \in n - (k + 1) + 1..n : j = i \/ j \in i + 1..n
          BY <1>2, <3>1
        <4>2. \A j \in n - (k + 1) + 1..n : s[j] = 0
          BY <3>2, <3>4, <4>1
        <4> HIDE DEF Final
        <4> QED BY <2>1, <4>2
      <3> QED BY <3>3, <3>4
    <2> HIDE DEF Final
    <2> QED BY <1>4, <2>2, <2>3
  <1>5. \A k \in 0..n : k \in A
    <2> HIDE DEF A
    <2> QED BY <1>2, <1>3, <1>4, BoundedInduction
  <1>6. ~\A j \in 1..n : s[j] = 0
    <2> SUFFICES ASSUME \A j \in 1..n : s[j] = 0 PROVE FALSE
      OBVIOUS
    <2>1. PICK sum : Sums(s, sum) /\ Energy(s) = sum[Len(s)] /\ \A i \in 0..Len(s) : sum[i] \in Nat
      BY Energies
    <2>2. sum[0] = 0 /\ \A i \in 1..n : sum[i] = sum[i - 1] + Abs(s[i])
      BY <1>1, <2>1 DEF Sums
    <2>3. Abs(0) = 0
      BY DEF Abs
    <2>4. ASSUME NEW i \in 1..n, sum[i - 1] \in {0} PROVE sum[i] \in {0}
      <3>1. Abs(s[i]) = 0
        BY <2>3
      <3>2. PICK p, q : p = sum[i - 1] /\ q = sum[i]
        OBVIOUS
      <3>3. p = 0 /\ q = p + 0
        BY <2>2, <2>4, <3>1, <3>2
      <3> QED BY <3>2, <3>3
    <2>5. \A i \in 0..n : sum[i] \in {0}
      <3>1. sum[0] \in {0}
        BY <2>2
      <3>2. PICK zero : zero = {0}
        OBVIOUS
      <3>3. sum[0] \in zero /\ \A i \in 1..n : sum[i - 1] \in zero => sum[i] \in zero
        BY <2>4, <3>1, <3>2
      <3>4. \A i \in 0..n : sum[i] \in zero
        BY <1>2, <3>3, LoopStays
      <3> QED BY <3>2, <3>4
    <2>6. n \in 0..n
      BY <1>2
    <2>7. sum[n] = 0
      BY <2>5, <2>6
    <2> QED BY <1>1, <2>1, <2>7
  <1>7. n \in A
    <2>1. n \in 0..n
      BY <1>2
    <2> HIDE DEF A
    <2> QED BY <1>5, <2>1
  <1>8. \E i \in 1..n : Final(i)
    <2>1. n - n + 1 = 1
      BY <1>2
    <2> HIDE DEF Final
    <2> QED BY <1>6, <1>7, <2>1
  <1> QED BY <1>1, <1>8

\* The number of a vector, of so many pulses that the offsets have a row of them.
LEMMA Enumerates ==
    ASSUME NEW c \in Seq(Int), Len(c) \in 1..16, Energy(c) \in 1..10
    PROVE  EnumMvpq(c).idx \in Nat
  <1>1. PICK n : n = Len(c)
    OBVIOUS
  <1>2. n \in 1..16 /\ \A i \in 1..n : c[i] \in Int
    BY <1>1, Elements
  <1>3. PICK sum : Sums(c, sum) /\ Energy(c) = sum[Len(c)] /\ \A i \in 0..Len(c) : sum[i] \in Nat
    BY Energies
  <1>4. sum[n] \in 1..10 /\ (\A i \in 1..n : sum[i] = sum[i - 1] + Abs(c[i])) /\ \A i \in 0..n : sum[i] \in Nat
    BY <1>1, <1>3 DEF Sums
  <1>5. \A i \in 0..n : sum[i] <= sum[n]
    BY <1>1, <1>3, Grows
  <1>6. PICK last : last = CHOOSE i \in 1..Len(c) : c[i] # 0 /\ \A j \in i + 1..Len(c) : c[j] = 0
    OBVIOUS
  <1>7. last \in 1..n
    <2>1. Energy(c) # 0
      OBVIOUS
    <2>2. \E i \in 1..Len(c) : c[i] # 0 /\ \A j \in i + 1..Len(c) : c[j] = 0
      BY <2>1, LastPlaces
    <2>3. last \in 1..Len(c)
      BY <1>6, <2>2, Zenon
    <2> QED BY <1>1, <2>3
  <1>8. PICK m, total : m = last - 1 /\ total = sum[last]
    OBVIOUS
  <1>9. m \in Nat /\ m < n /\ total \in 0..10 /\ last = m + 1
    <2>1. last \in 0..n
      BY <1>2, <1>7
    <2>2. sum[last] \in Nat /\ sum[last] <= sum[n]
      BY <1>4, <1>5, <2>1
    <2>3. PICK top : top = sum[n]
      OBVIOUS
    <2>4. top \in 1..10 /\ total \in Nat /\ total <= top
      BY <1>4, <1>8, <2>2, <2>3, Zenon
    <2>5. total \in 0..10
      BY <2>4
    <2> QED BY <1>2, <1>7, <1>8, <2>5
  <1> DEFINE place(k) == last - k
             next(a, i) == EnumAt(c, a, i)
             first == [idx |-> 0, ls |-> c[last] < 0, pulses |-> Abs(c[last])]
             seq == [k \in 1..m |-> place(k)]
             Body(f) == [i \in 0..Len(seq) |-> IF i = 0 THEN first ELSE next(f[i - 1], seq[i])]
             after == CHOOSE f : f = Body(f)
             All == [idx : Nat, ls : BOOLEAN, pulses : 0..10]
             S == [k \in 0..m |-> {a \in All : a.pulses + sum[m - k] = total}]
  <1>10. EnumMvpq(c) = after[Len(seq)]
    BY <1>6, <1>8 DEF EnumMvpq, Loop
  <1>11. Len(seq) = m /\ \A k \in 1..m : seq[k] = place(k)
    BY <1>9
  <1>12. ASSUME NEW k \in 1..m, NEW a \in S[k - 1] PROVE next(a, place(k)) \in S[k]
    <2>1. k - 1 \in 0..m /\ k \in 0..m
      BY <1>9
    <2>2. a \in All /\ a.pulses + sum[m - (k - 1)] = total
      BY <1>12, <2>1
    <2>3. PICK i, p, idx, pulses : i = place(k) /\ p = Abs(c[i]) /\ idx = a.idx /\ pulses = a.pulses
      OBVIOUS
    <2>4. i \in 1..n /\ i = m - (k - 1) /\ i - 1 = m - k /\ n - i \in 1..15
      BY <1>2, <1>9, <2>3
    <2>5. p \in Nat /\ sum[i] = sum[i - 1] + p /\ sum[i] \in Nat /\ sum[i - 1] \in Nat
      <3>1. c[i] \in Int
        BY <1>2, <2>4
      <3>2. p \in Nat
        BY <2>3, <3>1 DEF Abs
      <3>3. i \in 0..n /\ i - 1 \in 0..n
        <4>1. \A j \in 1..n : j \in 0..n /\ j - 1 \in 0..n
          BY <1>2
        <4> QED BY <2>4, <4>1
      <3> QED BY <1>4, <2>3, <2>4, <3>2, <3>3
    <2>6. idx \in Nat /\ pulses \in 0..10 /\ a.ls \in BOOLEAN /\ pulses + sum[i] = total
      BY <2>2, <2>3, <2>4
    <2>7. pulses + p \in 0..10 /\ (pulses + p) + sum[m - k] = total
      <3>1. PICK q, r : q = sum[i] /\ r = sum[i - 1]
        OBVIOUS
      <3>2. q = r + p /\ r \in Nat /\ pulses + q = total /\ pulses \in Nat
        BY <2>5, <2>6, <3>1
      <3>3. pulses + p \in 0..10 /\ (pulses + p) + r = total
        BY <1>9, <2>5, <3>2
      <3>4. r = sum[m - k]
        BY <2>4, <3>1, Zenon
      <3> QED BY <3>3, <3>4, Zenon
    <2>8. PICK met, ls : met = (IF c[i] # 0 THEN 2 * idx + Flag(a.ls) ELSE idx) /\ ls = IF c[i] # 0 THEN c[i] < 0 ELSE a.ls
      OBVIOUS
    <2>9. met \in Nat
      <3>1. Flag(a.ls) \in Nat
        BY Flags
      <3> QED BY <2>6, <2>8, <3>1
    <2>10. ls \in BOOLEAN
      <3>1. (c[i] < 0) \in BOOLEAN
        OBVIOUS
      <3> QED BY <2>6, <2>8, <3>1, Zenon
    <2>11. PICK off : off = Offset(n - i, pulses)
      OBVIOUS
    <2>12. off \in Nat
      BY <2>4, <2>6, <2>11, Rows
    <2>13. next(a, place(k)) = [idx |-> met + off, ls |-> ls, pulses |-> pulses + p]
      BY <1>1, <2>3, <2>8, <2>11, Zenon DEF EnumAt
    <2>14. met + off \in Nat
      BY <2>9, <2>12
    <2> HIDE DEF next, place
    <2>15. PICK r : r = [idx |-> met + off, ls |-> ls, pulses |-> pulses + p]
      OBVIOUS
    <2>16. r \in All /\ r.pulses = pulses + p
      BY <2>7, <2>10, <2>14, <2>15
    <2>17. r.pulses + sum[m - k] = total
      BY <2>7, <2>16, Zenon
    <2> HIDE DEF All
    <2>18. r \in S[k]
      BY <2>1, <2>16, <2>17
    <2> QED BY <2>13, <2>15, <2>18, Zenon
  <1>13. first \in S[0]
    <2>1. PICK p : p = Abs(c[last])
      OBVIOUS
    <2>2. c[last] \in Int /\ last - 1 \in 0..n /\ last \in 1..n /\ last - 1 = m - 0
      BY <1>2, <1>7, <1>9
    <2>3. p \in Nat /\ total = sum[last - 1] + p /\ sum[last - 1] \in Nat
      BY <1>4, <1>8, <2>1, <2>2 DEF Abs
    <2>4. p \in 0..10 /\ p + sum[m - 0] = total
      <3>1. PICK r : r = sum[last - 1]
        OBVIOUS
      <3>2. r \in Nat /\ total = r + p
        BY <2>3, <3>1, Zenon
      <3>3. p \in 0..10 /\ p + r = total
        BY <1>9, <2>3, <3>2, SMTT(30)
      <3> QED BY <2>2, <3>1, <3>3, Zenon
    <2>5. (c[last] < 0) \in BOOLEAN /\ 0 \in 0..m
      BY <1>9
    <2>6. first = [idx |-> 0, ls |-> c[last] < 0, pulses |-> p]
      BY <2>1
    <2> HIDE DEF first
    <2>7. first \in All /\ first.pulses = p
      BY <2>4, <2>5, <2>6
    <2> HIDE DEF All
    <2> QED BY <2>4, <2>5, <2>7
  <1>14. m \in Nat
    BY <1>9
  <1> HIDE DEF place, All
  <1> HIDE DEF next, S, first, seq
  <1>15. PICK step : step = [i \in 1..m |-> [a \in S[i - 1] |-> next(a, place(i))]]
    OBVIOUS
  <1>16. \A i \in 1..m : \A a \in S[i - 1] : step[i][a] = next(a, place(i))
    BY <1>15
  <1>17. PICK f : RunIn(f, S, m, first, step)
    BY <1>14, <1>12, <1>13, <1>16, IterateIn
  <1>18. f = Body(f)
    <2>1. f \in [0..m -> UNION {S[i] : i \in 0..m}] /\ f[0] = first
      BY <1>17 DEF RunIn
    <2>2. \A i \in 1..m : f[i] = next(f[i - 1], seq[i])
      <3>1. \A i \in 1..m : f[i - 1] \in S[i - 1] /\ f[i] = step[i][f[i - 1]]
        BY <1>17 DEF RunIn
      <3>2. \A i \in 1..m : seq[i] = place(i)
        BY <1>11
      <3> QED BY <1>16, <3>1, <3>2, Zenon
    <2> QED BY <1>11, <2>1, <2>2
  <1>19. after = Body(after)
    <2> HIDE DEF Body
    <2> QED BY <1>18, Zenon
  <1> HIDE DEF after
  <1>20. after[0] = first /\ \A i \in 1..m : after[i] = next(after[i - 1], place(i))
    BY <1>14, <1>11, <1>19
  <1>21. after[m] \in S[m]
    <2>1. after[0] \in S[0] /\ \A i \in 1..m : after[i - 1] \in S[i - 1] => after[i] \in S[i]
      BY <1>12, <1>13, <1>20
    <2> QED BY <1>14, <2>1, LeadsTo
  <1>22. after[m] \in All
    BY <1>14, <1>21 DEF S
  <1>23. after[m].idx \in Nat
    BY <1>22 DEF All
  <1> QED BY <1>10, <1>11, <1>23, Zenon

LEMMA Muxed ==
    ASSUME NEW shape \in 0..3, NEW gain \in Nat, NEW v, v.a.idx \in Nat, v.b.idx \in Nat
    PROVE  Mux(shape, gain, v) \in Int
  <1>1. PICK size, other, ls, low, idxA, idxB :
            /\ size = SizeA(0) /\ other = SizeA(1) /\ ls = Flag(v.b.ls) /\ low = gain % 2
            /\ idxA = v.a.idx /\ idxB = v.b.idx
    OBVIOUS
  <1>2. size \in Nat /\ other \in Nat /\ ls \in Nat /\ low \in Nat /\ idxA \in Nat /\ idxB \in Nat
    <2>1. size \in Nat /\ other \in Nat
      BY <1>1, SMTT(20) DEF SizeA
    <2>2. low \in Nat
      <3>1. gain % 2 \in Nat
        OBVIOUS
      <3> QED BY <1>1, <3>1
    <2> QED BY <1>1, <2>1, <2>2, Flags
  <1>3. PICK high : high = 2 * (idxB + 1) + ls
    OBVIOUS
  <1>4. high \in Nat
    BY <1>2, <1>3
  <1>5. high * size \in Nat /\ low * size \in Nat
    BY <1>2, <1>4, Products
  <1>6. PICK p, q : p = high * size /\ q = low * size
    OBVIOUS
  <1>7. p + idxA \in Int /\ q + idxA \in Int /\ idxA \in Int /\ other + 2 * idxA + low \in Int
    BY <1>2, <1>5, <1>6
  <1>8. shape = 0 \/ shape = 1 \/ shape = 2 \/ shape = 3
    OBVIOUS
  <1>9. CASE shape = 0
    <2>1. Mux(shape, gain, v) = p + idxA
      BY <1>1, <1>3, <1>6, <1>9 DEF Mux
    <2> QED BY <1>7, <2>1
  <1>10. CASE shape = 1
    <2>1. Mux(shape, gain, v) = q + idxA
      BY <1>1, <1>6, <1>10 DEF Mux
    <2> QED BY <1>7, <2>1
  <1>11. CASE shape = 2
    <2>1. Mux(shape, gain, v) = idxA
      BY <1>1, <1>11 DEF Mux
    <2> QED BY <1>7, <2>1
  <1>12. CASE shape = 3
    <2>1. Mux(shape, gain, v) = other + 2 * idxA + low
      BY <1>1, <1>12 DEF Mux
    <2> QED BY <1>7, <2>1
  <1> QED BY <1>8, <1>9, <1>10, <1>11, <1>12

LEMMA EnumeratesShapes ==
    ASSUME NEW sns, IsSns(sns)
    PROVE  Enumerate(sns.shape, sns.c).a.idx \in Nat /\ Enumerate(sns.shape, sns.c).b.idx \in Nat
  <1>1. PICK shape, c, places : shape = sns.shape /\ c = sns.c /\ places = PlacesOf(sns.shape)
    OBVIOUS
  <1>2. shape \in 0..3 /\ c \in Seq(Int) /\ Len(c) = 16
    BY <1>1 DEF IsSns
  <1>3. /\ places \in 1..16 /\ Energy(SubSeq(c, 1, places)) \in 1..10
        /\ shape = 0 => Energy(SubSeq(c, 11, 16)) \in 1..10
    <2>1. places \in 1..16
      BY <1>1, <1>2 DEF PlacesOf
    <2>2. Energy(SubSeq(c, 1, places)) = PulsesOf(shape) /\ (shape = 0 => Energy(SubSeq(c, 11, 16)) = 1)
      BY <1>1, Zenon DEF IsSns
    <2>3. PulsesOf(shape) \in 1..10 /\ 1 \in 1..10
      BY <1>2 DEF PulsesOf
    <2> QED BY <2>1, <2>2, <2>3
  <1>4. EnumMvpq(SubSeq(c, 1, places)).idx \in Nat
    <2>1. PICK s : s = SubSeq(c, 1, places)
      OBVIOUS
    <2>2. 1 \in Nat /\ places \in Nat /\ 1 <= places + 1 /\ places <= Len(c) /\ places - 1 + 1 = places
      BY <1>2, <1>3
    <2>3. s \in Seq(Int) /\ Len(s) = places
      <3>1. SubSeq(c, 1, places) \in Seq(Int) /\ Len(SubSeq(c, 1, places)) = places - 1 + 1
        <4>1. c \in Seq(Int) /\ 1 \in Nat /\ places \in Nat /\ 1 <= 1 /\ 1 <= places + 1 /\ places <= Len(c)
          BY <1>2, <2>2
        <4> QED BY <4>1, Pieces, Zenon
      <3> QED BY <2>1, <2>2, <3>1, Zenon
    <2>4. Len(s) \in 1..16 /\ Energy(s) \in 1..10
      BY <1>3, <2>1, <2>3
    <2> QED BY <2>1, <2>3, <2>4, Enumerates
  <1>5. shape = 0 => EnumMvpq(SubSeq(c, 11, 16)).idx \in Nat
    <2> SUFFICES ASSUME shape = 0 PROVE EnumMvpq(SubSeq(c, 11, 16)).idx \in Nat
      OBVIOUS
    <2>1. PICK s : s = SubSeq(c, 11, 16)
      OBVIOUS
    <2>2. 11 \in Nat /\ 16 \in Nat /\ 1 <= 11 /\ 11 <= 16 + 1 /\ 16 <= Len(c) /\ 16 - 11 + 1 = 6
      BY <1>2
    <2>3. s \in Seq(Int) /\ Len(s) = 6
      BY <1>2, <2>1, <2>2, Pieces
    <2>4. Len(s) \in 1..16 /\ Energy(s) \in 1..10
      BY <1>3, <2>1, <2>3
    <2> QED BY <2>1, <2>3, <2>4, Enumerates
  <1>6. PICK v : v = Enumerate(shape, c)
    OBVIOUS
  <1>7. v.a = EnumMvpq(SubSeq(c, 1, places))
    BY <1>1, <1>6 DEF Enumerate
  <1>8. v.b = IF shape = 0 THEN EnumMvpq(SubSeq(c, 11, 16)) ELSE [idx |-> 0, ls |-> FALSE]
    BY <1>6 DEF Enumerate
  <1>9. v.a.idx \in Nat
    BY <1>4, <1>7, Zenon
  <1>10. v.b.idx \in Nat
    <2>1. [idx |-> 0, ls |-> FALSE].idx \in Nat
      OBVIOUS
    <2>2. CASE shape = 0
      BY <1>5, <1>8, <2>2, Zenon
    <2>3. CASE shape # 0
      BY <1>8, <2>1, <2>3, Zenon
    <2> QED BY <2>2, <2>3
  <1> QED BY <1>1, <1>6, <1>9, <1>10

LEMMA PutsSns ==
    ASSUME NEW b \in Stream, NEW sns, IsSns(sns)
    PROVE  SnsPut(b, sns) \in Stream
  <1>1. PICK v, msb, gain, ls, mux :
            /\ v = Enumerate(sns.shape, sns.c) /\ msb = sns.shape \div 2
            /\ gain = sns.gain \div 2^(sns.shape % 2) /\ ls = Flag(v.a.ls) /\ mux = Mux(sns.shape, sns.gain, v)
    OBVIOUS
  <1>2. sns.shape \in 0..3 /\ sns.lfcb \in Nat /\ sns.hfcb \in Nat /\ sns.gain \in Nat
    BY DEF IsSns
  <1>3. msb \in {0, 1}
    BY <1>1, <1>2
  <1>4. gain \in Int
    <2>1. sns.shape % 2 \in 0..30
      BY <1>2
    <2> QED BY <1>1, <1>2, <2>1, Powers, Division
  <1>5. mux \in Int
    BY <1>1, <1>2, EnumeratesShapes, Muxed
  <1>6. PICK fields : fields = <<<<sns.lfcb, 5>>, <<sns.hfcb, 5>>, <<msb, 1>>, <<gain, 1 + msb>>,
                                 <<ls, 1>>, <<mux, 25 - msb>>>>
    OBVIOUS
  <1>7. SnsPut(b, sns) = PutFields(b, fields)
    BY <1>1, <1>6, Zenon DEF SnsPut
  <1>8. /\ Len(fields) = 6
        /\ fields[1] = <<sns.lfcb, 5>> /\ fields[2] = <<sns.hfcb, 5>> /\ fields[3] = <<msb, 1>>
        /\ fields[4] = <<gain, 1 + msb>> /\ fields[5] = <<ls, 1>> /\ fields[6] = <<mux, 25 - msb>>
    BY <1>6
  <1>9. /\ 1 \in 0..32 /\ 5 \in 0..32 /\ 1 + msb \in 0..32 /\ 25 - msb \in 0..32
        /\ sns.lfcb \in Int /\ sns.hfcb \in Int /\ msb \in Int /\ ls \in Int
    BY <1>1, <1>2, <1>3, Flags
  <1>10. \A i \in 1..6 : i = 1 \/ i = 2 \/ i = 3 \/ i = 4 \/ i = 5 \/ i = 6
    OBVIOUS
  <1>11. \A i \in 1..6 : fields[i][1] \in Int /\ fields[i][2] \in 0..32
    BY <1>4, <1>5, <1>8, <1>9, <1>10
  <1>12. 6 \in Nat /\ 6 = Len(fields)
    BY <1>8
  <1> QED BY <1>7, <1>11, <1>12, PutsFields

-----------------------------------------------------------------------------
(* Writing pairs                                                           *)

\* Quantized coefficients are of 16 bits with the sign.
LEMMA Sizes ==
    ASSUME NEW v \in Quantized
    PROVE  Abs(v) \in 0..2^15 - 1 /\ v \in Int
  BY DEF Abs, Quantized

\* A pair has at most thirteen planes beyond its two bits.
LEMMA PlanesFit ==
    ASSUME NEW a \in 0..2^15 - 1, NEW b \in 0..2^15 - 1, NEW planes, planes = PlanesOf(a, b)
    PROVE  planes \in 0..13 /\ a \div 2^planes \in 0..3 /\ b \div 2^planes \in 0..3
  <1>1. PICK v, k : v = Most(a, b) /\ k = BitLength(Most(a, b))
    OBVIOUS
  <1>2. v \in Nat /\ v < 2^15 /\ a <= v /\ b <= v
    BY <1>1 DEF Most
  <1>3. k \in 0..30 /\ v < 2^k /\ (k = 0 \/ 2^(k - 1) <= v)
    <2>1. v < 2^30
      BY <1>2
    <2> QED BY <1>1, <1>2, <2>1, BitLengths
  <1>4. k <= 15
    <2> SUFFICES ASSUME ~(k <= 15) PROVE FALSE
      OBVIOUS
    <2>1. 15 \in 0..30 /\ k - 1 \in 0..30 /\ 15 <= k - 1 /\ k # 0
      BY <1>3
    <2>2. 2^15 <= 2^(k - 1) /\ 2^(k - 1) \in Nat
      BY <2>1, Growing, Powers
    <2>3. PICK p : p = 2^(k - 1)
      OBVIOUS
    <2>4. p \in Nat /\ p <= v /\ 2^15 <= p
      BY <1>3, <2>1, <2>2, <2>3
    <2> QED BY <1>2, <2>4
  <1>5. planes \in 0..13 /\ k <= planes + 2
    <2>1. planes = Most(k - 2, 0)
      BY <1>1 DEF PlanesOf
    <2> QED BY <1>3, <1>4, <2>1 DEF Most
  <1>6. PICK p, q : p = 2^planes /\ q = 2^(planes + 2)
    OBVIOUS
  <1>7. p \in Nat \ {0} /\ q = 4 * p
    <2>1. PICK i, j : i = planes + 1 /\ j = planes + 2
      OBVIOUS
    <2>2. planes \in 0..30 /\ i \in 0..30 /\ j \in 0..30 /\ j = i + 1
      BY <1>5, <2>1
    <2>3. 2^planes \in Nat \ {0} /\ 2^i = 2 * 2^planes /\ 2^j = 2 * 2^i
      BY <2>1, <2>2, Powers
    <2>4. PICK r : r = 2^i
      OBVIOUS
    <2>5. p \in Nat \ {0} /\ r = 2 * p /\ q = 2 * r
      BY <1>6, <2>1, <2>3, <2>4, Zenon
    <2> QED BY <2>5
  <1>8. v < 4 * p
    <2>1. planes + 2 \in 0..30
      BY <1>5
    <2>2. 2^k <= q /\ 2^k \in Nat
      BY <1>3, <1>5, <1>6, <2>1, Growing, Powers
    <2>3. PICK r : r = 2^k
      OBVIOUS
    <2>4. r \in Nat /\ r <= q /\ v < r
      BY <1>3, <2>2, <2>3
    <2> QED BY <1>2, <1>7, <2>4
  <1>9. \A u \in Nat : u <= v => u \div p \in 0..3
    <2> SUFFICES ASSUME NEW u \in Nat, u <= v PROVE u \div p \in 0..3
      OBVIOUS
    <2>1. u < 4 * p
      BY <1>2, <1>7, <1>8
    <2>2. u \div p \in Int /\ u \div p >= 0 /\ u \div p < 4
      <3>1. u \in Int /\ u >= 0 /\ 4 \in Int
        OBVIOUS
      <3> QED BY <1>7, <2>1, <3>1, Division, Zenon
    <2>3. PICK r : r = u \div p
      OBVIOUS
    <2>4. r \in 0..3
      BY <2>2, <2>3
    <2> QED BY <2>3, <2>4
  <1>10. a \in Nat /\ b \in Nat
    OBVIOUS
  <1> QED BY <1>2, <1>5, <1>6, <1>9, <1>10, Zenon

LEMMA FirstPlanes ==
    ASSUME NEW planes \in 0..13, NEW lsbMode
    PROVE  FirstPlane(planes, lsbMode) \in 0..planes /\ FirstPlane(planes, lsbMode) \in {0, 1}
  BY DEF FirstPlane, Flag

LEMMA NextStates ==
    ASSUME NEW context \in 0..255, NEW planes \in Nat, NEW a \in 0..3, NEW b \in 0..3
    PROVE  NextState(context, planes, a, b) \in 0..255
  <1>1. PICK k : k = Least(planes, 3)
    OBVIOUS
  <1>2. k \in 0..3
    BY <1>1 DEF Least
  <1>3. PICK m : m = IF k > 1 THEN 12 + k ELSE 1 + (a + b) * (k + 1)
    OBVIOUS
  <1>4. m \in Nat
    <2>1. k > 1 \/ k = 0 \/ k = 1
      BY <1>2
    <2> QED BY <1>2, <1>3, <2>1
  <1>5. NextState(context, planes, a, b) = (context * 16 + m) % 256
    BY <1>1, <1>3 DEF NextState
  <1> QED BY <1>4, <1>5

LEMMA PutsByLut ==
    ASSUME NEW b \in Stream, NEW lut \in Luts, NEW k \in Nat, NEW s \in 0..16
    PROVE  PutSymbol(b, Models[ModelAt(lut, k)], s) \in Stream
  <1>1. Least(k, 3) + 1 \in 1..4
    BY DEF Least
  <1>2. ModelAt(lut, k) \in DOMAIN Models
    BY <1>1 DEF ModelAt, Luts
  <1>3. IsModel(Models[ModelAt(lut, k)], 17)
    BY <1>2, SpectrumTables
  <1>4. 17 \in 1..17 /\ s \in 0..17 - 1
    OBVIOUS
  <1> QED BY <1>3, <1>4, PutsSymbol

LEMMA PutsEscapes ==
    ASSUME NEW b \in Stream, NEW lut \in Luts, NEW x \in Quantized, NEW y \in Quantized,
           NEW planes \in 0..13, NEW first \in 0..planes
    PROVE  PutEscapes(b, lut, x, y, first, planes) \in Stream
  <1>1. PICK n, lsb : n = planes - first /\ lsb = IF first = 1 THEN PutSymbol(b, Models[ModelAt(lut, 0)], Escape) ELSE b
    OBVIOUS
  <1>2. n \in Nat /\ Escape \in 0..16
    BY <1>1 DEF Escape
  <1>3. lsb \in Stream
    <2>1. 0 \in Nat
      OBVIOUS
    <2>2. PutSymbol(b, Models[ModelAt(lut, 0)], Escape) \in Stream
      BY <1>2, <2>1, PutsByLut
    <2> QED BY <1>1, <2>2
  <1> DEFINE index(i) == first + i - 1
             bits(c, k) == PutBits(PutBits(c, Bit(Abs(x), k), 1), Bit(Abs(y), k), 1)
             next(c, k) == PutSymbol(bits(c, k), Models[ModelAt(lut, k)], Escape)
             seq == [i \in 1..n |-> index(i)]
             Body(f) == [i \in 0..Len(seq) |-> IF i = 0 THEN lsb ELSE next(f[i - 1], seq[i])]
             after == CHOOSE f : f = Body(f)
             S == [i \in 0..n |-> Stream]
  <1>4. PutEscapes(b, lut, x, y, first, planes) = after[Len(seq)]
    BY <1>1 DEF PutEscapes, Loop
  <1>5. Len(seq) = n /\ \A i \in 1..n : seq[i] = index(i)
    BY <1>2
  <1>6. \A i \in 1..n : index(i) \in 0..30
    BY <1>1
  <1> HIDE DEF index
  <1>7. ASSUME NEW i \in 1..n, NEW a \in S[i - 1] PROVE next(a, index(i)) \in S[i]
    <2>1. i - 1 \in 0..n /\ i \in 0..n
      BY <1>2
    <2>2. PICK k : k = index(i)
      OBVIOUS
    <2>3. a \in Stream /\ k \in 0..30 /\ k \in Nat
      BY <1>6, <1>7, <2>1, <2>2
    <2>4. \A v \in Nat : Bit(v, k) \in Int
      <3> SUFFICES ASSUME NEW v \in Nat PROVE Bit(v, k) \in Int
        OBVIOUS
      <3>1. v \div 2^k \in Int
        <4>1. 2^k \in Nat \ {0}
          BY <2>3, Powers, Zenon
        <4>2. v \in Int
          OBVIOUS
        <4> QED BY <4>1, <4>2, Division, Zenon
      <3>2. \A w \in Int : w % 2 \in Int
        OBVIOUS
      <3> QED BY <3>1, <3>2, Zenon DEF Bit
    <2>5. Bit(Abs(x), k) \in Int /\ Bit(Abs(y), k) \in Int /\ 1 \in 0..32
      <3>1. Abs(x) \in Nat /\ Abs(y) \in Nat
        BY Sizes
      <3> QED BY <2>4, <3>1
    <2>6. PICK c : c = bits(a, k)
      OBVIOUS
    <2>7. c \in Stream
      <3>1. PICK d : d = PutBits(a, Bit(Abs(x), k), 1)
        OBVIOUS
      <3>2. d \in Stream
        BY <2>3, <2>5, <3>1, PutsBits
      <3>3. PutBits(d, Bit(Abs(y), k), 1) \in Stream
        BY <2>5, <3>2, PutsBits
      <3> QED BY <2>6, <3>1, <3>3
    <2>8. PutSymbol(c, Models[ModelAt(lut, k)], Escape) \in Stream
      BY <1>2, <2>3, <2>7, PutsByLut
    <2>9. next(a, k) \in Stream
      BY <2>6, <2>8, Zenon
    <2> HIDE DEF next
    <2> QED BY <2>1, <2>2, <2>9
  <1>8. lsb \in S[0]
    BY <1>2, <1>3
  <1>9. n \in Nat
    BY <1>2
  <1> HIDE DEF next, S, seq
  <1>10. PICK step : step = [i \in 1..n |-> [a \in S[i - 1] |-> next(a, index(i))]]
    OBVIOUS
  <1>11. \A i \in 1..n : \A a \in S[i - 1] : step[i][a] = next(a, index(i))
    BY <1>10
  <1>12. PICK f : RunIn(f, S, n, lsb, step)
    BY <1>9, <1>7, <1>8, <1>11, IterateIn
  <1>13. f = Body(f)
    <2>1. f \in [0..n -> UNION {S[i] : i \in 0..n}] /\ f[0] = lsb
      BY <1>12 DEF RunIn
    <2>2. \A i \in 1..n : f[i] = next(f[i - 1], seq[i])
      <3>1. \A i \in 1..n : f[i - 1] \in S[i - 1] /\ f[i] = step[i][f[i - 1]]
        BY <1>12 DEF RunIn
      <3>2. \A i \in 1..n : seq[i] = index(i)
        BY <1>5
      <3> QED BY <1>11, <3>1, <3>2, Zenon
    <2> QED BY <1>5, <2>1, <2>2
  <1>14. after = Body(after)
    <2> HIDE DEF Body
    <2> QED BY <1>13, Zenon
  <1> HIDE DEF after
  <1>15. after[0] = lsb /\ \A i \in 1..n : after[i] = next(after[i - 1], index(i))
    BY <1>9, <1>5, <1>14
  <1>16. after[n] \in S[n]
    <2>1. after[0] \in S[0] /\ \A i \in 1..n : after[i - 1] \in S[i - 1] => after[i] \in S[i]
      BY <1>7, <1>8, <1>15
    <2> QED BY <1>9, <2>1, LeadsTo
  <1>17. after[n] \in Stream
    BY <1>9, <1>16 DEF S
  <1> QED BY <1>4, <1>5, <1>17, Zenon

LEMMA PutsSign ==
    ASSUME NEW b \in Stream, NEW v, NEW first
    PROVE  PutSign(b, v, first) \in Stream
  <1>1. Flag(v < 0) \in Int /\ 1 \in 0..32
    BY Flags
  <1>2. PutBits(b, Flag(v < 0), 1) \in Stream
    BY <1>1, PutsBits
  <1> QED BY <1>2, Zenon DEF PutSign

LEMMA PutsPair ==
    ASSUME NEW b \in Stream, NEW lut \in Luts, NEW x \in Quantized, NEW y \in Quantized, NEW lsbMode
    PROVE  PutPair(b, lut, x, y, lsbMode) \in Stream
  <1>1. PICK a, c : a = Abs(x) /\ c = Abs(y)
    OBVIOUS
  <1>2. a \in 0..2^15 - 1 /\ c \in 0..2^15 - 1
    BY <1>1, Sizes
  <1>3. PICK planes : planes = PlanesOf(a, c)
    OBVIOUS
  <1>4. planes \in 0..13 /\ a \div 2^planes \in 0..3 /\ c \div 2^planes \in 0..3
    BY <1>2, <1>3, PlanesFit
  <1>5. PICK first : first = FirstPlane(planes, lsbMode)
    OBVIOUS
  <1>6. first \in 0..planes
    BY <1>4, <1>5, FirstPlanes
  <1>7. PICK escaped, signed : escaped = PutEscapes(b, lut, x, y, first, planes)
                               /\ signed = PutSign(PutSign(escaped, x, first), y, first)
    OBVIOUS
  <1>8. signed \in Stream
    BY <1>4, <1>6, <1>7, PutsEscapes, PutsSign
  <1>9. PICK symbol : symbol = (a \div 2^planes) + 4 * (c \div 2^planes)
    OBVIOUS
  <1>10. symbol \in 0..16 /\ planes \in Nat
    <2>1. PICK u, v : u = a \div 2^planes /\ v = c \div 2^planes
      OBVIOUS
    <2>2. u \in 0..3 /\ v \in 0..3 /\ symbol = u + 4 * v
      BY <1>4, <1>9, <2>1
    <2> QED BY <1>4, <2>2
  <1>11. PutSymbol(signed, Models[ModelAt(lut, planes)], symbol) \in Stream
    BY <1>8, <1>10, PutsByLut
  <1>12. PutPair(b, lut, x, y, lsbMode) = PutSymbol(signed, Models[ModelAt(lut, planes)], symbol)
    BY <1>1, <1>3, <1>5, <1>7, <1>9, Zenon DEF PutPair
  <1> QED BY <1>11, <1>12

-----------------------------------------------------------------------------
(* Writing what fills the frame                                            *)

Room == [bits : Stream, n : Int]

LEMMA PutsIfRoom ==
    ASSUME NEW acc \in Room, NEW bit \in Int
    PROVE  PutIfRoom(acc, bit) \in Room
  <1>1. acc.bits \in Stream /\ acc.n \in Int /\ 1 \in 0..32
    BY DEF Room
  <1>2. PICK c, n : c = PutBits(acc.bits, bit, 1) /\ n = acc.n - 1
    OBVIOUS
  <1>3. c \in Stream /\ n \in Int
    <2>1. c \in Stream
      BY <1>1, <1>2, PutsBits
    <2>2. n \in Int
      BY <1>1, <1>2
    <2> QED BY <2>1, <2>2
  <1>4. [bits |-> c, n |-> n] \in Room
    BY <1>3 DEF Room
  <1> QED BY <1>2, <1>4, Zenon DEF PutIfRoom

LEMMA PutsResidual ==
    ASSUME NEW b \in Stream, NEW nbits \in Int, NEW x \in Seq(Int), NEW residual \in Seq(Int),
           Len(x) <= Len(residual)
    PROVE  PutResidual(b, nbits, x, residual) \in Stream
  <1>1. PICK n, m : n = Len(x) /\ m = Len(residual)
    OBVIOUS
  <1>2. n \in Nat /\ m \in Nat /\ n <= m /\ \A i \in 1..m : residual[i] \in Int
    BY <1>1, Elements
  <1> DEFINE next(acc, i) == IF x[i] = 0 THEN acc ELSE PutIfRoom(acc, residual[i])
             first == [bits |-> b, n |-> nbits]
             seq == [i \in 1..n |-> i]
             Body(f) == [i \in 0..Len(seq) |-> IF i = 0 THEN first ELSE next(f[i - 1], seq[i])]
             after == CHOOSE f : f = Body(f)
             S == [i \in 0..n |-> Room]
  <1>3. PutResidual(b, nbits, x, residual) = after[Len(seq)].bits
    BY <1>1 DEF PutResidual, Loop
  <1>4. Len(seq) = n /\ \A i \in 1..n : seq[i] = i
    BY <1>2
  <1>5. ASSUME NEW i \in 1..n, NEW a \in S[i - 1] PROVE next(a, i) \in S[i]
    <2>1. i - 1 \in 0..n /\ i \in 0..n /\ i \in 1..m
      BY <1>2
    <2>2. a \in Room /\ residual[i] \in Int
      BY <1>2, <1>5, <2>1
    <2>3. next(a, i) \in Room
      BY <2>2, PutsIfRoom
    <2> HIDE DEF next
    <2> QED BY <2>1, <2>3
  <1>6. first \in S[0]
    BY <1>2 DEF Room
  <1>7. n \in Nat
    BY <1>2
  <1> HIDE DEF next, S, first, seq
  <1>8. PICK step : step = [i \in 1..n |-> [a \in S[i - 1] |-> next(a, i)]]
    OBVIOUS
  <1>9. \A i \in 1..n : \A a \in S[i - 1] : step[i][a] = next(a, i)
    BY <1>8
  <1>10. PICK f : RunIn(f, S, n, first, step)
    BY <1>7, <1>5, <1>6, <1>9, IterateIn
  <1>11. f = Body(f)
    <2>1. f \in [0..n -> UNION {S[i] : i \in 0..n}] /\ f[0] = first
      BY <1>10 DEF RunIn
    <2>2. \A i \in 1..n : f[i] = next(f[i - 1], seq[i])
      <3>1. \A i \in 1..n : f[i - 1] \in S[i - 1] /\ f[i] = step[i][f[i - 1]]
        BY <1>10 DEF RunIn
      <3>2. \A i \in 1..n : seq[i] = i
        BY <1>4
      <3> QED BY <1>9, <3>1, <3>2, Zenon
    <2> QED BY <1>4, <2>1, <2>2
  <1>12. after = Body(after)
    <2> HIDE DEF Body
    <2> QED BY <1>11, Zenon
  <1> HIDE DEF after
  <1>13. after[0] = first /\ \A i \in 1..n : after[i] = next(after[i - 1], i)
    BY <1>7, <1>4, <1>12
  <1>14. after[n] \in S[n]
    <2>1. after[0] \in S[0] /\ \A i \in 1..n : after[i - 1] \in S[i - 1] => after[i] \in S[i]
      BY <1>5, <1>6, <1>13
    <2> QED BY <1>7, <2>1, LeadsTo
  <1>15. after[n].bits \in Stream
    BY <1>7, <1>14 DEF S, Room
  <1> QED BY <1>3, <1>4, <1>15, Zenon

LEMMA PutsLsbAt ==
    ASSUME NEW acc \in Room, NEW v \in Int
    PROVE  PutLsbAt(acc, v) \in Room
  <1>1. PICK plane : plane = PutIfRoom(acc, Abs(v) % 2)
    OBVIOUS
  <1>2. plane \in Room
    <2>1. Abs(v) % 2 \in Int
      BY DEF Abs
    <2> QED BY <1>1, <2>1, PutsIfRoom
  <1>3. PutIfRoom(plane, Flag(v < 0)) \in Room
    BY <1>2, Flags, PutsIfRoom
  <1> QED BY <1>1, <1>2, <1>3, Zenon DEF PutLsbAt

LEMMA PutsLsb ==
    ASSUME NEW b \in Stream, NEW nbits \in Int, NEW x \in Seq(Int)
    PROVE  PutLsb(b, nbits, x) \in Stream
  <1>1. PICK m, n : m = Len(x) /\ n = Len(x) \div 2
    OBVIOUS
  <1>2. m \in Nat /\ n = m \div 2 /\ \A i \in 1..m : x[i] \in Int
    BY <1>1, Elements
  <1>3. n \in Nat /\ \A p \in 1..n : 2 * p - 1 \in 1..m /\ 2 * p \in 1..m
    BY <1>2
  <1> DEFINE next(acc, p) == IF PlanesOf(Abs(x[2 * p - 1]), Abs(x[2 * p])) = 0 THEN acc
                             ELSE PutLsbAt(PutLsbAt(acc, x[2 * p - 1]), x[2 * p])
             first == [bits |-> b, n |-> nbits]
             seq == [p \in 1..n |-> p]
             Body(f) == [i \in 0..Len(seq) |-> IF i = 0 THEN first ELSE next(f[i - 1], seq[i])]
             after == CHOOSE f : f = Body(f)
             S == [i \in 0..n |-> Room]
  <1>4. PutLsb(b, nbits, x) = after[Len(seq)].bits
    BY <1>1 DEF PutLsb, Loop
  <1>5. Len(seq) = n /\ \A i \in 1..n : seq[i] = i
    BY <1>3
  <1>6. ASSUME NEW i \in 1..n, NEW a \in S[i - 1] PROVE next(a, i) \in S[i]
    <2>1. i - 1 \in 0..n /\ i \in 0..n
      BY <1>3
    <2>2. a \in Room
      BY <1>6, <2>1
    <2>3. PICK u, v : u = x[2 * i - 1] /\ v = x[2 * i]
      OBVIOUS
    <2>4. u \in Int /\ v \in Int
      BY <1>2, <1>3, <2>3
    <2>5. PutLsbAt(PutLsbAt(a, u), v) \in Room
      BY <2>2, <2>4, PutsLsbAt
    <2>6. next(a, i) \in Room
      BY <2>2, <2>3, <2>5, Zenon
    <2> HIDE DEF next
    <2> QED BY <2>1, <2>6
  <1>7. first \in S[0]
    BY <1>3 DEF Room
  <1>8. n \in Nat
    BY <1>3
  <1> HIDE DEF next, S, first, seq
  <1>9. PICK step : step = [i \in 1..n |-> [a \in S[i - 1] |-> next(a, i)]]
    OBVIOUS
  <1>10. \A i \in 1..n : \A a \in S[i - 1] : step[i][a] = next(a, i)
    BY <1>9
  <1>11. PICK f : RunIn(f, S, n, first, step)
    BY <1>8, <1>6, <1>7, <1>10, IterateIn
  <1>12. f = Body(f)
    <2>1. f \in [0..n -> UNION {S[i] : i \in 0..n}] /\ f[0] = first
      BY <1>11 DEF RunIn
    <2>2. \A i \in 1..n : f[i] = next(f[i - 1], seq[i])
      <3>1. \A i \in 1..n : f[i - 1] \in S[i - 1] /\ f[i] = step[i][f[i - 1]]
        BY <1>11 DEF RunIn
      <3>2. \A i \in 1..n : seq[i] = i
        BY <1>5
      <3> QED BY <1>10, <3>1, <3>2, Zenon
    <2> QED BY <1>5, <2>1, <2>2
  <1>13. after = Body(after)
    <2> HIDE DEF Body
    <2> QED BY <1>12, Zenon
  <1> HIDE DEF after
  <1>14. after[0] = first /\ \A i \in 1..n : after[i] = next(after[i - 1], i)
    BY <1>8, <1>5, <1>13
  <1>15. after[n] \in S[n]
    <2>1. after[0] \in S[0] /\ \A i \in 1..n : after[i - 1] \in S[i - 1] => after[i] \in S[i]
      BY <1>6, <1>7, <1>14
    <2> QED BY <1>8, <2>1, LeadsTo
  <1>16. after[n].bits \in Stream
    BY <1>8, <1>15 DEF S, Room
  <1> QED BY <1>4, <1>5, <1>16, Zenon

-----------------------------------------------------------------------------
(* The cut of the spectrum                                                 *)

\* What a pair costs is a number.
LEMMA CostsOfPairs ==
    ASSUME NEW lut \in Luts, NEW a \in 0..2^15 - 1, NEW b \in 0..2^15 - 1, NEW lsbMode
    PROVE  PairCost(lut, a, b, lsbMode).nbits \in Int /\ PairCost(lut, a, b, lsbMode).lsb \in Nat
  <1>1. PICK planes : planes = PlanesOf(a, b)
    OBVIOUS
  <1>2. planes \in 0..13 /\ a \div 2^planes \in 0..3 /\ b \div 2^planes \in 0..3
    BY <1>1, PlanesFit
  <1>3. PICK lsb : lsb = FirstPlane(planes, lsbMode)
    OBVIOUS
  <1>4. lsb \in {0, 1}
    BY <1>2, <1>3, FirstPlanes
  <1>5. \A k \in Nat, s \in 0..16 : Costs[ModelAt(lut, k)][s] \in Nat
    <2> SUFFICES ASSUME NEW k \in Nat, NEW s \in 0..16 PROVE Costs[ModelAt(lut, k)][s] \in Nat
      OBVIOUS
    <2>1. Least(k, 3) + 1 \in 1..4
      BY DEF Least
    <2>2. ModelAt(lut, k) \in DOMAIN Models
      BY <2>1 DEF ModelAt, Luts
    <2> QED BY <2>2, SpectrumTables, SMTT(30)
  <1> DEFINE next(n, k) == n + Costs[ModelAt(lut, k - 1)][Escape]
             first == 0
             seq == [k \in 1..planes |-> k]
             Body(f) == [i \in 0..Len(seq) |-> IF i = 0 THEN first ELSE next(f[i - 1], seq[i])]
             after == CHOOSE f : f = Body(f)
             S == [i \in 0..planes |-> Nat]
  <1>6. PICK escapes, low, symbol, last :
            /\ escapes = after[Len(seq)] /\ low = IF lsb = 1 THEN 2 + Flag(a = 1) + Flag(b = 1) ELSE 0
            /\ symbol = (a \div 2^planes) + 4 * (b \div 2^planes)
            /\ last = Costs[ModelAt(lut, planes)][symbol]
    OBVIOUS
  <1>7. PairCost(lut, a, b, lsbMode) =
            [nbits |-> 2048 * (Flag(a > 0) + Flag(b > 0)) + escapes + 2 * 2048 * (planes - lsb) + last,
             lsb |-> low]
    BY <1>1, <1>3, <1>6, SMT DEF PairCost, Loop
  <1>8. planes \in Nat /\ Len(seq) = planes /\ \A i \in 1..planes : seq[i] = i
    BY <1>2
  <1>9. ASSUME NEW i \in 1..planes, NEW n \in S[i - 1] PROVE next(n, i) \in S[i]
    <2>1. i - 1 \in 0..planes /\ i \in 0..planes /\ i - 1 \in Nat /\ Escape \in 0..16
      BY <1>8 DEF Escape
    <2>2. PICK k : k = Costs[ModelAt(lut, i - 1)][Escape]
      OBVIOUS
    <2>3. n \in Nat /\ k \in Nat
      BY <1>5, <1>9, <2>1, <2>2
    <2>4. next(n, i) = n + k
      BY <2>2
    <2> HIDE DEF next
    <2> QED BY <2>1, <2>3, <2>4
  <1>10. first \in S[0]
    BY <1>8
  <1> HIDE DEF next, S, seq
  <1>11. PICK step : step = [i \in 1..planes |-> [e \in S[i - 1] |-> next(e, i)]]
    OBVIOUS
  <1>12. \A i \in 1..planes : \A e \in S[i - 1] : step[i][e] = next(e, i)
    BY <1>11
  <1>13. PICK f : RunIn(f, S, planes, first, step)
    BY <1>8, <1>9, <1>10, <1>12, IterateIn, ZenonT(40)
  <1>14. f = Body(f)
    <2>1. f \in [0..planes -> UNION {S[i] : i \in 0..planes}] /\ f[0] = first
      BY <1>13 DEF RunIn
    <2>2. \A i \in 1..planes : f[i] = next(f[i - 1], seq[i])
      <3>1. \A i \in 1..planes : f[i - 1] \in S[i - 1] /\ f[i] = step[i][f[i - 1]]
        BY <1>13 DEF RunIn
      <3>2. \A i \in 1..planes : seq[i] = i
        BY <1>8
      <3> QED BY <1>12, <3>1, <3>2, Zenon
    <2> QED BY <1>8, <2>1, <2>2, SMTT(30)
  <1>15. after = Body(after)
    <2> HIDE DEF Body
    <2> QED BY <1>14, Zenon
  <1> HIDE DEF after
  <1>16. after[0] = first /\ \A i \in 1..planes : after[i] = next(after[i - 1], i)
    BY <1>8, <1>8, <1>15
  <1>17. after[planes] \in S[planes]
    <2>1. after[0] \in S[0] /\ \A i \in 1..planes : after[i - 1] \in S[i - 1] => after[i] \in S[i]
      BY <1>9, <1>10, <1>16
    <2> QED BY <1>8, <2>1, LeadsTo
  <1>18. escapes \in Nat
    BY <1>6, <1>8, <1>17 DEF S
  <1>19. symbol \in 0..16
    <2>1. PICK u, v : u = a \div 2^planes /\ v = b \div 2^planes
      OBVIOUS
    <2>2. u \in 0..3 /\ v \in 0..3 /\ symbol = u + 4 * v
      BY <1>2, <1>6, <2>1
    <2> QED BY <2>2
  <1>20. last \in Nat
    BY <1>5, <1>6, <1>8, <1>19
  <1>21. low \in Nat
    <2>1. PICK u, v : u = Flag(a = 1) /\ v = Flag(b = 1)
      OBVIOUS
    <2>2. u \in Nat /\ v \in Nat
      BY <2>1, Flags
    <2> QED BY <1>6, <2>1, <2>2
  <1>22. PICK n : n = 2048 * (Flag(a > 0) + Flag(b > 0)) + escapes + 2 * 2048 * (planes - lsb) + last
    OBVIOUS
  <1>23. n \in Int
    <2>1. PICK u, v : u = Flag(a > 0) /\ v = Flag(b > 0)
      OBVIOUS
    <2>2. u \in Nat /\ v \in Nat
      BY <2>1, Flags
    <2>3. n = 2048 * (u + v) + escapes + 2 * 2048 * (planes - lsb) + last
      BY <1>22, <2>1, SMT
    <2> QED BY <1>4, <1>8, <1>18, <1>20, <2>2, <2>3, SMT
  <1>24. PairCost(lut, a, b, lsbMode) = [nbits |-> n, lsb |-> low]
    BY <1>7, <1>22, SMT
  <1> QED BY <1>21, <1>23, <1>24

LEMMA LutsOf ==
    ASSUME NEW format, NEW i, NEW context \in 0..255
    PROVE  LutOf(format, i, context) \in Luts
  <1>1. ResolveHighRate(format.sr, format.nbytes) \in BOOLEAN
    BY DEF ResolveHighRate
  <1>2. PICK rate, half : /\ rate = ResolveHighRate(format.sr, format.nbytes)
                          /\ half = Flag(i >= (NE(format.sr) + 2) \div 2)
    OBVIOUS
  <1>3. rate \in BOOLEAN /\ half \in 0..1
    <2>1. half \in {0, 1}
      BY <1>2, Flags
    <2>2. half \in 0..1
      BY <2>1
    <2> QED BY <1>1, <1>2, <2>2
  <1>4. Lookup \in [BOOLEAN -> [0..1 -> [0..255 -> [1..4 -> DOMAIN Models]]]]
    BY SpectrumTables, Zenon
  <1>5. Lookup[rate][half][context] \in [1..4 -> DOMAIN Models]
    <2>1. Lookup[rate] \in [0..1 -> [0..255 -> [1..4 -> DOMAIN Models]]]
      BY <1>3, <1>4
    <2>2. Lookup[rate][half] \in [0..255 -> [1..4 -> DOMAIN Models]]
      BY <1>3, <2>1
    <2> QED BY <2>2
  <1> QED BY <1>2, <1>5, Zenon DEF LutOf, Luts

\* What compute_nbits has counted of m coefficients: pairs are kept or not.
Counted(m) == [nbits : Int, lsb : Nat, state : 0..255, n : {k \in 0..m : k % 2 = 0}, end : Int]

LEMMA CountsPair ==
    ASSUME NEW format, NEW m \in Nat, NEW x \in Seq(Quantized), Len(x) = m, NEW budget, NEW lsbMode,
           NEW acc \in Counted(m), NEW i \in 0..m - 2, i % 2 = 0
    PROVE  CostAt(format, x, budget, lsbMode, acc, i) \in Counted(m)
  <1>1. PICK a, b : a = Abs(x[i + 1]) /\ b = Abs(x[i + 2])
    OBVIOUS
  <1>2. a \in 0..2^15 - 1 /\ b \in 0..2^15 - 1
    <2>1. i + 1 \in 1..Len(x) /\ i + 2 \in 1..Len(x)
      OBVIOUS
    <2>2. x[i + 1] \in Quantized /\ x[i + 2] \in Quantized
      BY <2>1, Elements, Zenon
    <2> QED BY <1>1, <2>2, Sizes
  <1>3. /\ acc.nbits \in Int /\ acc.lsb \in Nat /\ acc.state \in 0..255 /\ acc.end \in Int
        /\ acc.n \in {k \in 0..m : k % 2 = 0}
    BY Zenon DEF Counted
  <1>4. PICK planes : planes = PlanesOf(a, b)
    OBVIOUS
  <1>5. planes \in 0..13 /\ a \div 2^planes \in 0..3 /\ b \div 2^planes \in 0..3
    BY <1>2, <1>4, PlanesFit
  <1>6. PICK lut : lut = LutOf(format, i, acc.state)
    OBVIOUS
  <1>7. lut \in Luts
    BY <1>3, <1>6, LutsOf
  <1>8. PICK cost : cost = PairCost(lut, a, b, lsbMode)
    OBVIOUS
  <1>9. cost.nbits \in Int /\ cost.lsb \in Nat
    BY <1>2, <1>7, <1>8, CostsOfPairs
  <1>10. PICK nbits, lsb : nbits = acc.nbits + cost.nbits /\ lsb = acc.lsb + cost.lsb
    OBVIOUS
  <1>11. PICK next : next = NextState(acc.state, planes, a \div 2^planes, b \div 2^planes)
    OBVIOUS
  <1>12. nbits \in Int /\ lsb \in Nat /\ next \in 0..255
    <2>1. nbits \in Int /\ lsb \in Nat
      BY <1>3, <1>9, <1>10
    <2>2. planes \in Nat
      BY <1>5
    <2> QED BY <1>3, <1>5, <1>11, <2>1, <2>2, NextStates
  <1> DEFINE kept == (a > 0 \/ b > 0) /\ nbits <= budget * 2048
  <1> HIDE DEF kept
  <1>13. PICK n, end : /\ n = (IF kept THEN i + 2 ELSE acc.n) /\ end = IF kept THEN nbits ELSE acc.end
    OBVIOUS
  <1>14. n \in {k \in 0..m : k % 2 = 0} /\ end \in Int
    <2>1. i + 2 \in {k \in 0..m : k % 2 = 0}
      OBVIOUS
    <2> QED BY <1>3, <1>12, <1>13, <2>1, Zenon
  <1>15. CostAt(format, x, budget, lsbMode, acc, i) =
             IF acc.nbits > budget * 2048 THEN acc
             ELSE [nbits |-> nbits, lsb |-> lsb, state |-> next, n |-> n, end |-> end]
    <2>1. CostAt(format, x, budget, lsbMode, acc, i) =
              IF acc.nbits > budget * 2048 THEN acc
              ELSE [nbits |-> nbits, lsb |-> lsb, state |-> next,
                    n |-> IF kept THEN i + 2 ELSE acc.n, end |-> IF kept THEN nbits ELSE acc.end]
      BY <1>1, <1>4, <1>6, <1>8, <1>10, <1>11, SMT DEF CostAt, kept
    <2> QED BY <1>13, <2>1, SMT
  <1>16. [nbits |-> nbits, lsb |-> lsb, state |-> next, n |-> n, end |-> end] \in Counted(m)
    BY <1>12, <1>14, Zenon DEF Counted
  <1> DEFINE over == acc.nbits > budget * 2048
  <1>17. CASE over
    <2>1. CostAt(format, x, budget, lsbMode, acc, i) = acc
      BY <1>15, <1>17, SMT
    <2> QED BY <2>1
  <1>18. CASE ~over
    <2>1. CostAt(format, x, budget, lsbMode, acc, i) = [nbits |-> nbits, lsb |-> lsb, state |-> next, n |-> n, end |-> end]
      BY <1>15, <1>18, SMT
    <2> QED BY <1>16, <2>1, Zenon
  <1> HIDE DEF over
  <1> QED BY <1>17, <1>18, Zenon

\* The spectrum is cut after a pair.
LEMMA Cut ==
    ASSUME NEW format, NEW x \in Seq(Quantized), NEW budget, NEW c, c = ComputeNbits(format, x, budget)
    PROVE  c.nq \in {k \in 0..Len(x) : k % 2 = 0} /\ c.lsbMode \in BOOLEAN
  <1>1. PICK m, n : m = Len(x) /\ n = Len(x) \div 2
    OBVIOUS
  <1>2. m \in Nat /\ n \in Nat /\ n = m \div 2
    BY <1>1
  <1> DEFINE lsbMode == format.nbytes >= 20 * (3 + format.sr)
             index(p) == 2 * (p - 1)
             next(acc, i) == CostAt(format, x, budget, lsbMode, acc, i)
             first == [nbits |-> 0, lsb |-> 0, state |-> 0, n |-> 0, end |-> 0]
             seq == [p \in 1..n |-> index(p)]
             Body(f) == [i \in 0..Len(seq) |-> IF i = 0 THEN first ELSE next(f[i - 1], seq[i])]
             after == CHOOSE f : f = Body(f)
             S == [i \in 0..n |-> Counted(m)]
  <1>3. c = [nq |-> after[Len(seq)].n,
             lsbMode |-> lsbMode /\ after[Len(seq)].end + after[Len(seq)].lsb * 2048 > budget * 2048]
    BY <1>1, SMT DEF ComputeNbits, Loop
  <1>4. Len(seq) = n /\ \A i \in 1..n : seq[i] = index(i)
    BY <1>2
  <1>5. ASSUME NEW i \in 1..n, NEW a \in S[i - 1] PROVE next(a, index(i)) \in S[i]
    <2>1. i - 1 \in 0..n /\ i \in 0..n
      BY <1>2
    <2>2. a \in Counted(m)
      BY <1>5, <2>1
    <2>3. PICK k, mode : k = index(i) /\ mode = lsbMode
      OBVIOUS
    <2>4. k \in 0..m - 2 /\ k % 2 = 0
      BY <1>2, <2>3
    <2>5. CostAt(format, x, budget, mode, a, k) \in Counted(m)
      BY <1>1, <1>2, <2>2, <2>4, CountsPair
    <2> HIDE DEF lsbMode, index
    <2>6. next(a, index(i)) = CostAt(format, x, budget, mode, a, k)
      BY <2>3, Zenon
    <2> HIDE DEF next
    <2> QED BY <2>1, <2>5, <2>6
  <1>6. first \in S[0]
    <2>1. first \in Counted(m)
      <3>1. 0 \in Int /\ 0 \in Nat /\ 0 \in 0..255 /\ 0 \in {k \in 0..m : k % 2 = 0}
        BY <1>2
      <3> QED BY <3>1, SMT DEF Counted
    <2> HIDE DEF first
    <2> QED BY <1>2, <2>1
  <1> HIDE DEF index, lsbMode
  <1> HIDE DEF next, S, first, seq
  <1>7. PICK step : step = [i \in 1..n |-> [a \in S[i - 1] |-> next(a, index(i))]]
    OBVIOUS
  <1>8. \A i \in 1..n : \A a \in S[i - 1] : step[i][a] = next(a, index(i))
    BY <1>7
  <1>9. PICK f : RunIn(f, S, n, first, step)
    BY <1>2, <1>5, <1>6, <1>8, IterateIn
  <1>10. f = Body(f)
    <2>1. f \in [0..n -> UNION {S[i] : i \in 0..n}] /\ f[0] = first
      BY <1>9 DEF RunIn
    <2>2. \A i \in 1..n : f[i] = next(f[i - 1], seq[i])
      <3>1. \A i \in 1..n : f[i - 1] \in S[i - 1] /\ f[i] = step[i][f[i - 1]]
        BY <1>9 DEF RunIn
      <3>2. \A i \in 1..n : seq[i] = index(i)
        BY <1>4
      <3> QED BY <1>8, <3>1, <3>2, Zenon
    <2> QED BY <1>4, <2>1, <2>2
  <1>11. after = Body(after)
    <2> HIDE DEF Body
    <2> QED BY <1>10, Zenon
  <1> HIDE DEF after
  <1>12. after[0] = first /\ \A i \in 1..n : after[i] = next(after[i - 1], index(i))
    BY <1>2, <1>4, <1>11
  <1>13. after[n] \in S[n]
    <2>1. after[0] \in S[0] /\ \A i \in 1..n : after[i - 1] \in S[i - 1] => after[i] \in S[i]
      BY <1>5, <1>6, <1>12
    <2> QED BY <1>2, <2>1, LeadsTo
  <1>14. after[n] \in Counted(m)
    BY <1>2, <1>13 DEF S
  <1>15. after[n].n \in {k \in 0..m : k % 2 = 0}
    BY <1>14, Zenon DEF Counted
  <1>16. lsbMode \in BOOLEAN
    BY SMT DEF lsbMode
  <1>17. PICK mode : mode = (lsbMode /\ after[Len(seq)].end + after[Len(seq)].lsb * 2048 > budget * 2048)
    OBVIOUS
  <1>18. mode \in BOOLEAN
    BY <1>16, <1>17, SMT
  <1>19. c = [nq |-> after[n].n, lsbMode |-> mode]
    BY <1>3, <1>4, <1>17, SMT
  <1> QED BY <1>1, <1>15, <1>18, <1>19

-----------------------------------------------------------------------------
(* One frame                                                               *)

\* What the decoder has of a frame: its fields, and the side data in range.
IsGot(g) ==
    g = [bw |-> g.bw, nq |-> g.nq, lsbMode |-> g.lsbMode, gain |-> g.gain, tns |-> g.tns,
         sns |-> g.sns, ltpf |-> g.ltpf, noise |-> g.noise, x |-> g.x, residual |-> g.residual]
InTables(g, sr) ==
    /\ g.bw \in 0..sr /\ g.nq \in 2..NE(sr) /\ g.nq % 2 = 0 /\ g.lsbMode \in BOOLEAN
    /\ g.tns \in Seq(Filters) /\ IsShape(g.sns)

\* Where a walk over the pairs below n can stand.
InPairs(n) == at \in 0..n /\ at % 2 = 0 /\ state \in 0..255

\* The inductive invariant: of the encoder, of the frame sent and of the decoder.
Encoding ==
    /\ stage \in {"encoding", "putPairs"} => writer \in Stream
    /\ stage = "putPairs" => InPairs(frame.nq)
    /\ stage = "sent" => writer.buffer \in Seq(Nat)
Decoding ==
    /\ stage \in {"decoding", "getPairs", "decoded"} => reader \in Stream
    /\ stage \in {"getPairs", "decoded"} => IsGot(got) /\ InTables(got, frame.format.sr)
    /\ stage = "getPairs" => /\ InPairs(got.nq) /\ got.x \in Coefficients(at)
                             /\ got.lsbMode => LeftOut(got.x)
    /\ stage = "decoded" => got.x \in Coefficients(got.nq)
FrameInv ==
    /\ IsFrame(frame) /\ frame.nq \in {k \in 0..Len(frame.x) : k % 2 = 0}
    /\ stage \in {"encoding", "decoding"} => at = 0 /\ state = 0
    /\ Encoding /\ Decoding

\* The fields of a frame that the writers take.
LEMMA FrameFields ==
    ASSUME NEW f, IsFrame(f)
    PROVE  /\ f.format.sr \in 0..4 /\ f.format.nbytes \in Nat /\ f.bw \in Nat /\ f.gain \in Nat
           /\ f.noise \in Nat /\ f.lsbMode \in BOOLEAN
           /\ f.x \in Seq(Quantized) /\ f.residual \in Seq({0, 1}) /\ f.tns \in Seq(Filters)
           /\ f.ltpf \in Seq([active : BOOLEAN, pitchIndex : Nat])
           /\ Len(f.x) % 2 = 0 /\ Len(f.residual) = Len(f.x) /\ IsSns(f.sns)
  BY SMT DEF IsFrame

\* The analysis keeps the frame and fills in how much of it is coded.
LEMMA Analyses ==
    ASSUME NEW f, IsFrame(f), NEW g, g = Analysed(f)
    PROVE  IsFrame(g) /\ g.nq \in {k \in 0..Len(g.x) : k % 2 = 0}
  <1>1. PICK c : c = ComputeNbits(f.format, f.x, Budget(f))
    OBVIOUS
  <1>2. c.nq \in {k \in 0..Len(f.x) : k % 2 = 0} /\ c.lsbMode \in BOOLEAN
    BY <1>1, FrameFields, Cut, Zenon
  <1>3. c.nq \in Nat
    BY <1>2, FrameFields
  <1>4. PICK nq, mode : nq = c.nq /\ mode = c.lsbMode
    OBVIOUS
  <1>5. f = [format |-> f.format, bw |-> f.bw, nq |-> f.nq, lsbMode |-> f.lsbMode, gain |-> f.gain,
             noise |-> f.noise, x |-> f.x, residual |-> f.residual, tns |-> f.tns, sns |-> f.sns,
             ltpf |-> f.ltpf]
    BY SMT DEF IsFrame
  <1>6. g = [f EXCEPT !.nq = nq, !.lsbMode = mode]
    BY <1>1, <1>4, Zenon DEF Analysed
  <1>7. g = [format |-> f.format, bw |-> f.bw, nq |-> nq, lsbMode |-> mode, gain |-> f.gain,
             noise |-> f.noise, x |-> f.x, residual |-> f.residual, tns |-> f.tns, sns |-> f.sns,
             ltpf |-> f.ltpf]
    BY <1>5, <1>6
  <1>8. nq \in Nat /\ mode \in BOOLEAN
    BY <1>2, <1>3, <1>4
  <1>9. g \in [format : [sr : 0..4, nbytes : Nat], bw : Nat, nq : Nat, lsbMode : BOOLEAN, gain : Nat,
              noise : Nat, x : Seq(Quantized), residual : Seq({0, 1}), tns : Seq(Filters),
              sns : [lfcb : Nat, hfcb : Nat, shape : 0..3, gain : Nat, c : Seq(Int)],
              ltpf : Seq([active : BOOLEAN, pitchIndex : Nat])]
    BY <1>7, <1>8, SMT DEF IsFrame
  <1>10. g.x = f.x /\ g.residual = f.residual /\ g.sns = f.sns /\ g.nq = c.nq
    BY <1>4, <1>7
  <1>11. IsFrame(g)
    BY <1>9, <1>10, Zenon DEF IsFrame
  <1> QED BY <1>2, <1>10, <1>11, Zenon

\* A frame that was analysed starts in the invariant.
LEMMA StartsFrame ==
    ASSUME FrameInit
    PROVE  FrameInv
  <1>1. PICK f \in Frames : frame = Analysed(f)
    BY DEF FrameInit
  <1>2. IsFrame(f)
    BY <1>1, FrameData
  <1>3. IsFrame(frame) /\ frame.nq \in {k \in 0..Len(frame.x) : k % 2 = 0}
    BY <1>1, <1>2, Analyses, Zenon
  <1>4. PICK n, buffer : n = frame.format.nbytes /\ buffer = [i \in 1..n |-> Unwritten]
    OBVIOUS
  <1>5. n \in Nat /\ Unwritten \in Nat
    <2>1. n \in Nat
      BY <1>3, <1>4, FrameFields, Zenon
    <2>2. Unwritten \in 0..255
      BY FrameData, Zenon
    <2> QED BY <2>1, <2>2
  <1>6. buffer \in Seq(Nat)
    BY <1>4, <1>5
  <1>7. writer \in Stream
    BY <1>4, <1>6, Writers, Zenon DEF FrameInit
  <1> QED BY <1>3, <1>7, Zenon DEF FrameInit, FrameInv, Encoding, Decoding

\* encode() up to the noise factor leaves a writer at the first pair.
LEMMA EncodesSide ==
    ASSUME FrameInv, EncodeSide
    PROVE  FrameInv'
  <1>1. IsFrame(frame) /\ writer \in Stream /\ at = 0 /\ state = 0
        /\ frame.nq \in {k \in 0..Len(frame.x) : k % 2 = 0}
    BY DEF FrameInv, Encoding, EncodeSide
  <1>2. PICK sr : sr = frame.format.sr
    OBVIOUS
  <1>3. sr \in 0..4
    BY <1>1, <1>2, FrameFields
  <1>4. PICK bw : bw = PutSome(writer, frame.bw, BwNbits(sr))
    OBVIOUS
  <1>5. bw \in Stream
    <2>1. BwNbits(sr) \in 0..32
      BY <1>3, SMT DEF BwNbits, Flag
    <2>2. frame.bw \in Nat
      BY <1>1, FrameFields, Zenon
    <2>3. frame.bw \in Int
      BY <2>2
    <2> QED BY <1>1, <1>4, <2>1, <2>3, PutsSome, Zenon
  <1>6. PICK side : side = PutSide(bw, sr, frame)
    OBVIOUS
  <1>7. side \in Stream
    <2>1. frame.gain \in Nat /\ frame.x \in Seq(Quantized)
      BY <1>1, FrameFields, Zenon
    <2>2. frame.nq \in Nat
      BY <1>1, <2>1
    <2> QED BY <1>3, <1>5, <1>6, <2>1, <2>2, PutsSide, Zenon
  <1>8. PICK tns : tns = TnsPut(side, frame.format.nbytes, frame.tns)
    OBVIOUS
  <1>9. tns \in Stream
    <2>1. frame.tns \in Seq(Filters)
      BY <1>1, FrameFields
    <2> QED BY <1>7, <1>8, <2>1, PutsTns, Zenon
  <1>10. PICK pitch : pitch = PutBits(tns, Flag(frame.ltpf # <<>>), 1)
    OBVIOUS
  <1>11. pitch \in Stream
    <2>1. PICK p : p = Flag(frame.ltpf # <<>>)
      OBVIOUS
    <2>2. p \in Int
      BY <2>1, Flags, Zenon
    <2>3. 1 \in 0..32
      OBVIOUS
    <2> QED BY <1>9, <1>10, <2>1, <2>2, <2>3, PutsBits, Zenon
  <1>12. PICK sns : sns = SnsPut(pitch, frame.sns)
    OBVIOUS
  <1>13. sns \in Stream
    <2>1. IsSns(frame.sns)
      BY <1>1, FrameFields
    <2> QED BY <1>11, <1>12, <2>1, PutsSns, Zenon
  <1>14. PICK ltpf : ltpf = IF frame.ltpf # <<>> THEN LtpfPut(sns, frame.ltpf[1]) ELSE sns
    OBVIOUS
  <1>15. ltpf \in Stream
    <2>1. CASE frame.ltpf = <<>>
      BY <1>13, <1>14, <2>1
    <2>2. CASE frame.ltpf # <<>>
      <3>1. PICK all, pitched, S : /\ all = frame.ltpf /\ pitched = frame.ltpf[1]
                                   /\ S = [active : BOOLEAN, pitchIndex : Nat]
        OBVIOUS
      <3>2. all \in Seq(S) /\ all # <<>>
        BY <1>1, <2>2, <3>1, FrameFields, Zenon
      <3>3. pitched \in S
        <4>1. PICK n : n = Len(all)
          OBVIOUS
        <4>2. n \in Nat /\ n # 0
          BY <3>2, <4>1
        <4>3. \A i \in 1..n : all[i] \in S
          BY <3>2, <4>1
        <4>4. 1 \in 1..n
          BY <4>2
        <4> QED BY <3>1, <4>3, <4>4, Zenon
      <3>4. pitched.pitchIndex \in Nat
        BY <3>1, <3>3
      <3> QED BY <1>13, <1>14, <2>2, <3>1, <3>4, PutsLtpf, Zenon
    <2> QED BY <2>1, <2>2
  <1>16. writer' = PutBits(ltpf, frame.noise, 3)
    BY <1>2, <1>4, <1>6, <1>8, <1>10, <1>12, <1>14, SMT DEF EncodeSide
  <1>17. writer' \in Stream
    <2>1. frame.noise \in Nat
      BY <1>1, FrameFields, Zenon
    <2>2. frame.noise \in Int /\ 3 \in 0..32
      BY <2>1
    <2> QED BY <1>15, <1>16, <2>2, PutsBits, Zenon
  <1>18. stage' = "putPairs" /\ frame' = frame /\ at' = 0 /\ state' = 0
    BY <1>1, SMT DEF EncodeSide
  <1>19. InPairs(frame.nq)'
    BY <1>1, <1>18, FrameFields, SMT DEF InPairs
  <1> QED BY <1>1, <1>17, <1>18, <1>19, SMT DEF FrameInv, Encoding, Decoding

\* A pair put leaves a writer at the next one, its context a byte.
LEMMA EncodesPair ==
    ASSUME FrameInv, EncodePair
    PROVE  FrameInv'
  <1>1. /\ IsFrame(frame) /\ writer \in Stream /\ InPairs(frame.nq)
        /\ frame.nq \in {k \in 0..Len(frame.x) : k % 2 = 0} /\ at < frame.nq
        /\ stage' = stage /\ stage = "putPairs" /\ frame' = frame /\ at' = at + 2
    BY SMT DEF FrameInv, Encoding, EncodePair
  <1>2. PICK x, y, lut, planes :
            /\ x = frame.x[at + 1] /\ y = frame.x[at + 2] /\ lut = LutOf(frame.format, at, state)
            /\ planes = PlanesOf(Abs(x), Abs(y))
    OBVIOUS
  <1>3. x \in Quantized /\ y \in Quantized
    <2>1. PICK all, n, m : all = frame.x /\ n = Len(all) /\ m = frame.nq
      OBVIOUS
    <2>2. all \in Seq(Quantized)
      BY <1>1, <2>1, FrameFields, Zenon
    <2>3. m \in {k \in 0..n : k % 2 = 0} /\ at \in 0..m /\ at % 2 = 0 /\ at < m
      BY <1>1, <2>1, Zenon DEF InPairs
    <2>4. n \in Nat
      BY <2>1, <2>2
    <2>5. at + 1 \in 1..n /\ at + 2 \in 1..n
      BY <2>3, <2>4
    <2> QED BY <1>2, <2>1, <2>2, <2>5
  <1>4. state \in 0..255
    BY <1>1 DEF InPairs
  <1>5. lut \in Luts
    BY <1>2, <1>4, LutsOf, Zenon
  <1>6. writer' = PutPair(writer, lut, x, y, frame.lsbMode)
        /\ state' = NextState(state, planes, Abs(x) \div 2^planes, Abs(y) \div 2^planes)
    BY <1>2, SMT DEF EncodePair
  <1>7. writer' \in Stream
    BY <1>1, <1>3, <1>5, <1>6, PutsPair, Zenon
  <1>8. state' \in 0..255
    <2>1. PICK a, c, u, v : /\ a = Abs(x) /\ c = Abs(y) /\ u = a \div 2^planes
                            /\ v = c \div 2^planes
      OBVIOUS
    <2>2. a \in 0..2^15 - 1 /\ c \in 0..2^15 - 1
      BY <1>3, <2>1, Sizes, Zenon
    <2>3. planes \in 0..13 /\ u \in 0..3 /\ v \in 0..3
      BY <1>2, <2>1, <2>2, PlanesFit, Zenon
    <2>4. planes \in Nat
      BY <2>3
    <2> QED BY <1>4, <1>6, <2>1, <2>3, <2>4, NextStates, Zenon
  <1>9. InPairs(frame.nq)'
    <2>1. PICK m : m = frame.nq
      OBVIOUS
    <2>2. m \in Nat /\ m % 2 = 0 /\ at \in 0..m /\ at % 2 = 0 /\ at < m
      BY <1>1, <2>1, FrameFields, SMT DEF InPairs
    <2>3. at + 2 \in 0..m /\ (at + 2) % 2 = 0
      BY <2>2
    <2> QED BY <1>1, <1>8, <2>1, <2>3, Zenon DEF InPairs
  <1> QED BY <1>1, <1>7, <1>9, SMT DEF FrameInv, Encoding, Decoding

\* What fills the frame and the flush leave bytes.
LEMMA EncodesRest ==
    ASSUME FrameInv, EncodeRest
    PROVE  FrameInv'
  <1>1. /\ IsFrame(frame) /\ writer \in Stream
        /\ frame.nq \in {k \in 0..Len(frame.x) : k % 2 = 0}
        /\ stage' = "sent" /\ frame' = frame
    BY SMT DEF FrameInv, Encoding, EncodeRest
  <1>2. PICK x, n, lsb, residual :
            /\ x = SubSeq(frame.x, 1, frame.nq) /\ n = BitsLeft(writer)
            /\ lsb = PutLsb(writer, n, x) /\ residual = PutResidual(writer, n, x, frame.residual)
    OBVIOUS
  <1>3. n \in Int
    BY <1>1, <1>2, LeftBits, Zenon
  <1>4. x \in Seq(Int) /\ Len(x) <= Len(frame.residual)
    <2>1. PICK all, m, top : all = frame.x /\ m = frame.nq /\ top = Len(frame.x)
      OBVIOUS
    <2>2. all \in Seq(Quantized) /\ Len(frame.residual) = top
      BY <1>1, <2>1, FrameFields, Zenon
    <2>3. m \in 0..top /\ top = Len(all) /\ top \in Nat
      BY <1>1, <2>1, <2>2
    <2>4. Quantized \subseteq Int
      BY SMT DEF Quantized
    <2>5. all \in Seq(Int)
      <3>1. \A i \in 1..top : all[i] \in Quantized
        BY <2>2, <2>3
      <3>2. all = [i \in 1..top |-> all[i]]
        BY <2>2, <2>3
      <3> QED BY <2>3, <2>4, <3>1, <3>2, Tabulated, Zenon
    <2>6. x = SubSeq(all, 1, m)
      BY <1>2, <2>1
    <2>7. x \in Seq(Int) /\ Len(x) = m
      BY <2>3, <2>5, <2>6
    <2> QED BY <2>2, <2>3, <2>7
  <1>5. frame.residual \in Seq(Int)
    <2>1. PICK r : r = frame.residual
      OBVIOUS
    <2>2. r \in Seq({0, 1})
      BY <1>1, <2>1, FrameFields, Zenon
    <2>3. r \in Seq(Int)
      BY <2>2
    <2> QED BY <2>1, <2>3
  <1>6. lsb \in Stream
    BY <1>1, <1>2, <1>3, <1>4, PutsLsb, Zenon
  <1>7. residual \in Stream
    BY <1>1, <1>2, <1>3, <1>4, <1>5, PutsResidual, Zenon
  <1>8. writer' = FlushBits(IF frame.lsbMode THEN lsb ELSE residual)
    BY <1>2, SMT DEF EncodeRest
  <1>9. writer'.buffer \in Seq(Nat)
    BY <1>6, <1>7, <1>8, Flushes, Zenon
  <1> QED BY <1>1, <1>9, SMT DEF FrameInv, Encoding, Decoding

\* What arrives, damaged or not, is a stream of bytes to read.
LEMMA Arrives ==
    ASSUME FrameInv, Arrive
    PROVE  FrameInv'
  <1>1. /\ IsFrame(frame) /\ writer.buffer \in Seq(Nat)
        /\ frame.nq \in {k \in 0..Len(frame.x) : k % 2 = 0}
        /\ stage' = "decoding" /\ frame' = frame /\ at' = 0 /\ state' = 0
    BY SMT DEF FrameInv, Encoding, Arrive
  <1>2. reader' \in Stream
    <2>1. CASE reader' = ReaderOf(writer.buffer)
      BY <1>1, <2>1, Writers, Zenon
    <2>2. ASSUME NEW d \in Damages, d.at \in DOMAIN writer.buffer,
                 reader' = ReaderOf([writer.buffer EXCEPT ![d.at] = d.byte])
          PROVE  reader' \in Stream
      <3>1. PICK sent, changed : sent = writer.buffer /\ changed = [sent EXCEPT ![d.at] = d.byte]
        OBVIOUS
      <3>2. PICK i, v : i = d.at /\ v = d.byte
        OBVIOUS
      <3>3. v \in 0..255 /\ i \in DOMAIN sent
        BY <2>2, <3>1, <3>2, FrameData, Zenon
      <3>4. sent \in Seq(Nat) /\ changed = [sent EXCEPT ![i] = v]
        BY <1>1, <3>1, <3>2
      <3>5. changed \in Seq(Nat)
        <4>1. PICK n : n = Len(sent)
          OBVIOUS
        <4>2. n \in Nat /\ DOMAIN sent = 1..n /\ \A j \in 1..n : sent[j] \in Nat
          BY <3>4, <4>1
        <4>3. changed = [j \in 1..n |-> changed[j]]
          BY <3>4, <4>2
        <4>4. v \in Nat
          BY <3>3
        <4>5. \A j \in 1..n : changed[j] = IF j = i THEN v ELSE sent[j]
          BY <3>4, <4>2, Zenon
        <4>6. \A j \in 1..n : changed[j] \in Nat
          BY <4>2, <4>4, <4>5, Zenon
        <4> QED BY <4>2, <4>3, <4>6, Tabulated, Zenon
      <3> QED BY <2>2, <3>1, <3>5, Writers, Zenon
    <2> QED BY <2>1, <2>2, Zenon DEF Arrive
  <1> QED BY <1>1, <1>2, SMT DEF FrameInv, Encoding, Decoding

\* decode() up to the noise factor: what it does not refuse is in the tables.
LEMMA DecodesSide ==
    ASSUME FrameInv, DecodeSide
    PROVE  FrameInv'
  <1>0. stage = "decoding" /\ frame' = frame /\ at' = at /\ state' = state
    BY Zenon DEF DecodeSide
  <1>1. IsFrame(frame) /\ reader \in Stream /\ at = 0 /\ state = 0
        /\ frame.nq \in {k \in 0..Len(frame.x) : k % 2 = 0}
        /\ frame' = frame /\ at' = 0 /\ state' = 0
    BY <1>0, SMT DEF FrameInv, Decoding
  <1>2. PICK sr, bw, side, tns, pitch, sns : 
            /\ sr = frame.format.sr /\ bw = BwGet(reader, sr) /\ side = GetSide(bw.bits, sr)
            /\ tns = TnsGet(side.bits, frame.format.nbytes, bw.value)
            /\ pitch = GetBits(tns.bits, 1) /\ sns = SnsGet(pitch.bits)
    OBVIOUS
  <1>3. PICK ltpf : ltpf = IF pitch.value = 1 THEN LtpfGet(sns.bits) ELSE Read(sns.bits, <<>>)
    OBVIOUS
  <1>4. PICK noise : noise = GetBits(ltpf.bits, 3)
    OBVIOUS
  <1>5. sr \in 0..4
    BY <1>1, <1>2, FrameFields, Zenon
  <1>6. bw.bits \in Stream /\ bw.value \in 0..sr
    BY <1>1, <1>2, <1>5, GetsBw, Zenon
  <1>7. /\ side.bits \in Stream /\ side.value.nq \in 2..NE(sr) /\ side.value.nq % 2 = 0
        /\ side.value.lsbMode \in BOOLEAN
    BY <1>2, <1>5, <1>6, GetsSide, Zenon
  <1>8. tns.bits \in Stream /\ tns.value \in Seq(Filters)
    BY <1>2, <1>7, GetsTns, Zenon
  <1>9. 1 \in 1..32 /\ 3 \in 1..32
    OBVIOUS
  <1>10. pitch.bits \in Stream
    BY <1>2, <1>8, <1>9, GetsBits, Zenon
  <1>11. sns.bits \in Stream /\ (sns.valid => IsShape(sns.value))
    BY <1>2, <1>10, GetsSns, Zenon
  <1>12. ltpf.bits \in Stream
    <2>1. CASE pitch.value = 1
      BY <1>3, <1>11, <2>1, GetsLtpf, Zenon
    <2>2. CASE pitch.value # 1
      BY <1>3, <1>11, <2>2 DEF Read
    <2> QED BY <2>1, <2>2, Zenon
  <1>13. noise.bits \in Stream
    BY <1>4, <1>9, <1>12, GetsBits, Zenon
  <1>14. PICK g : g = [bw |-> bw.value, nq |-> side.value.nq, lsbMode |-> side.value.lsbMode,
                       gain |-> side.value.gain, tns |-> tns.value, sns |-> sns.value,
                       ltpf |-> ltpf.value, noise |-> noise.value, x |-> <<>>, residual |-> <<>>]
    OBVIOUS
  <1>15. IF bw.valid /\ side.valid /\ sns.valid
         THEN got' = g /\ reader' = noise.bits /\ stage' = "getPairs"
         ELSE stage' = "concealed"
    BY <1>2, <1>3, <1>4, <1>14, Zenon DEF DecodeSide, Accept
  <1>16. CASE bw.valid /\ side.valid /\ sns.valid
    <2>1. got' = g /\ reader' \in Stream /\ stage' = "getPairs" /\ IsShape(sns.value)
      BY <1>11, <1>13, <1>15, <1>16
    <2>2. IsGot(g)
      BY <1>14, SMT DEF IsGot
    <2>3. g.bw = bw.value /\ g.nq = side.value.nq /\ g.lsbMode = side.value.lsbMode
          /\ g.tns = tns.value /\ g.sns = sns.value /\ g.x = <<>>
      BY <1>14
    <2>4. InTables(g, sr)
      BY <1>6, <1>7, <1>8, <2>1, <2>3, Zenon DEF InTables
    <2>5. g.x \in Coefficients(0) /\ LeftOut(g.x)
      BY <2>3, SMT DEF Coefficients, LeftOut
    <2>6. 0 \in 0..g.nq /\ 0 % 2 = 0 /\ 0 \in 0..255
      <3>1. PICK n, top : n = g.nq /\ top = NE(sr)
        OBVIOUS
      <3>2. n \in 2..top
        BY <1>7, <2>3, <3>1
      <3> QED BY <3>1, <3>2
    <2>7. InPairs(got.nq)'
      BY <1>1, <2>1, <2>6, Zenon DEF InPairs
    <2>8. IsGot(got)' /\ InTables(got, frame.format.sr)'
      BY <1>1, <1>2, <2>1, <2>2, <2>4
    <2>9. got'.x \in Coefficients(at') /\ LeftOut(got'.x)
      BY <1>1, <2>1, <2>5
    <2> QED BY <1>1, <2>1, <2>7, <2>8, <2>9, SMT DEF FrameInv, Encoding, Decoding
  <1>17. CASE ~(bw.valid /\ side.valid /\ sns.valid)
    BY <1>1, <1>15, <1>17, SMT DEF FrameInv, Encoding, Decoding
  <1> QED BY <1>16, <1>17

\* A pair more keeps the coefficients in range, and in lsb mode ready for the plane left out.
LEMMA AppendsPair ==
    ASSUME NEW n \in Nat, n % 2 = 0, NEW x \in Coefficients(n), NEW u, NEW v,
           Coefficient(u), Coefficient(v), NEW z, z = x \o <<u, v>>
    PROVE  /\ z \in Coefficients(n + 2)
           /\ LeftOut(x) /\ (Small(u, v) \/ (Even(u) /\ Even(v))) => LeftOut(z)
  <1>1. x \in Seq(Int) /\ Len(x) = n /\ (\A i \in 1..n : Coefficient(x[i])) /\ u \in Int /\ v \in Int
    BY DEF Coefficients, Coefficient
  <1>2. PICK pair : pair = <<u, v>>
    OBVIOUS
  <1>3. pair \in Seq(Int) /\ Len(pair) = 2 /\ pair[1] = u /\ pair[2] = v
    BY <1>1, <1>2
  <1>4. z = x \o pair
    BY <1>2
  <1>5. z \in Seq(Int) /\ Len(z) = n + 2
        /\ (\A i \in 1..n : z[i] = x[i]) /\ z[n + 1] = u /\ z[n + 2] = v
    <2>1. x \in Seq(Int) /\ Len(x) = n
      BY <1>1
    <2> QED BY <1>3, <1>4, <2>1
  <1>6. z \in Coefficients(n + 2)
    <2>1. \A i \in 1..n + 2 : i \in 1..n \/ i = n + 1 \/ i = n + 2
      OBVIOUS
    <2>2. \A i \in 1..n + 2 : Coefficient(z[i])
      BY <1>1, <1>5, <2>1, Zenon
    <2> QED BY <1>5, <2>2, Zenon DEF Coefficients
  <1>7. ASSUME LeftOut(x), Small(u, v) \/ (Even(u) /\ Even(v)) PROVE LeftOut(z)
    <2> SUFFICES ASSUME NEW p \in 1..Len(z) \div 2
                 PROVE  Small(z[2 * p - 1], z[2 * p]) \/ (Even(z[2 * p - 1]) /\ Even(z[2 * p]))
      BY DEF LeftOut
    <2>1. PICK k : k = n \div 2
      OBVIOUS
    <2>2. k \in Nat /\ n = 2 * k /\ p \in 1..k + 1 /\ p \in Int
      BY <1>5, <2>1
    <2>3. CASE p \in 1..k
      <3>1. p \in 1..Len(x) \div 2 /\ 2 * p - 1 \in 1..n /\ 2 * p \in 1..n
        BY <1>1, <2>1, <2>2, <2>3
      <3>2. Small(x[2 * p - 1], x[2 * p]) \/ (Even(x[2 * p - 1]) /\ Even(x[2 * p]))
        BY <1>7, <3>1, Zenon DEF LeftOut
      <3> QED BY <1>5, <3>1, <3>2, Zenon
    <2>4. CASE p = k + 1
      <3>1. 2 * p - 1 = n + 1 /\ 2 * p = n + 2
        BY <2>2, <2>4
      <3> QED BY <1>5, <1>7, <3>1, Zenon
    <2> QED BY <2>2, <2>3, <2>4
  <1> QED BY <1>6, <1>7, Zenon

\* The coefficients and the residual bits are put into what was read before.
LEMMA PutsCoefficients ==
    ASSUME NEW g, IsGot(g), NEW sr, InTables(g, sr), NEW s, NEW h, h = [g EXCEPT !.x = s]
    PROVE  /\ IsGot(h) /\ InTables(h, sr) /\ h.nq = g.nq /\ h.lsbMode = g.lsbMode
           /\ h.x = s
  <1>1. h = [bw |-> g.bw, nq |-> g.nq, lsbMode |-> g.lsbMode, gain |-> g.gain, tns |-> g.tns,
             sns |-> g.sns, ltpf |-> g.ltpf, noise |-> g.noise, x |-> s, residual |-> g.residual]
    BY SMT DEF IsGot
  <1>2. IsGot(h) /\ h.bw = g.bw /\ h.nq = g.nq /\ h.lsbMode = g.lsbMode /\ h.tns = g.tns
        /\ h.sns = g.sns /\ h.x = s
    BY <1>1, SMT DEF IsGot
  <1> QED BY <1>2, Zenon DEF InTables

LEMMA PutsRounding ==
    ASSUME NEW g, IsGot(g), NEW sr, InTables(g, sr), NEW s, NEW h, h = [g EXCEPT !.residual = s]
    PROVE  /\ IsGot(h) /\ InTables(h, sr) /\ h.nq = g.nq /\ h.lsbMode = g.lsbMode
           /\ h.x = g.x
  <1>1. h = [bw |-> g.bw, nq |-> g.nq, lsbMode |-> g.lsbMode, gain |-> g.gain, tns |-> g.tns,
             sns |-> g.sns, ltpf |-> g.ltpf, noise |-> g.noise, x |-> g.x, residual |-> s]
    BY SMT DEF IsGot
  <1>2. IsGot(h) /\ h.bw = g.bw /\ h.nq = g.nq /\ h.lsbMode = g.lsbMode /\ h.tns = g.tns
        /\ h.sns = g.sns /\ h.x = g.x
    BY <1>1, SMT DEF IsGot
  <1> QED BY <1>2, Zenon DEF InTables

\* A pair read is in range, or ends the frame as invalid data.
LEMMA DecodesPair ==
    ASSUME FrameInv, DecodePair
    PROVE  FrameInv'
  <1>1. /\ IsFrame(frame) /\ reader \in Stream /\ IsGot(got) /\ InTables(got, frame.format.sr)
        /\ InPairs(got.nq) /\ got.x \in Coefficients(at) /\ (got.lsbMode => LeftOut(got.x))
        /\ frame.nq \in {k \in 0..Len(frame.x) : k % 2 = 0}
        /\ frame' = frame /\ at < got.nq /\ stage = "getPairs"
    BY SMT DEF FrameInv, Decoding, DecodePair
  <1>2. PICK lut, pair : /\ lut = LutOf(frame.format, at, state)
                         /\ pair = GetPair(reader, lut, state, got.lsbMode)
    OBVIOUS
  <1>3. PICK s : s = got.x \o <<pair.x, pair.y>>
    OBVIOUS
  <1>4. IF pair.valid
        THEN /\ reader' = pair.bits /\ got' = [got EXCEPT !.x = s] /\ state' = pair.state
             /\ at' = at + 2 /\ stage' = "getPairs"
        ELSE stage' = "concealed"
    BY <1>1, <1>2, <1>3, SMT DEF DecodePair, AcceptPair
  <1>5. CASE ~pair.valid
    BY <1>1, <1>4, <1>5, SMT DEF FrameInv, Encoding, Decoding
  <1>6. CASE pair.valid
    <2>1. state \in 0..255 /\ got.lsbMode \in BOOLEAN
      BY <1>1, Zenon DEF InPairs, InTables
    <2>2. lut \in Luts
      BY <1>2, <2>1, LutsOf, Zenon
    <2>3. PICK mode : mode = got.lsbMode
      OBVIOUS
    <2>4. /\ pair.bits \in Stream /\ pair.state \in 0..255 /\ Coefficient(pair.x) /\ Coefficient(pair.y)
          /\ mode => Small(pair.x, pair.y) \/ (Even(pair.x) /\ Even(pair.y))
      <3>1. pair = GetPair(reader, lut, state, mode)
        BY <1>2, <2>3
      <3>2. mode \in BOOLEAN
        BY <2>3, <2>1
      <3>3. reader \in Stream
        BY <1>1
      <3>4. state \in 0..255
        BY <2>1
      <3>5. pair.bits \in Stream
        BY <1>6, <2>2, <3>1, <3>2, <3>3, <3>4, GetsPair, Zenon
      <3>6. pair.state \in 0..255
        BY <1>6, <2>2, <3>1, <3>2, <3>3, <3>4, GetsPair, Zenon
      <3>7. Coefficient(pair.x)
        BY <1>6, <2>2, <3>1, <3>2, <3>3, <3>4, GetsPair, Zenon
      <3>8. Coefficient(pair.y)
        BY <1>6, <2>2, <3>1, <3>2, <3>3, <3>4, GetsPair, Zenon
      <3>9. mode => Small(pair.x, pair.y) \/ (Even(pair.x) /\ Even(pair.y))
        BY <1>6, <2>2, <3>1, <3>2, <3>3, <3>4, GetsPair, Zenon
      <3> QED BY <3>5, <3>6, <3>7, <3>8, <3>9
    <2>5. PICK n : n = got.nq
      OBVIOUS
    <2>6. at \in Nat /\ at % 2 = 0 /\ at + 2 \in 0..n /\ (at + 2) % 2 = 0
      <3>1. PICK top : top = NE(frame.format.sr)
        OBVIOUS
      <3>2. n \in 2..top /\ n % 2 = 0 /\ at \in 0..n /\ at % 2 = 0 /\ at < n
        BY <1>1, <2>5, <3>1, Zenon DEF InPairs, InTables
      <3> QED BY <3>2
    <2>7. s \in Coefficients(at + 2) /\ (got.lsbMode => LeftOut(s))
      BY <1>1, <1>3, <2>3, <2>4, <2>6, AppendsPair, Zenon
    <2>8. PICK h : h = [got EXCEPT !.x = s]
      OBVIOUS
    <2>9. /\ IsGot(h) /\ InTables(h, frame.format.sr) /\ h.nq = got.nq /\ h.lsbMode = got.lsbMode
          /\ h.x = s
      <3>1. PICK sr : sr = frame.format.sr
        OBVIOUS
      <3>2. InTables(got, sr) /\ IsGot(got)
        BY <1>1, <3>1
      <3>3. IsGot(h) /\ InTables(h, sr) /\ h.nq = got.nq /\ h.lsbMode = got.lsbMode /\ h.x = s
        BY <2>8, <3>2, PutsCoefficients, SMT
      <3> QED BY <3>1, <3>3, Zenon
    <2>10. reader' \in Stream /\ got' = h /\ state' \in 0..255 /\ at' = at + 2 /\ stage' = "getPairs"
      BY <1>4, <1>6, <2>4, <2>8
    <2>11. InPairs(got.nq)'
      BY <2>5, <2>6, <2>9, <2>10, Zenon DEF InPairs
    <2> QED BY <1>1, <2>7, <2>9, <2>10, <2>11, SMT DEF FrameInv, Encoding, Decoding
  <1> QED BY <1>5, <1>6

\* What fills the frame leaves the coefficients in range.
LEMMA DecodesRest ==
    ASSUME FrameInv, DecodeRest
    PROVE  FrameInv'
  <1>1. /\ IsFrame(frame) /\ reader \in Stream /\ IsGot(got) /\ InTables(got, frame.format.sr)
        /\ InPairs(got.nq) /\ got.x \in Coefficients(at) /\ (got.lsbMode => LeftOut(got.x))
        /\ frame.nq \in {k \in 0..Len(frame.x) : k % 2 = 0}
        /\ frame' = frame /\ at = got.nq /\ stage' \in {"decoded", "concealed"}
    BY SMT DEF FrameInv, Decoding, DecodeRest
  <1>2. PICK nbits, lsb, residual :
            /\ nbits = BitsLeft(reader) /\ lsb = GetLsb(reader, nbits, got.x)
            /\ residual = GetResidual(reader, nbits, got.x)
    OBVIOUS
  <1>3. nbits \in Int /\ at \in Nat
    <2>1. nbits \in Int
      BY <1>1, <1>2, LeftBits, Zenon
    <2>2. PICK n, top : n = got.nq /\ top = NE(frame.format.sr)
      OBVIOUS
    <2>3. n \in 2..top /\ at = n
      BY <1>1, <2>2, Zenon DEF InTables
    <2> QED BY <2>1, <2>3
  <1>4. IF got.lsbMode THEN reader' = lsb.bits /\ got' = [got EXCEPT !.x = lsb.x]
        ELSE reader' = residual.bits /\ got' = [got EXCEPT !.residual = residual.value]
    BY <1>2, SMT DEF DecodeRest
  <1>5. /\ reader' \in Stream /\ IsGot(got)' /\ InTables(got', frame.format.sr)
        /\ got'.nq = got.nq /\ got'.x \in Coefficients(at)
    <2>1. CASE got.lsbMode
      <3>1. lsb.bits \in Stream /\ lsb.x \in Coefficients(at)
        BY <1>1, <1>2, <1>3, <2>1, GetsLsb, Zenon
      <3>2. PICK v : v = lsb.x
        OBVIOUS
      <3>3. PICK h : h = [got EXCEPT !.x = v]
        OBVIOUS
      <3>4. IsGot(h) /\ InTables(h, frame.format.sr) /\ h.nq = got.nq /\ h.x = v
        <4>1. PICK sr : sr = frame.format.sr
          OBVIOUS
        <4>2. InTables(got, sr) /\ IsGot(got)
          BY <1>1, <4>1
        <4>3. IsGot(h) /\ InTables(h, sr) /\ h.nq = got.nq /\ h.x = v
          BY <3>3, <4>2, PutsCoefficients, SMT
        <4> QED BY <4>1, <4>3, Zenon
      <3>5. got' = h /\ reader' = lsb.bits
        BY <1>4, <2>1, <3>2, <3>3
      <3> QED BY <3>1, <3>2, <3>4, <3>5, Zenon DEF IsGot
    <2>2. CASE ~got.lsbMode
      <3>1. got.x \in Seq(Int)
        BY <1>1, Zenon DEF Coefficients
      <3>2. residual.bits \in Stream
        BY <1>1, <1>2, <1>3, <3>1, GetsResidual, Zenon
      <3>3. PICK v : v = residual.value
        OBVIOUS
      <3>4. PICK h : h = [got EXCEPT !.residual = v]
        OBVIOUS
      <3>5. IsGot(h) /\ InTables(h, frame.format.sr) /\ h.nq = got.nq /\ h.x = got.x
        <4>1. PICK sr : sr = frame.format.sr
          OBVIOUS
        <4>2. InTables(got, sr) /\ IsGot(got)
          BY <1>1, <4>1
        <4>3. IsGot(h) /\ InTables(h, sr) /\ h.nq = got.nq /\ h.x = got.x
          BY <3>4, <4>2, PutsRounding, ZenonT(40)
        <4> QED BY <4>1, <4>3, Zenon
      <3>6. got' = h /\ reader' = residual.bits
        BY <1>4, <2>2, <3>3, <3>4
      <3> QED BY <1>1, <3>2, <3>5, <3>6, Zenon DEF IsGot
    <2> QED BY <2>1, <2>2
  <1>6. got'.x \in Coefficients(got'.nq)
    BY <1>1, <1>5
  <1> QED BY <1>1, <1>5, <1>6, SMT DEF FrameInv, Encoding, Decoding

\* Every step of the codec keeps the invariant.
LEMMA StepsFrame == FrameInv /\ [FrameNext]_frameVars => FrameInv'
  <1> SUFFICES ASSUME FrameInv, [FrameNext]_frameVars PROVE FrameInv'
    OBVIOUS
  <1>1. CASE EncodeSide
    BY <1>1, EncodesSide
  <1>2. CASE EncodePair
    BY <1>2, EncodesPair
  <1>3. CASE EncodeRest
    BY <1>3, EncodesRest
  <1>4. CASE Arrive
    BY <1>4, Arrives
  <1>5. CASE DecodeSide
    BY <1>5, DecodesSide
  <1>6. CASE DecodePair
    BY <1>6, DecodesPair
  <1>7. CASE DecodeRest
    BY <1>7, DecodesRest
  <1>8. CASE UNCHANGED frameVars
    BY <1>8, SMT DEF frameVars, FrameInv, Encoding, Decoding, InPairs
  <1> QED BY <1>1, <1>2, <1>3, <1>4, <1>5, <1>6, <1>7, <1>8, Zenon DEF FrameNext

\* The invariant says of what is decoded that it is usable.
LEMMA UsableFrame == FrameInv => DecodedIsUsable
  <1> SUFFICES ASSUME FrameInv, stage \in {"getPairs", "decoded"} PROVE DecodedIsUsable
    BY DEF DecodedIsUsable
  <1>1. /\ IsFrame(frame) /\ reader \in Stream /\ InTables(got, frame.format.sr)
        /\ \E n : got.x \in Coefficients(n)
    BY DEF FrameInv, Decoding
  <1>2. PICK sr, bw : sr = frame.format.sr /\ bw = got.bw
    OBVIOUS
  <1>3. got.bw <= frame.format.sr
    <2>1. bw \in 0..sr
      BY <1>1, <1>2, Zenon DEF InTables
    <2> QED BY <1>2, <2>1
  <1>4. \A i \in DOMAIN got.x : Abs(got.x[i]) < 2^16
    <2>1. PICK n, x : x = got.x /\ x \in Coefficients(n)
      BY <1>1
    <2>2. DOMAIN x = 1..n /\ \A i \in 1..n : Coefficient(x[i])
      BY <2>1 DEF Coefficients
    <2> QED BY <2>1, <2>2, Zenon DEF Coefficient
  <1>5. \A i \in DOMAIN got.tns : got.tns[i] \in Filters
    <2>1. PICK tns : tns = got.tns
      OBVIOUS
    <2>2. tns \in Seq(Filters)
      BY <1>1, <2>1, Zenon DEF InTables
    <2>3. \A i \in DOMAIN tns : tns[i] \in Filters
      BY <2>2
    <2> QED BY <2>1, <2>3, Zenon
  <1>6. reader.fw \in 0..Len(reader.buffer) /\ reader.bw \in 0..Len(reader.buffer)
    <2>1. PICK fw, bk, n : fw = reader.fw /\ bk = reader.bw /\ n = Len(reader.buffer)
      OBVIOUS
    <2>2. fw \in Nat /\ bk \in Nat /\ fw <= n /\ bk <= n /\ n \in Nat
      BY <1>1, <2>1, SMT DEF Stream, LcBits
    <2>3. fw \in 0..n /\ bk \in 0..n
      BY <2>2
    <2> QED BY <2>1, <2>3, Zenon
  <1> QED BY <1>1, <1>3, <1>4, <1>5, <1>6, Zenon DEF DecodedIsUsable, InTables, IsShape

\* lc3.c encode() and decode(): writer and reader stay within the buffer and what
\* is being decoded stays within the tables, at every step of a frame.
THEOREM FrameInvariant == FrameSpec => []FrameInv
  <1>1. FrameInit => FrameInv
    BY StartsFrame
  <1> QED BY <1>1, StepsFrame, PTL DEF FrameSpec

\* lc3.c decode() on whatever arrives, damaged or not: what it hands on to the
\* synthesis is within the tables and arrays indexed by it.
THEOREM WhatIsDecodedIsUsable == FrameSpec => []DecodedIsUsable
  BY FrameInvariant, UsableFrame, PTL
=============================================================================
