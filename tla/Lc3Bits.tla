------------------------------ MODULE Lc3Bits ------------------------------
(***************************************************************************)
(* liblc3 bits.c, bits.h: the bitstream of one frame.                      *)
(*                                                                         *)
(* Two writers share the buffer.  An arithmetic coder writes from its      *)
(* start; a carry may still run back through bytes it holds in `cache` and *)
(* `carryCount`.  Plain bits are written from the end.  Where they meet is *)
(* settled only when the stream is flushed: the last byte may hold bits of *)
(* both.  The reader counts what is left exactly as the writer did, since  *)
(* the length of the frame's last part is that count and nothing else.     *)
(*                                                                         *)
(* Pointers are offsets from the start of the buffer.  The accumulator is  *)
(* the sequence of its bits, first in first out: the ones not yet flushed  *)
(* of a writer, the ones not yet read of a reader.                         *)
(***************************************************************************)
EXTENDS Integers, SequencesExt

AccuBits == 32
Full == 2^24            \* the 24 bits of the arithmetic coder's registers
Whole == 2^10           \* the range a model divides among its symbols

Least(a, b) == IF a < b THEN a ELSE b
Most(a, b) == IF a > b THEN a ELSE b

\* The bits of a value, which is below 2^30 throughout, from the lowest on.
BitsOf(v, n) == [i \in 1..n |-> (v \div 2^Least(i - 1, 30)) % 2]
ValueOf(s) == LET v[i \in 0..Len(s)] == IF i = Len(s) THEN 0 ELSE s[i + 1] + 2 * v[i + 1] IN v[0]

\* A loop over a sequence: FoldLeft, in as many steps as it has elements.
Loop(body(_, _), first, seq) ==
    LET after[i \in 0..Len(seq)] == IF i = 0 THEN first ELSE body(after[i - 1], seq[i])
    IN  after[Len(seq)]
BitLength(v) == CHOOSE n \in 0..30 : v < 2^n /\ (n = 0 \/ 2^(n - 1) <= v)

\* lc3_setup_bits, for a writer.
WriterOf(buffer) ==
    [buffer |-> buffer, fw |-> 0, bw |-> Len(buffer), accu |-> <<>>, nover |-> 0,
     low |-> 0, range |-> Full - 1, cache |-> -1, carry |-> 0, carryCount |-> 0,
     reading |-> FALSE, error |-> FALSE]

PendingBits(b) ==
    26 - BitLength(b.range) + 8 * ((IF b.cache >= 0 THEN 1 ELSE 0) + b.carryCount)

\* get_bits_left: negative when the two ends have crossed.
BitsLeftOrOver(b) ==
    LET span == b.bw - b.fw + (IF b.reading THEN AccuBits \div 8 + 3 ELSE 0)
        held == IF b.reading THEN AccuBits - Len(b.accu) ELSE Len(b.accu)
    IN  8 * span - (held + b.nover + PendingBits(b))

BitsLeft(b) == Most(BitsLeftOrOver(b), 0)
CheckBits(b) == BitsLeftOrOver(b) >= 0 /\ ~b.error

-----------------------------------------------------------------------------
(* Writing                                                                 *)

\* accu_flush: whole bytes go to the end of the buffer as long as the
\* arithmetic coder has not been there; the others are dropped.
AccuFlush(b) ==
    LET nbytes == Least(Len(b.accu) \div 8, Most(b.bw - b.fw, 0))
        rest == SubSeq(b.accu, 8 * nbytes + 1, Len(b.accu))
        byte(i) == ValueOf(SubSeq(b.accu, 8 * i + 1, 8 * i + 8))
    IN  [b EXCEPT !.accu = IF Len(rest) >= 8 THEN <<>> ELSE rest,
                  !.bw = @ - nbytes,
                  !.buffer = [j \in DOMAIN @ |-> IF j \in b.bw - nbytes + 1 .. b.bw
                                                 THEN byte(b.bw - j) ELSE @[j]]]

\* lc3_put_bits, n of 1 to 32.
PutBits(b, v, n) ==
    LET n1 == Least(AccuBits - Len(b.accu), n)
        filled == [b EXCEPT !.accu = @ \o SubSeq(BitsOf(v, n), 1, n1)]
    IN  IF Len(b.accu) + n <= AccuBits THEN filled
        ELSE [AccuFlush(filled) EXCEPT !.accu = SubSeq(BitsOf(v, n), n1 + 1, n)]

\* ac_put, of several bytes.
AcPut(b, bytes) ==
    LET room == Least(Len(bytes), Len(b.buffer) - b.fw) IN
    [b EXCEPT !.fw = @ + room,
              !.buffer = [j \in DOMAIN @ |-> IF j \in b.fw + 1 .. b.fw + room
                                             THEN bytes[j - b.fw] % 256 ELSE @[j]]]

\* Faulty variant: a carry stops at the bytes that wait.
FaultyAcShift(b) ==
    LET ready == (IF b.cache >= 0 THEN <<b.cache + b.carry>> ELSE <<>>)
                    \o [i \in 1..b.carryCount |-> 255]
        next == [b EXCEPT !.low = (@ % 2^16) * 2^8]
    IN  IF b.low < 255 * 2^16 \/ b.carry = 1
        THEN [AcPut(next, ready) EXCEPT !.cache = b.low \div 2^16, !.carry = 0,
                                        !.carryCount = 0]
        ELSE [next EXCEPT !.carryCount = @ + 1]

\* ac_shift: bytes of all ones wait in a count, as a carry would run through them.
AcShift(b) ==
    LET ready == (IF b.cache >= 0 THEN <<b.cache + b.carry>> ELSE <<>>)
                    \o [i \in 1..b.carryCount |-> IF b.carry = 1 THEN 0 ELSE 255]
        next == [b EXCEPT !.low = (@ % 2^16) * 2^8]
    IN  IF b.low < 255 * 2^16 \/ b.carry = 1
        THEN [AcPut(next, ready) EXCEPT !.cache = b.low \div 2^16, !.carry = 0,
                                        !.carryCount = 0]
        ELSE [next EXCEPT !.carryCount = @ + 1]

\* How often renormalisation shifts a range left by a byte.
Shifts(range) == IF range < 2^8 THEN 2 ELSE IF range < 2^16 THEN 1 ELSE 0

\* lc3_put_symbol with lc3_ac_write_renorm.
PutSymbol(b, model, s) ==
    LET range == b.range \div Whole
        low == b.low + range * model[s].low
        coded == [b EXCEPT !.low = low % Full, !.range = range * model[s].range,
                           !.carry = IF low >= Full THEN 1 ELSE @]
        shifts == Shifts(coded.range)
    IN  Loop(LAMBDA c, i : [AcShift(c) EXCEPT !.range = @ * 2^8], coded, [i \in 1..shifts |-> i])

\* The last bytes of ac_terminate: the ones that wait, then `last` bits of
\* the end value, above the bits that are in the byte already.
EndArithmetic(b, last) ==
    LET held == b.carryCount > 0
        endVal == IF held THEN IF last < 8 THEN 0 ELSE 255 ELSE b.cache \div 2^(8 - last)
        over(c) == IF c.fw < Len(c.buffer)
                   THEN [c EXCEPT !.buffer[c.fw + 1] =
                             (@ % 2^(8 - last)) + endVal * 2^(8 - last)]
                   ELSE c
    IN  over(IF held THEN AcPut(b, <<b.cache>> \o [i \in 1..b.carryCount - 1 |-> 255]) ELSE b)

\* ac_terminate: the shortest number within the final interval whatever bits
\* follow it.
AcTerminate(b) ==
    LET n0 == 25 - BitLength(b.range)
        mask0 == 2^(24 - n0) - 1
        val0 == b.low + mask0
        high == b.low + b.range
        cut(v, mask) == (v % Full) - (v % (mask + 1))
        same == (val0 >= Full) = (high >= Full)
        longer == same /\ cut(val0, mask0) + mask0 >= high % Full
        ended(val) == [b EXCEPT !.low = val, !.carry = IF same /\ val < b.low THEN 1 ELSE @]
        put(nbits, mask) ==
            LET once == AcShift(ended(cut(b.low + mask, mask))) IN
            IF nbits > 8 THEN EndArithmetic(AcShift(once), nbits - 8)
            ELSE EndArithmetic(once, nbits)
    IN  IF longer THEN put(n0 + 1, mask0 \div 2) ELSE put(n0, mask0)

\* A number of bits for each value, in the order of the values: <<v, n>>.
PutFields(b, fields) == Loop(LAMBDA c, f : PutBits(c, f[1], f[2]), b, fields)

\* lc3_flush_bits: zeros between the two ends, then the number that ends the
\* arithmetic code, written over them.
FlushBits(b) ==
    LET n == 8 * (b.bw - b.fw) - Len(b.accu)
        sizes == [i \in 1..Most((n + 31) \div 32, 0) |-> Least(n - 32 * (i - 1), 32)]
    IN  AcTerminate(AccuFlush(Loop(LAMBDA c, k : PutBits(c, 0, k), b, sizes)))

-----------------------------------------------------------------------------
(* Reading                                                                 *)

\* ac_get, of n bytes: zeros beyond the end of the buffer.
AcGet(b, n) ==
    LET byte(i) == IF b.fw + i <= Len(b.buffer) THEN b.buffer[b.fw + i] ELSE 0 IN
    [b EXCEPT !.fw = Least(@ + n, Len(b.buffer)),
              !.low = Loop(LAMBDA v, i : ((v % 2^16) * 2^8) + byte(i), @, [i \in 1..n |-> i])]

\* accu_load: zeros before the start of the buffer, counted in nover.
AccuLoad(b) ==
    LET room == AccuBits - Len(b.accu)
        nbytes == Least(room \div 8, b.bw)
        missing == room - 8 * nbytes
        bit(i) == BitsOf(b.buffer[b.bw - i \div 8], 8)[(i % 8) + 1]
        loaded == b.accu \o [i \in 1..8 * nbytes |-> bit(i - 1)]
        next == [b EXCEPT !.bw = @ - nbytes, !.accu = loaded]
    IN  IF missing >= 8
        THEN [next EXCEPT !.nover = Least(@ + missing, AccuBits),
                          !.accu = loaded \o [i \in 1..missing |-> 0]]
        ELSE next

\* lc3_setup_bits, for a reader.
ReaderOf(buffer) ==
    AccuLoad(AcGet([WriterOf(buffer) EXCEPT !.reading = TRUE], 3))

\* What a read returns: the reader after it, and the value.
Read(b, v) == [bits |-> b, value |-> v]

\* lc3_get_bits, n of 1 to 32.
GetBits(b, n) ==
    LET take(c, first, k) ==
            Read([c EXCEPT !.accu = SubSeq(@, k + 1, Len(@))],
                 ValueOf(first \o SubSeq(c.accu, 1, k)))
        get(loaded) ==
            LET n1 == Len(loaded.accu) IN
            IF n <= n1 THEN take(loaded, <<>>, n)
            ELSE take(AccuLoad([loaded EXCEPT !.accu = <<>>]), loaded.accu, n - n1)
    IN  get(IF n <= Len(b.accu) THEN b ELSE AccuLoad(b))

\* Fields of the given numbers of bits, one after the other.
GetFields(b, sizes) ==
    Loop(LAMBDA acc, n : LET r == GetBits(acc.bits, n) IN Read(r.bits, Append(acc.value, r.value)),
         Read(b, <<>>), sizes)

\* lc3_ac_read_renorm.
AcReadRenorm(b) ==
    LET shifts == Shifts(b.range) IN [AcGet(b, shifts) EXCEPT !.range = @ * 2^(8 * shifts)]

\* The last symbol that begins at or before `low`.
SymbolAt(model, range, low) ==
    CHOOSE i \in 0..16 : /\ range * model[i].low <= low
                         /\ \A j \in i + 1 .. 16 : range * model[j].low > low

\* lc3_get_symbol: a `low` outside every interval is an error for good.
GetSymbol(b, model) ==
    LET range == (b.range \div Whole) % 2^16
        error == b.error \/ b.low >= range * Whole
        low == IF error THEN 0 ELSE b.low
        s == SymbolAt(model, range, low)
    IN  Read(AcReadRenorm([b EXCEPT !.error = error, !.low = low - range * model[s].low,
                                    !.range = range * model[s].range]), s)
=============================================================================
