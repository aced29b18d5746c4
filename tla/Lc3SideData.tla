---------------------------- MODULE Lc3SideData ----------------------------
(***************************************************************************)
(* liblc3 bwdet.c, spec.c, tns.c, sns.c, ltpf.c: what precedes the         *)
(* spectrum in a frame, each part with the writer and the reader of it.    *)
(*                                                                         *)
(* The shape of the spectral envelope (SNS) is a vector of pulses: its     *)
(* number among all vectors with as many pulses is what is written, two    *)
(* such numbers, a gain bit and the choice of the codebook muxed into one. *)
(***************************************************************************)
EXTENDS Lc3Spectrum

CONSTANTS
    OrderModels,    \* lc3_tns_order_models, by lpc weighting
    CoeffModels     \* lc3_tns_coeffs_models, by position

ASSUME SideTables ==
    /\ \A weighting \in BOOLEAN : IsModel(OrderModels[weighting], 8)
    /\ \A i \in 1..8 : IsModel(CoeffModels[i], 17)

\* A part that was read: the reader after it, its value, FALSE for invalid data.
Part(b, v, ok) == [bits |-> b, value |-> v, valid |-> ok]

\* A value of n bits, or none at all.
PutSome(b, v, n) == IF n > 0 THEN PutBits(b, v, n) ELSE b
GetSome(b, n) == IF n > 0 THEN GetBits(b, n) ELSE Read(b, 0)

-----------------------------------------------------------------------------
(* Bandwidth                                                               *)

BwNbits(sr) == Flag(sr > 0) + Flag(sr > 1) + Flag(sr > 3)

BwGet(b, sr) ==
    LET bw == GetSome(b, BwNbits(sr)) IN Part(bw.bits, Least(bw.value, sr), bw.value <= sr)

-----------------------------------------------------------------------------
(* Side data of the spectrum                                               *)

NqNbits(sr) == 4 + Cardinality({n \in {32, 64, 128, 256} : NE(sr) > n})

PutSide(b, sr, side) ==
    PutFields(b, <<<<Most(side.nq \div 2, 1) - 1, NqNbits(sr)>>, <<Flag(side.lsbMode), 1>>,
                   <<side.gain, 8>>>>)

\* Faulty variant: a count beyond the spectrum is believed.
FaultyGetSide(b, sr) ==
    LET r == GetFields(b, <<NqNbits(sr), 1, 8>>) IN
    Part(r.bits, [nq |-> 2 * (r.value[1] + 1), lsbMode |-> r.value[2] = 1, gain |-> r.value[3]],
         TRUE)

GetSide(b, sr) ==
    LET r == GetFields(b, <<NqNbits(sr), 1, 8>>)
        count == 2 * (r.value[1] + 1)
    IN  Part(r.bits, [nq |-> Least(count, NE(sr)), lsbMode |-> r.value[2] = 1,
                      gain |-> r.value[3]], count <= NE(sr))

-----------------------------------------------------------------------------
(* Temporal noise shaping: per filter, its reflection coefficients         *)

NFilters(bw) == IF bw >= 3 THEN 2 ELSE 1
LpcWeighting(nbytes) == nbytes < 60
Filters == {rc \in Seq(-8..8) : Len(rc) <= 8}

PutFilter(b, nbytes, rc) ==
    IF rc = <<>> THEN PutBits(b, 0, 1)
    ELSE LET order == PutSymbol(PutBits(b, 1, 1), OrderModels[LpcWeighting(nbytes)], Len(rc) - 1)
         IN  Loop(LAMBDA c, i : PutSymbol(c, CoeffModels[i], 8 + rc[i]), order,
                  [i \in 1..Len(rc) |-> i])

TnsPut(b, nbytes, filters) == Loop(LAMBDA c, rc : PutFilter(c, nbytes, rc), b, filters)

\* A filter: a flag, its order, and as many coefficients.
GetFilter(b, nbytes) ==
    LET present == GetBits(b, 1)
        order == GetSymbol(present.bits, OrderModels[LpcWeighting(nbytes)])
        coeff(acc, i) == LET c == GetSymbol(acc.bits, CoeffModels[i]) IN
                         Read(c.bits, Append(acc.value, c.value - 8))
    IN  IF present.value = 0 THEN Read(present.bits, <<>>)
        ELSE Loop(coeff, Read(order.bits, <<>>), [i \in 1..order.value + 1 |-> i])

TnsGet(b, nbytes, bw) ==
    LET step(acc, f) == LET r == GetFilter(acc.bits, nbytes) IN
                        Read(r.bits, Append(acc.value, r.value))
    IN  Loop(step, Read(b, <<>>), [f \in 1..NFilters(bw) |-> f])

-----------------------------------------------------------------------------
(* Spectral noise shaping                                                  *)

\* lc3_sns_mpvq_offsets: the pyramid numbers of i + 1 places and j pulses, by
\* which vectors are counted.
Offsets == <<
    <<0, 1,  1,   1,    1,     1,      1,       1,       1,        1,        1>>,
    <<0, 1,  3,   5,    7,     9,     11,      13,      15,       17,       19>>,
    <<0, 1,  5,  13,   25,    41,     61,      85,     113,      145,      181>>,
    <<0, 1,  7,  25,   63,   129,    231,     377,     575,      833,     1159>>,
    <<0, 1,  9,  41,  129,   321,    681,    1289,    2241,     3649,     5641>>,
    <<0, 1, 11,  61,  231,   681,   1683,    3653,    7183,    13073,    22363>>,
    <<0, 1, 13,  85,  377,  1289,   3653,    8989,   19825,    40081,    75517>>,
    <<0, 1, 15, 113,  575,  2241,   7183,   19825,   48639,   108545,   224143>>,
    <<0, 1, 17, 145,  833,  3649,  13073,   40081,  108545,   265729,   598417>>,
    <<0, 1, 19, 181, 1159,  5641,  22363,   75517,  224143,   598417,  1462563>>,
    <<0, 1, 21, 221, 1561,  8361,  36365,  134245,  433905,  1256465,  3317445>>,
    <<0, 1, 23, 265, 2047, 11969,  56695,  227305,  795455,  2485825,  7059735>>,
    <<0, 1, 25, 313, 2625, 16641,  85305,  369305, 1392065,  4673345, 14218905>>,
    <<0, 1, 27, 365, 3303, 22569, 124515,  579125, 2340495,  8405905, 27298155>>,
    <<0, 1, 29, 421, 4089, 29961, 177045,  880685, 3800305, 14546705, 50250765>>,
    <<0, 1, 31, 481, 4991, 39041, 246047, 1303777, 5984767, 24331777, 89129247>> >>
Offset(i, j) == Offsets[i + 1][j + 1]

\* enum_mvpq: places are scanned from the last one; the sign of a pulse is
\* written into the index when the next pulse is met.
EnumAt(c, acc, i) ==
    LET met == c[i] # 0
        idx == IF met THEN 2 * acc.idx + Flag(acc.ls) ELSE acc.idx
    IN  [idx |-> idx + Offset(Len(c) - i, acc.pulses), ls |-> IF met THEN c[i] < 0 ELSE acc.ls,
         pulses |-> acc.pulses + Abs(c[i])]

EnumMvpq(c) ==
    LET last == CHOOSE i \in 1..Len(c) : c[i] # 0 /\ \A j \in i + 1..Len(c) : c[j] = 0 IN
    Loop(LAMBDA acc, i : EnumAt(c, acc, i),
         [idx |-> 0, ls |-> c[last] < 0, pulses |-> Abs(c[last])],
         [k \in 1..last - 1 |-> last - k])

\* deenum_mvpq: the pulses at place i that the index tells, and what it tells
\* of the places before; nothing when it is used up.
Signed(ls, ci) == IF ls THEN -ci ELSE ci
PulsesAt(i, idx, pulses) ==
    CHOOSE ci \in 0..pulses : /\ idx >= Offset(i, pulses - ci)
                              /\ \A d \in 0..ci - 1 : idx < Offset(i, pulses - d)
DeenumAt(acc, i) ==
    LET ci == PulsesAt(i, acc.idx, acc.pulses)
        idx == acc.idx - Offset(i, acc.pulses - ci)
    IN  IF acc.idx = 0 THEN acc
        ELSE [c |-> Append(acc.c, Signed(acc.ls, ci)), pulses |-> acc.pulses - ci,
              ls |-> IF ci > 0 THEN idx % 2 = 1 ELSE acc.ls,
              idx |-> IF ci > 0 THEN idx \div 2 ELSE idx]

\* The place after the ones that were told takes the pulses that are left.
Places(told, n) ==
    LET set == Len(told.c) IN
    [i \in 1..n |-> IF i <= set THEN told.c[i]
                    ELSE IF i = set + 1 THEN Signed(told.ls, told.pulses) ELSE 0]

DeenumMvpq(index, sign, npulses, n) ==
    Places(Loop(DeenumAt, [c |-> <<>>, idx |-> index, ls |-> sign, pulses |-> npulses],
                [k \in 1..n |-> n - k]), n)

\* The pulses of a shape, in its first part and, for shape 0, in its last six places.
PulsesOf(shape) == <<10, 10, 8, 6>>[shape + 1]
PlacesOf(shape) == IF shape < 2 THEN 10 ELSE 16

\* The pulses of a vector, and what lc3_sns_analyze chooses.
Energy(c) == Loop(LAMBDA n, v : n + Abs(v), 0, c)
IsSns(sns) ==
    /\ sns \in [lfcb : Nat, hfcb : Nat, shape : 0..3, gain : Nat, c : Seq(Int)]
    /\ Len(sns.c) = 16 /\ Energy(SubSeq(sns.c, 1, PlacesOf(sns.shape))) = PulsesOf(sns.shape)
    /\ sns.shape = 0 => Energy(SubSeq(sns.c, 11, 16)) = 1

\* lc3_sns_analyze, enumerate: the numbers of a vector of 16 places.
Enumerate(shape, c) ==
    [a |-> EnumMvpq(SubSeq(c, 1, PlacesOf(shape))),
     b |-> IF shape = 0 THEN EnumMvpq(SubSeq(c, 11, 16)) ELSE [idx |-> 0, ls |-> FALSE]]

\* lc3_sns_synthesize, deenumerate.
Deenumerate(data) ==
    LET a == DeenumMvpq(data.idxA, data.lsA, PulsesOf(data.shape), PlacesOf(data.shape)) IN
    CASE data.shape = 0 -> a \o DeenumMvpq(data.idxB, data.lsB, 1, 6)
      [] data.shape = 1 -> a \o [i \in 1..6 |-> 0]
      [] OTHER -> a

SizeA(msb) == IF msb = 0 THEN 2390004 ELSE 15158272

\* The number for what one does not fit.
Mux(shape, gain, v) ==
    CASE shape = 0 -> (2 * (v.b.idx + 1) + Flag(v.b.ls)) * SizeA(0) + v.a.idx
      [] shape = 1 -> (gain % 2) * SizeA(0) + v.a.idx
      [] shape = 2 -> v.a.idx
      [] shape = 3 -> SizeA(1) + 2 * v.a.idx + (gain % 2)

\* lc3_sns_put_data of the vector with its codebooks and gain.
SnsPut(b, sns) ==
    LET v == Enumerate(sns.shape, sns.c)
        msb == sns.shape \div 2
    IN  PutFields(b, <<<<sns.lfcb, 5>>, <<sns.hfcb, 5>>, <<msb, 1>>,
                       <<sns.gain \div 2^(sns.shape % 2), 1 + msb>>, <<Flag(v.a.ls), 1>>,
                       <<Mux(sns.shape, sns.gain, v), 25 - msb>>>>)

\* What the muxed number says of the vector.
Demux(msb, ls, mux) ==
    LET high == mux \div SizeA(msb)
        rest == mux % SizeA(msb)
        shape == IF msb = 0 THEN Flag(high < 2) ELSE 2 + Flag(high > 0)
    IN  [shape |-> shape, lsA |-> ls = 1, idxA |-> IF shape = 3 THEN rest \div 2 ELSE rest,
         idxB |-> IF shape = 0 THEN (high - 2) \div 2 ELSE 0,
         lsB |-> shape = 0 /\ high % 2 = 1]

\* What the fields of lc3_sns_get_data say; shapes 1 and 3 have a gain bit in the
\* muxed number.
SnsOf(msb, lfcb, hfcb, gain, ls, mux) ==
    LET data == Demux(msb, ls, mux)
        low == CASE data.shape = 1 -> (mux \div SizeA(0)) % 2
                 [] data.shape = 3 -> (mux - SizeA(1)) % 2
                 [] OTHER -> 0
    IN  [lfcb |-> lfcb, hfcb |-> hfcb, shape |-> data.shape,
         gain |-> gain * 2^(data.shape % 2) + low, c |-> Deenumerate(data)]

\* The numbers that can be muxed.
MuxEnd(msb) == IF msb = 0 THEN 14 * SizeA(0) ELSE SizeA(1) + 1549824

\* lc3_sns_get_data, with the vector lc3_sns_synthesize makes of it: the
\* fields up to the one that sizes the others, and those.
SnsPart(msb, head, tail) ==
    LET mux == tail.value[3]
        valid == mux < MuxEnd(msb)
    IN  Part(tail.bits,
             IF valid THEN SnsOf(msb, head.value[1], head.value[2], tail.value[1],
                                 tail.value[2], mux)
             ELSE <<>>, valid)

SnsGet(b) ==
    LET head == GetFields(b, <<5, 5, 1>>)
        msb == head.value[3]
    IN  SnsPart(msb, head, GetFields(head.bits, <<1 + msb, 1, 25 - msb>>))

-----------------------------------------------------------------------------
(* Long term postfilter                                                    *)

LtpfPut(b, ltpf) == PutFields(b, <<<<Flag(ltpf.active), 1>>, <<ltpf.pitchIndex, 9>>>>)

LtpfGet(b) ==
    LET r == GetFields(b, <<1, 9>>) IN
    Read(r.bits, <<[active |-> r.value[1] = 1, pitchIndex |-> r.value[2]]>>)
=============================================================================
