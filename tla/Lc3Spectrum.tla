---------------------------- MODULE Lc3Spectrum ----------------------------
(***************************************************************************)
(* liblc3 spec.c: the quantized spectrum in the bitstream.                 *)
(*                                                                         *)
(* Coefficients are integers, coded two by two.  A pair that needs more    *)
(* than two bits a value is preceded by an escape symbol for every bit     *)
(* plane beyond; the context of a pair is a byte of state made of the      *)
(* pairs before it.  What follows the pairs - residual bits of the         *)
(* quantization, or the lowest planes left out in lsb mode - is as long as *)
(* the bits left in the frame, which writer and reader each count.         *)
(*                                                                         *)
(* Gains, noise and the choice of a residual bit are signal processing:    *)
(* indexes and bits here.  The tables are constants.                       *)
(***************************************************************************)
EXTENDS Lc3Bits

CONSTANTS
    Lookup,    \* lc3_spectrum_lookup: high rate, half and state to four models
    Models,    \* lc3_spectrum_models
    Costs      \* lc3_spectrum_bits, in 1/2048 of a bit

\* A model of the arithmetic coder: shares for the symbols below n.
IsModel(model, n) ==
    /\ model \in [0..16 -> [low : 0..Whole, range : 0..Whole]]
    /\ model[0].low = 0 /\ model[16].low + model[16].range = Whole
    /\ \A s \in 0..15 : model[s + 1].low = model[s].low + model[s].range
    /\ \A s \in 0..16 : model[s].range > 0 <=> s < n

ASSUME SpectrumTables ==
    /\ \A m \in DOMAIN Models : IsModel(Models[m], 17)
    /\ Lookup \in [BOOLEAN -> [0..1 -> [0..255 -> [1..4 -> DOMAIN Models]]]]
    /\ Costs \in [DOMAIN Models -> [0..16 -> Nat]]

Escape == 16
Quantized == -(2^15 - 1)..2^15 - 1
Abs(x) == IF x < 0 THEN -x ELSE x
Bit(v, k) == (v \div 2^k) % 2
Flag(p) == IF p THEN 1 ELSE 0

\* LC3_NE of frames of 10 ms.
NE(sr) == 80 * (1 + sr)
ResolveHighRate(sr, nbytes) == nbytes > 20 * (1 + sr)

\* The models of the pair at index i (from 0).
LutOf(format, i, state) ==
    Lookup[ResolveHighRate(format.sr, format.nbytes)]
          [Flag(i >= (NE(format.sr) + 2) \div 2)][state]

\* How a pair is cut: planes beyond two bits, the first one coded here, and
\* the model the remaining two bits use.
PlanesOf(a, b) == Most(BitLength(Most(a, b)) - 2, 0)
FirstPlane(planes, lsbMode) == Flag(lsbMode /\ planes > 0)
ModelAt(lut, k) == lut[Least(k, 3) + 1]

NextState(state, planes, a, b) ==
    LET k == Least(planes, 3) IN
    (state * 16 + (IF k > 1 THEN 12 + k ELSE 1 + (a + b) * (k + 1))) % 256

-----------------------------------------------------------------------------
(* Bit consumption                                                         *)

\* What coding a pair costs, and how much of it lsb mode saves.
PairCost(lut, a, b, lsbMode) ==
    LET planes == PlanesOf(a, b)
        first == FirstPlane(planes, lsbMode)
        escapes == Loop(LAMBDA n, k : n + Costs[ModelAt(lut, k - 1)][Escape], 0,
                            [k \in 1..planes |-> k])
    IN  [nbits |-> 2048 * (Flag(a > 0) + Flag(b > 0)) + escapes + 2 * 2048 * (planes - first)
                       + Costs[ModelAt(lut, planes)][a \div 2^planes + 4 * (b \div 2^planes)],
         lsb |-> IF first = 1 THEN 2 + Flag(a = 1) + Flag(b = 1) ELSE 0]

\* The pair at index i of compute_nbits, one turn of its loop.
CostAt(format, x, budget, lsbMode, acc, i) ==
    LET a == Abs(x[i + 1])
        b == Abs(x[i + 2])
        planes == PlanesOf(a, b)
        cost == PairCost(LutOf(format, i, acc.state), a, b, lsbMode)
        nbits == acc.nbits + cost.nbits
        kept == (a > 0 \/ b > 0) /\ nbits <= budget * 2048
    IN  IF acc.nbits > budget * 2048 THEN acc
        ELSE [nbits |-> nbits, lsb |-> acc.lsb + cost.lsb,
              state |-> NextState(acc.state, planes, a \div 2^planes, b \div 2^planes),
              n |-> IF kept THEN i + 2 ELSE acc.n, end |-> IF kept THEN nbits ELSE acc.end]

\* compute_nbits: what coding the pairs costs; the spectrum is cut after the
\* last pair, not of zeros, within the budget.
ComputeNbits(format, x, budget) ==
    LET lsbMode == format.nbytes >= 20 * (3 + format.sr)
        total == Loop(LAMBDA acc, i : CostAt(format, x, budget, lsbMode, acc, i),
                      [nbits |-> 0, lsb |-> 0, state |-> 0, n |-> 0, end |-> 0],
                      [p \in 1..Len(x) \div 2 |-> 2 * (p - 1)])
    IN  [nq |-> total.n,
         lsbMode |-> lsbMode /\ total.end + total.lsb * 2048 > budget * 2048]

-----------------------------------------------------------------------------
(* Pairs                                                                   *)

\* The escapes of a pair, from plane `first` on, each but the lowest one of
\* lsb mode with the bits of its plane.
PutEscapes(b, lut, x, y, first, planes) ==
    LET plane(c, k) ==
            PutSymbol(PutBits(PutBits(c, Bit(Abs(x), k), 1), Bit(Abs(y), k), 1),
                      Models[ModelAt(lut, k)], Escape)
        lsb == IF first = 1 THEN PutSymbol(b, Models[ModelAt(lut, 0)], Escape) ELSE b
    IN  Loop(plane, lsb, [i \in 1..planes - first |-> first + i - 1])

PutSign(b, v, first) == IF Abs(v) \div 2^first > 0 THEN PutBits(b, Flag(v < 0), 1) ELSE b

\* One turn of the loop of put_quantized.
PutPair(b, lut, x, y, lsbMode) ==
    LET planes == PlanesOf(Abs(x), Abs(y))
        first == FirstPlane(planes, lsbMode)
        escaped == PutEscapes(b, lut, x, y, first, planes)
    IN  PutSymbol(PutSign(PutSign(escaped, x, first), y, first), Models[ModelAt(lut, planes)],
                  Abs(x) \div 2^planes + 4 * (Abs(y) \div 2^planes))

\* The escapes of a pair with the bits of their planes, up to fourteen, and
\* the symbol after them.
GetPlanes(b, lut, lsbMode) ==
    LET s0 == GetSymbol(b, Models[ModelAt(lut, 0)])
        skipped == lsbMode /\ s0.value = Escape
        s1 == IF skipped THEN GetSymbol(s0.bits, Models[ModelAt(lut, 1)]) ELSE s0
        plane(acc, k) ==
            IF acc.symbol # Escape THEN acc
            ELSE LET u == GetBits(acc.bits, 1)
                     v == GetBits(u.bits, 1)
                     s == GetSymbol(v.bits, Models[ModelAt(lut, k + 1)])
                 IN  [bits |-> s.bits, symbol |-> s.value, planes |-> k + 1,
                      u |-> acc.u + u.value * 2^k, v |-> acc.v + v.value * 2^k]
    IN  Loop(plane, [bits |-> s1.bits, symbol |-> s1.value, planes |-> Flag(skipped),
                     u |-> 0, v |-> 0],
             [i \in 1..14 - Flag(skipped) |-> Flag(skipped) + i - 1])

\* A value that is not zero is followed by its sign.
GetSign(b, v) ==
    LET sign == GetBits(b, 1) IN
    IF v > 0 THEN Read(sign.bits, IF sign.value = 1 THEN -v ELSE v) ELSE Read(b, v)

\* The pair its planes and its last symbol tell; more than fourteen escapes
\* are invalid data.
PairOf(got, state) ==
    LET a == got.symbol % 4
        c == got.symbol \div 4
        x == GetSign(got.bits, got.u + a * 2^got.planes)
        y == GetSign(x.bits, got.v + c * 2^got.planes)
    IN  [valid |-> got.symbol # Escape, bits |-> y.bits, x |-> x.value, y |-> y.value,
         state |-> NextState(state, got.planes, a, c)]

\* One turn of the loop of get_quantized.
GetPair(b, lut, state, lsbMode) == PairOf(GetPlanes(b, lut, lsbMode), state)

-----------------------------------------------------------------------------
(* What fills the frame                                                    *)

\* One bit more, if there is room.
PutIfRoom(acc, bit) ==
    IF acc.n > 0 THEN [bits |-> PutBits(acc.bits, bit, 1), n |-> acc.n - 1] ELSE acc

\* put_residual: one bit for each coefficient that is not zero, as long as
\* there are bits; here the given ones.
PutResidual(b, nbits, x, residual) ==
    LET at(acc, i) == IF x[i] = 0 THEN acc ELSE PutIfRoom(acc, residual[i]) IN
    Loop(at, [bits |-> b, n |-> nbits], [i \in 1..Len(x) |-> i]).bits

\* get_residual: the bits read, by coefficient.
GetResidual(b, nbits, x) ==
    Loop(LAMBDA acc, i :
                 IF x[i] = 0 \/ Len(acc.value) >= nbits THEN acc
                 ELSE LET r == GetBits(acc.bits, 1)
                      IN  Read(r.bits, Append(acc.value, <<i, r.value>>)),
             Read(b, <<>>), [i \in 1..Len(x) |-> i])

\* put_lsb: the lowest plane of every escaped pair, with the sign of a value
\* the higher planes do not show, as long as there are bits.
PutLsbAt(acc, v) ==
    LET plane == PutIfRoom(acc, Abs(v) % 2) IN
    IF Abs(v) = 1 THEN PutIfRoom(plane, Flag(v < 0)) ELSE plane

PutLsb(b, nbits, x) ==
    LET pair(acc, p) ==
            IF PlanesOf(Abs(x[2 * p - 1]), Abs(x[2 * p])) = 0 THEN acc
            ELSE PutLsbAt(PutLsbAt(acc, x[2 * p - 1]), x[2 * p])
    IN  Loop(pair, [bits |-> b, n |-> nbits], [p \in 1..Len(x) \div 2 |-> p]).bits

\* get_lsb, which adds them to the coefficients: one of them.
GetLsbAt(acc, i) ==
    LET bit == IF acc.n > 0 THEN GetBits(acc.bits, 1) ELSE Read(acc.bits, 0)
        n == acc.n - 1
        v == acc.x[i]
        sign == IF n > 0 THEN GetBits(bit.bits, 1) ELSE Read(bit.bits, 2)
    IN  CASE bit.value = 0 -> [acc EXCEPT !.bits = bit.bits, !.n = n]
          [] bit.value # 0 /\ v # 0 ->
                 [acc EXCEPT !.bits = bit.bits, !.n = n, !.x[i] = IF v < 0 THEN v - 1 ELSE v + 1]
          [] bit.value # 0 /\ v = 0 ->
                 [acc EXCEPT !.bits = sign.bits, !.n = n - 1,
                             !.x[i] = CASE sign.value = 0 -> 1
                                        [] sign.value = 1 -> -1 [] OTHER -> 0]

GetLsb(b, nbits, x) ==
    LET escaped(acc, p) == Most(Abs(acc.x[2 * p - 1]), Abs(acc.x[2 * p])) >= 4
        pair(acc, p) == IF acc.n > 0 /\ escaped(acc, p)
                        THEN GetLsbAt(GetLsbAt(acc, 2 * p - 1), 2 * p) ELSE acc
    IN  Loop(pair, [bits |-> b, n |-> nbits, x |-> x], [p \in 1..Len(x) \div 2 |-> p])
=============================================================================
