------------------------------ MODULE Lc3Frame ------------------------------
(***************************************************************************)
(* liblc3 lc3.c: one frame of speech through encode() and decode().        *)
(*                                                                         *)
(* The analysis has chosen the frame's data, and cut the spectrum to the   *)
(* bits it reckons the coding will take.  The frame is written stage by    *)
(* stage, carried to the phone, where a byte may have been damaged, and    *)
(* read stage by stage.  Nothing in it marks where a stage begins: every   *)
(* read has to follow the write it mirrors.  Data that decode() refuses is *)
(* concealed, not an error of the caller.                                  *)
(***************************************************************************)
EXTENDS Lc3SideData

CONSTANTS
    Frames,         \* what the analysis may hand to encode()
    OrderCosts,     \* lc3_tns_order_bits
    CoeffCosts,     \* lc3_tns_coeffs_bits
    Damages,        \* bytes a damaged frame may have, with their positions
    Unwritten       \* what the buffer holds before it is written

VARIABLES
    frame,      \* side_data and quantized spectrum of the encoder
    writer,     \* its lc3_bits
    left,       \* history: the bits it found left after the pairs
    damaged,    \* history
    reader,     \* lc3_bits of the decoder
    got,        \* side_data and spectrum of the decoder
    at, state,  \* index and context of the next pair, of whichever side is at work
    stage       \* where encode() or decode() stands

frameVars == <<frame, writer, left, damaged, reader, got, at, state, stage>>

\* What the analysis hands on: whole pairs of quantized coefficients, each
\* with the bit of its rounding, filters of up to eight coefficients and the
\* vector of the envelope, the rest indexes.
IsFrame(f) ==
    /\ f \in [format : [sr : 0..4, nbytes : Nat], bw : Nat, nq : Nat, lsbMode : BOOLEAN, gain : Nat,
              noise : Nat, x : Seq(Quantized), residual : Seq({0, 1}), tns : Seq(Filters),
              sns : [lfcb : Nat, hfcb : Nat, shape : 0..3, gain : Nat, c : Seq(Int)],
              ltpf : Seq([active : BOOLEAN, pitchIndex : Nat])]
    /\ Len(f.x) % 2 = 0 /\ Len(f.residual) = Len(f.x) /\ IsSns(f.sns)

ASSUME FrameData ==
    /\ \A f \in Frames : IsFrame(f)
    /\ \A d \in Damages : d.byte \in 0..255
    /\ Unwritten \in 0..255

\* lc3_tns_get_nbits, rounded up for each filter.
TnsNbits(nbytes, filters) ==
    LET nbits(rc) ==
            LET order == IF rc = <<>> THEN 0 ELSE OrderCosts[LpcWeighting(nbytes)][Len(rc)]
                total == Loop(LAMBDA n, i : n + CoeffCosts[i][9 + rc[i]], 2048 + order,
                                  [i \in 1..Len(rc) |-> i])
            IN  (total + 2047) \div 2048
    IN  Loop(LAMBDA n, rc : n + nbits(rc), 0, filters)

\* lc3_spec_analyze: the bits that remain for the spectrum.
Budget(f) ==
    8 * f.format.nbytes
        - (NqNbits(f.format.sr) + 3 + Least((f.format.nbytes - 1) \div 160, 2))
        - BwNbits(f.format.sr) - (1 + 10 * Flag(f.ltpf # <<>>)) - 38
        - TnsNbits(f.format.nbytes, f.tns) - 8 - 3

\* The frame with what it fills in: the coefficients kept, and the mode.
Analysed(f) ==
    LET c == ComputeNbits(f.format, f.x, Budget(f)) IN [f EXCEPT !.nq = c.nq, !.lsbMode = c.lsbMode]

FrameInit ==
    /\ frame \in {Analysed(f) : f \in Frames}
    /\ writer = WriterOf([i \in 1..frame.format.nbytes |-> Unwritten])
    /\ left = 0 /\ damaged = FALSE
    /\ reader = <<>> /\ got = <<>>
    /\ at = 0 /\ state = 0 /\ stage = "encoding"

-----------------------------------------------------------------------------
(* Encoder                                                                 *)

\* encode() up to the noise factor of lc3_spec_encode.
EncodeSide ==
    LET sr == frame.format.sr
        bw == PutSome(writer, frame.bw, BwNbits(sr))
        side == PutSide(bw, sr, frame)
        tns == TnsPut(side, frame.format.nbytes, frame.tns)
        sns == SnsPut(PutBits(tns, Flag(frame.ltpf # <<>>), 1), frame.sns)
        ltpf == IF frame.ltpf # <<>> THEN LtpfPut(sns, frame.ltpf[1]) ELSE sns
    IN  /\ stage = "encoding"
        /\ writer' = PutBits(ltpf, frame.noise, 3)
        /\ stage' = "putPairs"
        /\ UNCHANGED <<frame, left, damaged, reader, got, at, state>>

\* put_quantized, one pair.
EncodePair ==
    /\ stage = "putPairs" /\ at < frame.nq
    /\ LET x == frame.x[at + 1]
           y == frame.x[at + 2]
           planes == PlanesOf(Abs(x), Abs(y))
           lut == LutOf(frame.format, at, state)
       IN  /\ writer' = PutPair(writer, lut, x, y, frame.lsbMode)
           /\ state' = NextState(state, planes, Abs(x) \div 2^planes, Abs(y) \div 2^planes)
    /\ at' = at + 2
    /\ UNCHANGED <<frame, left, damaged, reader, got, stage>>

\* The rest of lc3_spec_encode, and lc3_flush_bits.
EncodeRest ==
    LET x == SubSeq(frame.x, 1, frame.nq) IN
    /\ stage = "putPairs" /\ at = frame.nq
    /\ left' = BitsLeftOrOver(writer)
    /\ writer' = FlushBits(IF frame.lsbMode THEN PutLsb(writer, BitsLeft(writer), x)
                           ELSE PutResidual(writer, BitsLeft(writer), x, frame.residual))
    /\ stage' = "sent"
    /\ UNCHANGED <<frame, damaged, reader, got, at, state>>

-----------------------------------------------------------------------------
(* Decoder                                                                 *)

\* The frame arrives, as it was sent or with one byte changed.
Arrive ==
    /\ stage = "sent"
    /\ \/ /\ reader' = ReaderOf(writer.buffer)
          /\ damaged' = FALSE
       \/ \E d \in Damages :
              /\ d.at \in DOMAIN writer.buffer
              /\ reader' = ReaderOf([writer.buffer EXCEPT ![d.at] = d.byte])
              /\ damaged' = TRUE
    /\ at' = 0 /\ state' = 0 /\ stage' = "decoding"
    /\ UNCHANGED <<frame, writer, left, got>>

\* The side data read so far and, if it is valid, what follows it.
Accept(bw, side, tns, pitch, sns) ==
    LET ltpf == IF pitch.value = 1 THEN LtpfGet(sns.bits) ELSE Read(sns.bits, <<>>)
        noise == GetBits(ltpf.bits, 3)
    IN  IF bw.valid /\ side.valid /\ sns.valid
        THEN /\ got' = [bw |-> bw.value, nq |-> side.value.nq, lsbMode |-> side.value.lsbMode,
                        gain |-> side.value.gain, tns |-> tns.value, sns |-> sns.value,
                        ltpf |-> ltpf.value, noise |-> noise.value,
                        x |-> <<>>, residual |-> <<>>]
             /\ reader' = noise.bits
             /\ stage' = "getPairs"
        ELSE stage' = "concealed" /\ UNCHANGED <<got, reader>>

\* decode() up to the noise factor of lc3_spec_decode; its early returns.
DecodeSide ==
    LET sr == frame.format.sr
        bw == BwGet(reader, sr)
        side == GetSide(bw.bits, sr)
        tns == TnsGet(side.bits, frame.format.nbytes, bw.value)
        pitch == GetBits(tns.bits, 1)
        sns == SnsGet(pitch.bits)
    IN  /\ stage = "decoding"
        /\ Accept(bw, side, tns, pitch, sns)
        /\ UNCHANGED <<frame, writer, left, damaged, at, state>>

\* get_quantized, one pair.
AcceptPair(pair) ==
    IF pair.valid
    THEN /\ reader' = pair.bits
         /\ got' = [got EXCEPT !.x = @ \o <<pair.x, pair.y>>]
         /\ state' = pair.state
         /\ at' = at + 2
         /\ UNCHANGED stage
    ELSE stage' = "concealed" /\ UNCHANGED <<got, reader, at, state>>

DecodePair ==
    /\ stage = "getPairs" /\ at < got.nq
    /\ AcceptPair(GetPair(reader, LutOf(frame.format, at, state), state, got.lsbMode))
    /\ UNCHANGED <<frame, writer, left, damaged>>

\* The rest of lc3_spec_decode, and lc3_check_bits.
DecodeRest ==
    /\ stage = "getPairs" /\ at = got.nq
    /\ LET lsb == GetLsb(reader, BitsLeft(reader), got.x)
           residual == GetResidual(reader, BitsLeft(reader), got.x)
       IN  /\ reader' = IF got.lsbMode THEN lsb.bits ELSE residual.bits
           /\ got' = IF got.lsbMode THEN [got EXCEPT !.x = lsb.x]
                     ELSE [got EXCEPT !.residual = residual.value]
    /\ stage' = IF CheckBits(reader') THEN "decoded" ELSE "concealed"
    /\ UNCHANGED <<frame, writer, left, damaged, at, state>>

FrameNext ==
    \/ EncodeSide \/ EncodePair \/ EncodeRest
    \/ Arrive \/ DecodeSide \/ DecodePair \/ DecodeRest

FrameSpec == FrameInit /\ [][FrameNext]_frameVars

-----------------------------------------------------------------------------
(* Properties                                                              *)

\* A coefficient without the plane that lsb mode codes last.
WithoutLsb(x, i) ==
    LET even == IF i % 2 = 1 THEN i + 1 ELSE i IN
    IF PlanesOf(Abs(x[even - 1]), Abs(x[even])) = 0 THEN x[i]
    ELSE (IF x[i] < 0 THEN -2 ELSE 2) * (Abs(x[i]) \div 2)

\* The signs of the rounding that the frame had room for.
ResidualOf(x, residual, nbits) ==
    LET all == SelectSeq([i \in 1..Len(x) |-> <<i, residual[i]>>], LAMBDA p : x[p[1]] # 0)
    IN  SubSeq(all, 1, Least(nbits, Len(all)))

\* A frame that arrives undamaged is decoded to what was encoded, however the
\* two ends of the buffer meet and wherever carries ran: the side data, every
\* coefficient that was within the budget, and of what fills the frame exactly
\* as much as the encoder found room for.
RoundTrip ==
    stage \in {"decoded", "concealed"} /\ ~damaged /\ frame.nq > 0 =>
        LET x == SubSeq(frame.x, 1, frame.nq) IN
        /\ stage = "decoded"
        /\ \A part \in {"bw", "nq", "lsbMode", "gain", "tns", "sns", "ltpf", "noise"} :
               got[part] = frame[part]
        /\ IF frame.lsbMode
           THEN \E n \in 0..Len(x) :
                    got.x = [i \in 1..Len(x) |-> IF i <= n THEN x[i] ELSE WithoutLsb(x, i)]
           ELSE /\ got.x = x
                /\ got.residual = ResidualOf(x, frame.residual, left)

\* Whatever arrives, what the decoder hands on to the synthesis is within the
\* tables and arrays it indexes: bandwidth, count and size of coefficients,
\* filter orders, a pulse vector of the energy its shape has, and both ends of
\* the buffer.
DecodedIsUsable ==
    stage \in {"getPairs", "decoded"} =>
        /\ got.bw <= frame.format.sr
        /\ got.nq \in 2..NE(frame.format.sr)
        /\ \A i \in DOMAIN got.x : Abs(got.x[i]) < 2^16
        /\ \A i \in DOMAIN got.tns : got.tns[i] \in Filters
        /\ Len(got.sns.c) = 16
        /\ Energy(got.sns.c) = PulsesOf(got.sns.shape) + Flag(got.sns.shape = 0)
        /\ reader.fw \in 0..Len(reader.buffer) /\ reader.bw \in 0..Len(reader.buffer)
=============================================================================
