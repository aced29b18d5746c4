---------------------------- MODULE MCLc3Frame -----------------------------
(* Frames for TLC, with some rows of the codec's tables: the likely, the   *)
(* even, the steep and the escape-heavy among its symbol models.           *)
EXTENDS Lc3Frame

ModelOf(ranges) ==
    [s \in 0..16 |-> [low |-> FoldLeft(LAMBDA a, b : a + b, 0, SubSeq(ranges, 1, s)),
                      range |-> ranges[s + 1]]]
ByValue(costs) == [s \in 0..16 |-> costs[s + 1]]

SomeModels == <<
    ModelOf(<<1, 1, 175, 48, 1, 1, 109, 36, 171, 109, 47, 20, 49, 36, 20, 10, 190>>),
    ModelOf(<<18, 26, 17, 10, 27, 37, 24, 16, 22, 32, 22, 14, 17, 26, 20, 13, 683>>),
    ModelOf(<<71, 92, 49, 25, 81, 102, 61, 33, 42, 57, 39, 23, 22, 30, 22, 15, 260>>),
    ModelOf(<<579, 150, 12, 2, 154, 73, 10, 2, 14, 11, 3, 1, 3, 3, 1, 1, 5>>) >>

SomeCosts == <<
    ByValue(<<20480, 20480, 5220, 9042, 20480, 20480, 6619, 9892, 5289, 6619, 9105, 11629,
              8982, 9892, 11629, 13677, 4977>>),
    ByValue(<<11940, 10854, 12109, 13677, 10742, 9812, 11090, 12288, 11348, 10240, 11348,
              12683, 12109, 10854, 11629, 12902, 1197>>),
    ByValue(<<7886, 7120, 8982, 10970, 7496, 6815, 8334, 10150, 9437, 8535, 9656, 11216,
              11348, 10431, 11348, 12479, 4051>>),
    ByValue(<<1685, 5676, 13138, 18432, 5598, 7804, 13677, 18432, 12683, 13396, 17234, 20480,
              17234, 17234, 20480, 20480, 15725>>) >>

SomeLookup ==
    [rate \in BOOLEAN |-> [half \in 0..1 |-> [s \in 0..255 |->
        <<1 + ((s + half) % 4), 1 + ((s \div 16) % 3), 2, 2>>]]]

SomeOrderModels == [weighting \in BOOLEAN |->
    ModelOf((IF weighting THEN <<14, 42, 100, 157, 181, 178, 167, 185>>
             ELSE <<3, 9, 23, 54, 111, 190, 268, 366>>) \o [i \in 1..9 |-> 0])]
SomeOrderCosts == [weighting \in BOOLEAN |->
    IF weighting THEN <<12683, 9437, 6874, 5541, 5121, 5170, 5359, 5056>>
    ELSE <<17234, 13988, 11216, 8694, 6566, 4977, 3961, 3040>>]

CoeffRows == <<
    <<1, 5, 15, 31, 54, 86, 97, 120, 159, 152, 111, 104, 59, 22, 6, 1, 1>>,
    <<1, 1, 1, 1, 13, 43, 94, 139, 173, 160, 154, 131, 78, 27, 6, 1, 1>>,
    <<1, 1, 1, 1, 9, 43, 106, 199, 217, 210, 141, 74, 17, 1, 1, 1, 1>> >>
CoeffCostRows == <<
    <<20480, 15725, 12479, 10334, 8694, 7320, 6964, 6335, 5504, 5637, 6566, 6758, 8433, 11348,
      15186, 20480, 20480>>,
    <<20480, 20480, 20480, 20480, 12902, 9368, 7057, 5901, 5254, 5485, 5598, 6076, 7608, 10742,
      15186, 20480, 20480>>,
    <<20480, 20480, 20480, 20480, 13988, 9368, 6702, 4841, 4585, 4682, 5859, 7764, 12109, 20480,
      20480, 20480, 20480>> >>
SomeCoeffModels == [i \in 1..8 |-> ModelOf(CoeffRows[Least(i, 3)])]
SomeCoeffCosts == [i \in 1..8 |-> CoeffCostRows[Least(i, 3)]]

-----------------------------------------------------------------------------
Zeros(n) == [i \in 1..n |-> 0]

\* One side of each kind: every shape, no filter, short and long ones, with
\* and without pitch.
SomeSides == <<
    [bw |-> 0, tns |-> << <<>> >>, ltpf |-> <<>>, noise |-> 7, gain |-> 200,
     sns |-> [lfcb |-> 31, hfcb |-> 0, shape |-> 0, gain |-> 1,
              c |-> <<-2, 0, 3, 1, 0, -1, 0, 0, 3, 0,  0, 0, -1, 0, 0, 0>>]],
    [bw |-> 1, tns |-> << <<-8, 8>> >>, noise |-> 0, gain |-> 0,
     ltpf |-> <<[active |-> TRUE, pitchIndex |-> 511]>>,
     sns |-> [lfcb |-> 0, hfcb |-> 17, shape |-> 1, gain |-> 3,
              c |-> <<0, 0, 0, 0, 0, 0, 0, 0, 0, -10>> \o Zeros(6)]],
    [bw |-> 1, tns |-> << <<1>> >>, noise |-> 5, gain |-> 255, ltpf |-> <<>>,
     sns |-> [lfcb |-> 5, hfcb |-> 5, shape |-> 2, gain |-> 2,
              c |-> <<1, -1, 1, -1, 1, -1, 1, -1>> \o Zeros(8)]],
    [bw |-> 0, tns |-> << <<8, -8, 7, 0, 0, 1>> >>, noise |-> 2, gain |-> 100,
     ltpf |-> <<[active |-> FALSE, pitchIndex |-> 0]>>,
     sns |-> [lfcb |-> 9, hfcb |-> 30, shape |-> 3, gain |-> 7,
              c |-> Zeros(10) \o <<0, 2, 0, -3, 0, 1>>]] >>

\* Speech at 16 kHz in 20 bytes, as the glasses send it, and a larger frame
\* at 8 kHz, whose lowest planes do not fit.
Short == [sr |-> 1, nbytes |-> 20]
Large == [sr |-> 0, nbytes |-> 60]

Bits(n) == [i \in 1..n |-> ((i * i) \div 3) % 2]
With(side, format, x) ==
    [format |-> format, x |-> x, residual |-> Bits(Len(x)), nq |-> 0, lsbMode |-> FALSE] @@
        (IF format = Large THEN [side EXCEPT !.bw = 0] ELSE side)

SomePairs == << <<0, 0>>, <<1, -1>>, <<-3, 2>>, <<0, -5>>, <<-90, 7>>, <<32767, -1>>, <<2, 0>>,
                <<3, 3>>, <<1, 0>>, <<-12, 4>> >>

\* Frames as side and pairs.  Short ones in which bytes of ones wait, mostly
\* until a carry runs through them; that end in each of the ways of
\* termination; that leave no, one or two bits, or are cut.  Larger ones whose
\* lowest planes are left out, and coded as far as there is room.
Waiting ==
    {<<1, <<6, 10>>>>, <<3, <<10, 4, 2, 5, 9>>>>, <<3, <<5, 2, 6>>>>,
     <<3, <<2, 4, 1, 5, 9>>>>, <<1, <<1, 2, 10, 7, 10>>>>, <<1, <<1, 2, 10, 7, 4>>>>,
     <<1, <<3, 2, 8, 4>>>>, <<2, <<5, 8, 3, 8>>>>}
Ending ==
    {<<1, <<3, 7, 1, 2>>>>, <<1, <<2, 9, 2, 10>>>>, <<1, <<10, 2, 8>>>>,
     <<4, <<7, 9, 5>>>>, <<3, <<5, 9>>>>, <<3, <<4, 9, 8>>>>,
     <<3, <<5, 7, 10, 10>>>>, <<1, <<1, 5, 5, 4>>>>, <<1, <<5, 8, 4, 8>>>>,
     <<3, <<4, 2, 10, 4>>>>}
Filled ==
    {<<4, <<6, 10, 8, 10>>>>, <<4, <<2, 2, 8, 8, 8>>>>, <<3, <<2, 3, 2, 6>>>>,
     <<4, <<2, 4, 2, 4>>>>, <<4, <<6, 2, 2, 7, 4>>>>, <<4, <<2, 5, 2>>>>,
     <<1, <<6, 6, 8, 3, 2>>>>, <<1, <<6, 6, 8>>>>, <<1, <<8, 8, 5, 6, 9>>>>,
     <<1, <<6, 2, 10, 5>>>>, <<1, <<6, 10, 5, 2, 7>>>>}
Planes ==
    {<<4, <<4, 5, 6, 6, 4, 5, 4, 6, 5, 4, 5, 6, 6, 4>>>>,
     <<1, <<5, 5, 5, 6, 5, 6, 5, 5, 8, 6, 6, 8, 8, 5>>>>,
     <<4, <<10, 1, 1, 6, 6, 10, 10, 6, 10, 10, 6, 6, 6, 10>>>>,
     <<3, <<6, 5, 6, 6, 5, 6, 7, 6, 5, 5, 5, 6, 6, 6>>>>,
     <<2, <<6, 6, 5, 5, 9, 9, 6, 5, 6, 5, 5, 5, 5, 5>>>>,
     <<3, <<5, 6, 5, 6, 5, 5, 6, 5, 5, 6, 5, 10, 6, 6>>>>,
     <<4, <<6, 5, 6, 6, 6, 5, 3, 6, 6, 6, 6, 6, 3, 6>>>>,
     <<3, <<6, 3, 6, 6, 6, 6, 5, 6, 6, 5>>>>}

Ordinary == {<<i, <<p, 7, p>>>> : i \in 1..4, p \in {2, 3, 4, 5}}

FrameOf(f, format) ==
    With(SomeSides[f[1]], format, FlattenSeq([n \in DOMAIN f[2] |-> SomePairs[f[2][n]]]))
SomeFrames ==
    {FrameOf(f, Short) : f \in Waiting \cup Ending \cup Filled \cup Ordinary}
        \cup {FrameOf(f, Large) : f \in Planes}

SomeDamages == {[at |-> i, byte |-> 255] : i \in {1, 4, 8, 13, 18, 20}}
                   \cup {[at |-> i, byte |-> 0] : i \in {2, 17, 19}}
=============================================================================
