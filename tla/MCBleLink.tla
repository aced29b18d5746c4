----------------------------- MODULE MCBleLink -----------------------------
(* A small instance for TLC of what passes between phone and glasses: the   *)
(* requests of BleRequests and the audio frames of Lc3Frame.  They share no *)
(* state and each moves while the other is at rest.                         *)
(*                                                                          *)
(* Two requests compete for the same command on the left leg, across two    *)
(* connections; the right leg may come and go.  The frames are those of     *)
(* MCLc3Frame.                                                              *)
EXTENDS BleRequests, MCLc3Frame

CONSTANTS r1, r2

SameCommand == [r \in Requests |-> [side |-> "L", command |-> 1]]

AnyFrame == CHOOSE f \in {Analysed(x) : x \in Frames} : TRUE
FrameRests == frame = AnyFrame /\ stage = "encoding" /\ UNCHANGED frameVars

LinkInit == BleInit /\ FrameInit

LinkNext ==
    \/ FrameRests /\ BleNext
    \/ BleInit /\ FrameNext /\ UNCHANGED bleVars

LinkSpec == LinkInit /\ [][LinkNext]_<<bleVars, frameVars>> /\ BleFairness
=============================================================================
