------------------------------ MODULE MCFeeder ------------------------------
(***************************************************************************)
(* TLC instances of Feeder: small files.                                   *)
(***************************************************************************)
EXTENDS Feeder

Sps    == <<0, 0, 0, 1, 103, 1>>
Pps    == <<0, 0, 0, 1, 104, 5>>
PoorSps == <<0, 0, 0, 1, 103, 4>>
Sei    == <<0, 0, 1, 6, 5, 4>>
Ending == <<0, 0, 1, 6, 5, 128>>    \* SEI that ends a frame if one has begun
Aud    == <<0, 0, 0, 1, 9, 16>>
Idr    == <<0, 0, 1, 101, 136, 7, 0>>
Slice  == <<0, 0, 1, 65, 154, 4>>   \* P, shown two frames after the I picture
Before == <<0, 0, 1, 1, 158, 2>>    \* B, shown one frame after it
Quiet  == <<0, 0, 1, 65, 96>>       \* no byte of 0x80 or more

\* Parameter sets first, a poor SPS before the good one; frames of one to three units;
\* SEI that stay out of them, one of which ends a frame; a picture sent after one that
\* is shown later.
GoodFile ==
    PoorSps \o Sps \o Ending \o Pps \o Aud \o Idr \o Quiet \o Quiet \o Sei \o Slice \o Before
        \o Quiet \o Ending

\* A long frame before a short one.
LongShortFile == Sps \o Pps \o Aud \o Idr \o Slice

\* Both are what the theorems about files suppose, and the sets are in front.
ASSUME FileAsMeant ==
    PlayableFile /\ RepeatableFile /\ SetsAreRead /\ SetsInFront(FileNals)
=============================================================================
