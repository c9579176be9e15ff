--------------------------- MODULE MC_VoiceServer ----------------------------
(* Small rooms for TLC.                                                    *)
EXTENDS VoiceServer, TLC

CONSTANTS i1, i2, i3, a1, a2, a3

OwnAddress == i1 :> a1 @@ i2 :> a2
TwoShare == i1 :> a1 @@ i2 :> a2 @@ i3 :> a1

TwoNames == i1 :> "ann" @@ i2 :> "bob"
ThreeNames == i1 :> "ann" @@ i2 :> "bob" @@ i3 :> "ann"
=============================================================================
