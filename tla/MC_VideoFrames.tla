---------------------------- MODULE MC_VideoFrames ----------------------------
(* No chunk, one, two full ones, and three of which the last is short.         *)
EXTENDS VideoFrames

FrameSizes == {0, 2, 4, 5}
=============================================================================
