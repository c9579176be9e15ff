------------------------------- MODULE MC_Room --------------------------------
(* Small sets of rooms and HTTP threads for TLC.                             *)
EXTENDS Room, TLC

CONSTANTS r1, r2, h1, h2, h3

\* Threads are interchangeable, and so are rooms.
Symmetry == Permutations(Threads) \cup Permutations(Rooms)
=============================================================================
