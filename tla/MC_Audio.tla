------------------------------- MODULE MC_Audio -------------------------------
(* Lives with commands, and lives with packets, for TLC.                      *)
EXTENDS Audio

Bounds == {[commands |-> 2, fixes |-> 0, packets |-> 0],
           [commands |-> 0, fixes |-> 1, packets |-> 3]}
=============================================================================
