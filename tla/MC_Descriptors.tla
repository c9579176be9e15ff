---------------------------- MODULE MC_Descriptors ----------------------------
(* A small vector in a small process, for TLC.                                  *)
EXTENDS Descriptors, TLC

CONSTANTS home, office, listener, hall

Swaps == Permutations({home, office}) \cup Permutations({listener, hall})
=============================================================================
