------------------------------ MODULE MC_Client ------------------------------
(* One client and its server, for TLC.                                        *)
EXTENDS Client, TLC

CONSTANTS hall, den

SwapRooms == Permutations({hall, den})
=============================================================================
