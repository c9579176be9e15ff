------------------------------ MODULE MC_Process ------------------------------
(* Two instances and two hotkeys, for TLC.                                      *)
EXTENDS Process

CONSTANTS other, home, quiet, full, mute, fix

\* Two instances on Linux, where there are no hotkeys, or one on Windows.
Evenings == {
  [platform |-> "Linux", starts |-> 2, presses |-> 0, changes |-> 1, loads |-> 1],
  [platform |-> "Windows", starts |-> 1, presses |-> 1, changes |-> 0, loads |-> 0]}
===============================================================================
