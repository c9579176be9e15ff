----------------------------- MODULE MC_Updater ------------------------------
(* Three files, one of them the library, and two releases, for TLC.          *)
EXTENDS Updater

FileNames == {"exe", "library", "resources"}
LibraryName == "library"
Executable == {"exe"}
=============================================================================
