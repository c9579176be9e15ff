--------------------------- MODULE MC_VideoStreaming ---------------------------
(* A streamer and a viewer, one client that switches, on either platform, and a  *)
(* room with a repeated datagram, for TLC.                                       *)
EXTENDS VideoStreaming, TLC

CONSTANTS streamer, viewer

Two == (streamer :> {"stream"}) @@ (viewer :> {"view"})
Alone == (streamer :> {"stream", "view"}) @@ (viewer :> {})

Evenings ==
  {[kinds |-> Two, starts |-> 1, linux |-> {}, duplicates |-> 0],
   [kinds |-> Alone, starts |-> 2, linux |-> {}, duplicates |-> 0],
   [kinds |-> Alone, starts |-> 2, linux |-> {streamer}, duplicates |-> 0],
   [kinds |-> Alone, starts |-> 1, linux |-> {}, duplicates |-> 1]}
================================================================================
