------------------------ MODULE MC_NotificationsServer ------------------------
(* Small notification servers for TLC: many listeners and a shuffled vector, two *)
(* listeners and everybody at the mutexes, one listener and many bytes.          *)
EXTENDS NotificationsServer, TLC

CONSTANTS i1, i2, i3, c1, c2, c3

OneEach == c1 :> i1 @@ c2 :> i2 @@ c3 :> i3

Rooms ==
  {[ids |-> {i1, i2, i3}, patch |-> {}, conns |-> {c1, c2, c3}, junk |-> {i1, Garbage},
    pushes |-> 0, removes |-> 2],
   [ids |-> {i1, i2}, patch |-> {i1, i2}, conns |-> {c1, c2}, junk |-> {i1},
    pushes |-> 2, removes |-> 2],
   [ids |-> {i1, i2}, patch |-> {i2}, conns |-> {c1}, junk |-> {Garbage},
    pushes |-> 8, removes |-> 1]}

\* Positions say what SelectSeq says by recursion.
ASSUME ErasedIsSelectSeq ==
  \A n \in 0..4 : \A s \in [1..n -> 1..3] : \A x \in 1..3 :
    Erased(s, {k \in DOMAIN s : s[k] = x}) = SelectSeq(s, LAMBDA e : e # x)
=============================================================================
