--------------------------- MODULE RoomMembership ----------------------------
(***************************************************************************)
(* What a room promises about sessions.  A session is unknown until a POST *)
(* registers it, a member once its hello is served, leaving while its name *)
(* is still shown after its removal, and gone for good afterwards.  One    *)
(* session is registered or joins at a time; many may depart in one step,  *)
(* since the receive loop purges and sweeps in batches.                    *)
(***************************************************************************)
CONSTANT Ids
VARIABLE phase

Phases == {"unknown", "registered", "member", "leaving", "gone"}

Arrivals == {<<"unknown", "registered">>, <<"registered", "member">>}

Departures == {<<"registered", "gone">>, <<"member", "leaving">>,
               <<"member", "gone">>, <<"leaving", "gone">>}

TypeOK == phase \in [Ids -> Phases]

Init == phase = [id \in Ids |-> "unknown"]

Arrive(id) ==
  \E to \in Phases :
    /\ <<phase[id], to>> \in Arrivals
    /\ phase' = [phase EXCEPT ![id] = to]

Depart(S) ==
  \E to \in [S -> Phases] :
    /\ \A id \in S : <<phase[id], to[id]>> \in Departures
    /\ phase' = [id \in Ids |-> IF id \in S THEN to[id] ELSE phase[id]]

Next == \/ \E id \in Ids : Arrive(id)
        \/ \E S \in SUBSET Ids : Depart(S)

Spec == Init /\ [][Next]_phase
=============================================================================
