-------------------------- MODULE VoiceServer_proofs --------------------------
(***************************************************************************)
(* Proofs about VoiceServer, for any number of sessions and addresses, any *)
(* sharing of addresses, and any bounds.                                   *)
(***************************************************************************)
EXTENDS VoiceServer, TLAPS, WellFoundedInduction

-----------------------------------------------------------------------------
(* Type correctness.                                                       *)

LEMMA TypeInit == Init => TypeOK
<1> SUFFICES ASSUME Init PROVE TypeOK
  OBVIOUS
<1>1. Hub!TypeOK
  BY DEF Init, Hub!Init, Hub!TypeOK
<1> QED
  BY <1>1, ConstantsAssumption DEF Init, InHand, TypeOK, ConstantsAssumption


\* Every action but Receive keeps the packet's type: it leaves the packet alone or
\* forgets it.  Receive builds one from an id that was issued.
LEMMA ReceiveType ==
  ASSUME TypeOK, Receive
  PROVE  TypeOK'
<1> USE ConstantsAssumption DEF ConstantsAssumption
<1>1. Hub!TypeOK'
  BY DEF TypeOK, Receive, hub, Hub!TypeOK
<1>2. packet' \in Packet
  BY DEF TypeOK, Receive, ReceiveHello, ReceiveEcho, ReceiveVoice, ReceiveError, Packet
<1>3. hellos' \in [Ids -> Nat] /\ echoes' \in [Ids -> Nat] /\ errors' \in Nat
  BY DEF TypeOK, Receive, ReceiveHello, ReceiveEcho, ReceiveVoice, ReceiveError, traffic
<1> QED
  BY <1>1, <1>2, <1>3 DEF TypeOK, Receive, http, InHand

LEMMA PacketFields ==
  ASSUME TypeOK, InHand
  PROVE  /\ packet.at \in Nat
         /\ packet.kind \in {"hello", "echo", "voice", "error"}
         /\ packet.kind # "error" => packet.id \in Ids /\ packet.addr \in Addrs
BY DEF TypeOK, Packet

\* Updating an entry in place keeps it an entry.
LEMMA EntryUpdates ==
  ASSUME NEW e \in Entry
  PROVE  /\ [e EXCEPT !.named = TRUE] \in Entry
         /\ [e EXCEPT !.echo = ~@] \in Entry
         /\ \A t \in Nat : [e EXCEPT !.alive = t] \in Entry
BY DEF Entry

LEMMA TypeStep == TypeOK /\ [Next]_vars => TypeOK'
<1> SUFFICES ASSUME TypeOK, [Next]_vars PROVE TypeOK'
  OBVIOUS
<1> USE ConstantsAssumption DEF ConstantsAssumption, TypeOK, InHand, traffic, http, hub
<1>1. ASSUME NEW id \in Ids, Post(id) PROVE TypeOK'
  BY <1>1 DEF Post, Hub!TypeOK
<1>2. ASSUME NEW id \in Ids, TakePending(id) PROVE TypeOK'
  BY <1>2 DEF TakePending, Hub!TypeOK
<1>3. ASSUME NEW id \in Ids, QueueDisconnected(id) PROVE TypeOK'
  BY <1>3 DEF QueueDisconnected, Hub!TypeOK
<1>4. ASSUME NEW id \in Ids, Patch(id) PROVE TypeOK'
  BY <1>4 DEF Patch, Hub!TypeOK, Hub!Push
<1>5. ASSUME NEW id \in Ids, Listen(id) PROVE TypeOK'
  BY <1>5 DEF Listen, Hub!TypeOK, Hub!Connect, Hub!Stray
<1>6. CASE PostVideo
  BY <1>6 DEF PostVideo, Hub!TypeOK
<1>7. CASE TellListeners
  BY <1>7 DEF TellListeners, Hub!TypeOK, Hub!Flush
<1>8. CASE Tick
  BY <1>8 DEF Tick, Hub!TypeOK
<1>9. CASE Receive
  BY <1>9, ReceiveType
<1>10. CASE SkipPurge
  BY <1>10 DEF SkipPurge, Hub!TypeOK
<1>11. CASE Purge
  BY <1>11 DEF Purge, Hub!TypeOK, Hub!Drop
<1>12. CASE Sweep
  BY <1>12 DEF Sweep, Hub!TypeOK, Hub!Drop, Without
<1>13. CASE ServeError
  BY <1>13 DEF ServeError, Hub!TypeOK, Hub!Drop, Without
<1>14. CASE ServeHello
  <2>1. packet.id \in Ids /\ packet.addr \in Addrs
    BY <1>14, PacketFields DEF ServeHello, InHand
  <2>2. clients' \subseteq Entry
    <3> DEFINE new == [slot |-> served', addr |-> packet.addr, id |-> packet.id,
                       named |-> FALSE, echo |-> FALSE, alive |-> 0]
    <3>1. served' \in Nat
      BY <1>14 DEF ServeHello
    <3>2. new \in Entry
      BY <2>1, <3>1 DEF Entry
    <3>3. clients' = clients \cup {new}
      BY <1>14 DEF ServeHello
    <3> QED
      BY <3>2, <3>3
  <2> QED
    BY <1>14, <2>2 DEF ServeHello, Hub!TypeOK
<1>15. CASE HelloReplyFails
  BY <1>15 DEF HelloReplyFails, Hub!TypeOK
<1>16. CASE Lookup
  <2>1. clients' \subseteq Entry
    <3>1. \A e \in clients' : \E f \in clients : e \in {f, [f EXCEPT !.named = TRUE]}
      BY <1>16 DEF Lookup, Registered, WithAddress, WithName
    <3>2. \A f \in clients : f \in Entry /\ [f EXCEPT !.named = TRUE] \in Entry
      BY EntryUpdates
    <3> QED
      BY <3>1, <3>2
  <2>2. pendingClients' \in [Ids -> Addrs \cup {ZeroAddr, None}]
    BY <1>16, PacketFields DEF Lookup, Registered, WithAddress, WithName, InHand
  <2> QED
    BY <1>16, <2>1, <2>2 DEF Lookup, Registered, WithAddress, WithName, Hub!TypeOK, Finish
<1>17. CASE ServeEcho
  <2>1. clients' \subseteq Entry
    <3>1. \A e \in clients' : \E f \in clients : e \in {f, [f EXCEPT !.echo = ~@]}
      BY <1>17 DEF ServeEcho
    <3>2. \A f \in clients : f \in Entry /\ [f EXCEPT !.echo = ~@] \in Entry
      BY EntryUpdates
    <3> QED
      BY <3>1, <3>2
  <2> QED
    BY <1>17, <2>1 DEF ServeEcho, Hub!TypeOK, Finish
<1>18. CASE ServeVoice
  <2>1. clients' \subseteq Entry
    <3>1. packet.at \in Nat
      BY <1>18, PacketFields DEF ServeVoice, InHand
    <3>2. \A e \in clients' : \E f \in clients : e \in {f, [f EXCEPT !.alive = packet.at]}
      BY <1>18 DEF ServeVoice
    <3>3. \A f \in clients : f \in Entry /\ [f EXCEPT !.alive = packet.at] \in Entry
      BY EntryUpdates, <3>1
    <3> QED
      BY <3>2, <3>3
  <2> QED
    BY <1>18, <2>1 DEF ServeVoice, Hub!TypeOK, Finish
<1>19. CASE UNCHANGED vars
  BY <1>19 DEF vars, Hub!TypeOK
<1> QED
  BY <1>1, <1>2, <1>3, <1>4, <1>5, <1>6, <1>7, <1>8, <1>9, <1>10, <1>11, <1>12,
     <1>13, <1>14, <1>15, <1>16, <1>17, <1>18, <1>19 DEF Next, Serve

\* Every variable keeps its type, for every size of the room.
THEOREM TypeCorrect == Spec => []TypeOK
BY TypeInit, TypeStep, PTL DEF Spec

-----------------------------------------------------------------------------
(* The inductive invariant.  Most actions touch one table; the six lemmas  *)
(* are about the actions that touch several, or the vector.                *)

LEMMA InvInit == Init => Inv
<1> SUFFICES ASSUME Init PROVE Inv
  OBVIOUS
<1>1. TypeOK
  BY TypeInit
<1> QED
  BY <1>1 DEF Init, Inv, TablesOK, PacketOK, EntriesOK, OneEntryPerHello,
     NamelessIsRemoved, Removable, InHand

\* A hello in hand is counted, so a session that already has an entry has two.
LEMMA ReceiveInv ==
  ASSUME Inv, TypeOK', Receive
  PROVE  Inv'
<1> USE DEF Inv, TypeOK, InHand, Newest, traffic, http
<1>1. /\ pc = "recv" /\ pc' = "check"
      /\ UNCHANGED <<clients, pendingClients, disconnectedClients, removing, issued, served>>
  BY DEF Receive
<1>2. \A id \in Ids : \/ hellos'[id] = hellos[id]
                      \/ /\ hellos'[id] = hellos[id] + 1
                         /\ id \in issued
  BY DEF Receive, ReceiveHello, ReceiveEcho, ReceiveVoice, ReceiveError
<1>3. TablesOK'
  BY <1>1, <1>2 DEF TablesOK
<1>4. PacketOK'
  BY <1>1 DEF Receive, ReceiveHello, ReceiveEcho, ReceiveVoice, ReceiveError, PacketOK,
              TablesOK
<1>5. EntriesOK' /\ NamelessIsRemoved' /\ Removable'
  <2>1. \A e \in clients : e.id \in Ids
    BY DEF Entry
  <2>2. \A e \in clients : hellos'[e.id] >= hellos[e.id]
    BY <1>2, <2>1
  <2> QED
    BY <1>1, <2>1, <2>2 DEF EntriesOK, NamelessIsRemoved, Removable
<1>6. OneEntryPerHello'
  <2>1. \A e \in clients : e.id \in Ids /\ hellos[e.id] > 0
    BY DEF Entry, EntriesOK
  <2>2. packet'.kind = "hello" => hellos'[packet'.id] = hellos[packet'.id] + 1
    BY DEF Receive, ReceiveHello, ReceiveEcho, ReceiveVoice, ReceiveError
  <2>3. \A e \in clients : hellos'[e.id] <= 1 => hellos[e.id] <= 1
    BY <1>2, <2>1
  <2> QED
    BY <1>1, <2>1, <2>2, <2>3 DEF OneEntryPerHello
<1> QED
  BY <1>3, <1>4, <1>5, <1>6

\* What a sweep or an error takes out of the vector, it takes with its session's
\* address; a session it does not concern keeps both.
LEMMA SweepInv ==
  ASSUME Inv, TypeOK', Sweep
  PROVE  Inv'
<1> USE ConstantsAssumption DEF ConstantsAssumption, Inv, TypeOK, InHand, Newest, traffic, http
<1>1. /\ clients' = clients \ Stale
      /\ pc = "sweep" /\ pc' = "dispatch"
      /\ UNCHANGED <<disconnectedClients, removing, issued, served, hellos, packet>>
  BY DEF Sweep
<1>2. \A id \in Ids : \/ pendingClients'[id] = pendingClients[id]
                      \/ /\ pendingClients'[id] = None
                         /\ \E f \in Stale : f.id = id
  BY DEF Sweep, Without
<1>3. \A e \in clients : e.id \in Ids /\ e.addr \in Addrs
  BY DEF Entry
<1>4. TablesOK' /\ PacketOK' /\ OneEntryPerHello'
  BY <1>1, <1>2 DEF TablesOK, PacketOK, OneEntryPerHello
<1>5. EntriesOK' /\ NamelessIsRemoved'
  BY <1>1, <1>2, <1>3 DEF EntriesOK, NamelessIsRemoved
<1>6. Removable'
  <2> SUFFICES ASSUME NEW e \in clients', e.named, Unshared(e.id), hellos[e.id] <= 1
               PROVE  pendingClients'[e.id] = pendingClients[e.id]
    BY <1>1, <1>3 DEF Removable, Unshared
  <2>1. \A f \in Stale : f.id # e.id
    BY <1>1 DEF OneEntryPerHello, Stale
  <2> QED
    BY <1>1, <1>2, <1>3, <2>1
<1> QED
  BY <1>4, <1>5, <1>6

LEMMA ServeErrorInv ==
  ASSUME Inv, TypeOK', ServeError
  PROVE  Inv'
<1> USE ConstantsAssumption DEF ConstantsAssumption, Inv, TypeOK, InHand, Newest, traffic, http
<1>1. /\ clients' = {e \in clients : e.addr # packet.addr}
      /\ pc = "dispatch" /\ pc' \in {"off", "recv"}
      /\ UNCHANGED <<disconnectedClients, removing, issued, served, hellos>>
  BY DEF ServeError, At
<1>2. \A id \in Ids : \/ pendingClients'[id] = pendingClients[id]
                      \/ /\ pendingClients'[id] = None
                         /\ \E f \in clients : f.addr = packet.addr /\ f.id = id
  BY DEF ServeError, Without, FirstIds, IsFirst, At
<1>3. \A e \in clients : e.id \in Ids /\ e.addr \in Addrs
  BY DEF Entry
<1>4. TablesOK' /\ PacketOK' /\ OneEntryPerHello'
  BY <1>1, <1>2 DEF TablesOK, PacketOK, OneEntryPerHello
<1>5. EntriesOK' /\ NamelessIsRemoved'
  BY <1>1, <1>2, <1>3 DEF EntriesOK, NamelessIsRemoved
<1>6. Removable'
  <2> SUFFICES ASSUME NEW e \in clients'
               PROVE  pendingClients'[e.id] = pendingClients[e.id]
    BY <1>1, <1>3 DEF Removable, Unshared
  <2>1. \A f \in clients : f.id = e.id => f.addr # packet.addr
    BY <1>1 DEF EntriesOK
  <2> QED
    BY <1>1, <1>2, <1>3, <2>1
<1> QED
  BY <1>4, <1>5, <1>6

\* The entry a hello adds is nameless, at a position of its own, and the first
\* one of its session unless the hello was duplicated.
LEMMA ServeHelloInv ==
  ASSUME Inv, TypeOK', ServeHello
  PROVE  Inv'
<1> USE DEF Inv, TypeOK, InHand, Newest, traffic, http
<1> DEFINE new == [slot |-> served', addr |-> packet.addr, id |-> packet.id,
                   named |-> FALSE, echo |-> FALSE, alive |-> 0]
<1>1. /\ clients' = clients \cup {new}
      /\ served' = served + 1
      /\ pc = "dispatch" /\ pc' = "lookup"
      /\ packet.kind = "hello"
      /\ UNCHANGED <<pendingClients, disconnectedClients, removing, issued, hellos, packet>>
  BY DEF ServeHello
<1>2. /\ new.slot = served' /\ new.id = packet.id /\ new.addr = packet.addr
      /\ ~new.named
  OBVIOUS
<1>3. \A e \in clients : e.slot \in Nat /\ e.slot <= served
  BY DEF Entry, EntriesOK
<1> HIDE DEF new
<1>4. \A e \in clients' : e.slot = served' => e = new
  BY <1>1, <1>3
<1>5. TablesOK'
  BY <1>1 DEF TablesOK
<1>6. PacketOK'
  BY <1>1, <1>2, <1>4 DEF PacketOK
<1>7. EntriesOK'
  <2>1. \A e \in clients' : /\ e.addr = AddrOf[e.id] /\ hellos[e.id] > 0
                            /\ e.named => pendingClients[e.id] # ZeroAddr
    BY <1>1, <1>2 DEF EntriesOK, PacketOK
  <2>2. \A e \in clients' : e.slot <= served'
    BY <1>1, <1>2, <1>3
  <2>3. \A e, f \in clients' : e.slot = f.slot => e = f
    BY <1>1, <1>2, <1>3, <1>4 DEF EntriesOK
  <2> QED
    BY <1>1, <2>1, <2>2, <2>3 DEF EntriesOK
<1>8. OneEntryPerHello'
  <2>1. \A e \in clients : e.id = new.id => hellos[e.id] > 1
    BY <1>1, <1>2 DEF OneEntryPerHello
  <2>2. \A e, f \in clients : e.id = f.id /\ hellos[e.id] <= 1 => e = f
    BY DEF OneEntryPerHello
  <2>3. \A e \in clients : e.id \in Ids
    BY DEF Entry
  <2> QED
    BY <1>1, <2>1, <2>2, <2>3 DEF OneEntryPerHello
<1>9. NamelessIsRemoved' /\ Removable'
  BY <1>1, <1>2 DEF NamelessIsRemoved, Removable, Unshared
<1> QED
  BY <1>5, <1>6, <1>7, <1>8, <1>9

\* The lookup names its own entry together with writing the session's address.
LEMMA LookupInv ==
  ASSUME Inv, TypeOK', Lookup
  PROVE  Inv'
<1> USE ConstantsAssumption DEF ConstantsAssumption, Inv, TypeOK, InHand, traffic, http
<1>1. /\ pc = "lookup" /\ pc' \in {"recv", "dead"}
      /\ packet.id \in Ids /\ packet.addr \in Addrs /\ packet.addr = AddrOf[packet.id]
      /\ packet.id \in issued
      /\ UNCHANGED <<disconnectedClients, removing, issued, served, hellos>>
  BY PacketFields DEF Lookup, Registered, WithAddress, WithName, Finish, PacketOK
<1>2. CASE pendingClients[packet.id] = None
  <2>1. UNCHANGED <<clients, pendingClients>>
    BY <1>2 DEF Lookup, Registered, WithAddress, WithName
  <2>2. TablesOK' /\ PacketOK' /\ EntriesOK' /\ OneEntryPerHello' /\ Removable'
    BY <1>1, <2>1 DEF TablesOK, PacketOK, EntriesOK, OneEntryPerHello, Removable, Unshared
  <2>3. NamelessIsRemoved'
    BY <1>1, <1>2, <2>1 DEF NamelessIsRemoved, PacketOK
  <2> QED
    BY <2>2, <2>3
<1>3. CASE pendingClients[packet.id] # None
  <2> DEFINE U(e) == IF Newest(e) THEN [e EXCEPT !.named = TRUE] ELSE e
  <2>1. /\ pendingClients' = [pendingClients EXCEPT ![packet.id] = packet.addr]
        /\ clients' = {U(e) : e \in clients}
    BY <1>3 DEF Lookup, Registered, WithAddress, WithName
  <2>2. \A e \in clients : /\ U(e).slot = e.slot /\ U(e).id = e.id /\ U(e).addr = e.addr
                           /\ U(e).named <=> e.named \/ Newest(e)
    BY DEF Entry
  <2>3. \A f \in clients' : \E e \in clients : f = U(e)
    BY <2>1
  <2>4. \A e \in clients : e.id \in Ids
    BY DEF Entry
  <2> HIDE DEF U
  <2>5. TablesOK' /\ PacketOK'
    BY <1>1, <1>3, <2>1 DEF TablesOK, PacketOK
  <2>6. EntriesOK'
    <3>1. \A f \in clients' : /\ f.addr = AddrOf[f.id] /\ f.slot <= served
                              /\ hellos[f.id] > 0
      BY <2>2, <2>3 DEF EntriesOK
    <3>2. \A f \in clients' : f.named => pendingClients'[f.id] # ZeroAddr
      BY <1>1, <2>1, <2>2, <2>3, <2>4 DEF EntriesOK, PacketOK
    <3>3. \A f, g \in clients' : f.slot = g.slot => f = g
      BY <2>2, <2>3 DEF EntriesOK
    <3> QED
      BY <1>1, <3>1, <3>2, <3>3 DEF EntriesOK
  <2>7. OneEntryPerHello'
    BY <1>1, <2>2, <2>3 DEF OneEntryPerHello
  <2>8. NamelessIsRemoved'
    BY <1>1, <1>3, <2>1, <2>2, <2>3, <2>4 DEF NamelessIsRemoved
  <2>9. Removable'
    BY <1>1, <2>1, <2>2, <2>3, <2>4 DEF Removable, Unshared, PacketOK, EntriesOK
  <2> QED
    BY <2>5, <2>6, <2>7, <2>8, <2>9
<1> QED
  BY <1>2, <1>3

\* Echo and voice packets rewrite one entry in place, and neither its session, its
\* address, its position nor its name.
LEMMA ServeEchoInv ==
  ASSUME Inv, TypeOK', ServeEcho
  PROVE  Inv'
<1> USE DEF Inv, TypeOK, InHand, traffic, http
<1> DEFINE U(e) == IF IsFirst(e, packet.addr) THEN [e EXCEPT !.echo = ~@] ELSE e
<1>1. /\ clients' = {U(e) : e \in clients}
      /\ pc = "dispatch" /\ pc' \in {"recv", "dead"}
      /\ UNCHANGED <<pendingClients, disconnectedClients, removing, issued, served, hellos>>
  BY DEF ServeEcho, Finish
<1>2. \A e \in clients : /\ U(e).slot = e.slot /\ U(e).id = e.id /\ U(e).addr = e.addr
                         /\ U(e).named = e.named
  BY DEF Entry
<1>3. \A f \in clients' : \E e \in clients : f = U(e)
  BY <1>1
<1> HIDE DEF U
<1>4. TablesOK' /\ PacketOK'
  BY <1>1 DEF TablesOK, PacketOK
<1>5. EntriesOK'
  BY <1>1, <1>2, <1>3 DEF EntriesOK
<1>6. OneEntryPerHello'
  BY <1>1, <1>2, <1>3 DEF OneEntryPerHello
<1>7. NamelessIsRemoved'
  BY <1>1, <1>2, <1>3 DEF NamelessIsRemoved, Newest
<1>8. Removable'
  BY <1>1, <1>2, <1>3 DEF Removable, Unshared
<1> QED
  BY <1>4, <1>5, <1>6, <1>7, <1>8

LEMMA ServeVoiceInv ==
  ASSUME Inv, TypeOK', ServeVoice
  PROVE  Inv'
<1> USE DEF Inv, TypeOK, InHand, traffic, http
<1> DEFINE U(e) == IF IsFirst(e, packet.addr) THEN [e EXCEPT !.alive = packet.at] ELSE e
<1>1. /\ clients' = {U(e) : e \in clients}
      /\ pc = "dispatch" /\ pc' \in {"recv", "dead"}
      /\ UNCHANGED <<pendingClients, disconnectedClients, removing, issued, served, hellos>>
  BY DEF ServeVoice, Finish
<1>2. \A e \in clients : /\ U(e).slot = e.slot /\ U(e).id = e.id /\ U(e).addr = e.addr
                         /\ U(e).named = e.named
  BY DEF Entry
<1>3. \A f \in clients' : \E e \in clients : f = U(e)
  BY <1>1
<1> HIDE DEF U
<1>4. TablesOK' /\ PacketOK'
  BY <1>1 DEF TablesOK, PacketOK
<1>5. EntriesOK'
  BY <1>1, <1>2, <1>3 DEF EntriesOK
<1>6. OneEntryPerHello'
  BY <1>1, <1>2, <1>3 DEF OneEntryPerHello
<1>7. NamelessIsRemoved'
  BY <1>1, <1>2, <1>3 DEF NamelessIsRemoved, Newest
<1>8. Removable'
  BY <1>1, <1>2, <1>3 DEF Removable, Unshared
<1> QED
  BY <1>4, <1>5, <1>6, <1>7, <1>8

LEMMA InvStep == Inv /\ [Next]_vars => Inv'
<1> SUFFICES ASSUME Inv, [Next]_vars PROVE Inv'
  OBVIOUS
<1>0. TypeOK'
  BY TypeStep DEF Inv
<1>1. CASE Receive
  BY <1>0, <1>1, ReceiveInv
<1>2. CASE Sweep
  BY <1>0, <1>2, SweepInv
<1>3. CASE ServeError
  BY <1>0, <1>3, ServeErrorInv
<1>4. CASE ServeHello
  BY <1>0, <1>4, ServeHelloInv
<1>5. CASE Lookup
  BY <1>0, <1>5, LookupInv
<1>6. CASE ServeEcho
  BY <1>0, <1>6, ServeEchoInv
<1>7. CASE ServeVoice
  BY <1>0, <1>7, ServeVoiceInv
<1> USE <1>0, ConstantsAssumption
    DEF ConstantsAssumption, Inv, TypeOK, InHand, TablesOK, PacketOK, EntriesOK,
        OneEntryPerHello, NamelessIsRemoved, Removable, Unshared, Newest, traffic, http
<1>8. ASSUME NEW id \in Ids, Post(id) PROVE Inv'
  BY <1>8 DEF Post
<1>9. ASSUME NEW id \in Ids, TakePending(id) PROVE Inv'
  BY <1>9 DEF TakePending
<1>10. ASSUME NEW id \in Ids, QueueDisconnected(id) PROVE Inv'
  BY <1>10 DEF QueueDisconnected
<1>11. ASSUME NEW id \in Ids, Patch(id) PROVE Inv'
  BY <1>11 DEF Patch
<1>12. ASSUME NEW id \in Ids, Listen(id) PROVE Inv'
  BY <1>12 DEF Listen
<1>13. CASE PostVideo
  BY <1>13 DEF PostVideo
<1>14. CASE TellListeners
  BY <1>14 DEF TellListeners
<1>15. CASE Tick
  BY <1>15 DEF Tick
<1>16. CASE SkipPurge
  BY <1>16 DEF SkipPurge
<1>17. CASE Purge
  BY <1>17 DEF Purge
<1>18. CASE HelloReplyFails
  BY <1>18 DEF HelloReplyFails
<1>19. CASE UNCHANGED vars
  BY <1>19 DEF vars
<1> QED
  BY <1>1, <1>2, <1>3, <1>4, <1>5, <1>6, <1>7, <1>8, <1>9, <1>10, <1>11, <1>12, <1>13, <1>14, <1>15, <1>16, <1>17, <1>18, <1>19 DEF Next, Serve

\* The inductive invariant holds of every room.
THEOREM Invariant == Spec => []Inv
BY InvInit, InvStep, PTL DEF Spec

\* A client that GET lists by name can be taken off the list, for any number of
\* sessions: no order of POST, DELETE, hello, purge and sweep strands it.
THEOREM RemovableAlways == Spec => []Removable
<1>1. Inv => Removable
  BY DEF Inv
<1> QED
  BY <1>1, Invariant, PTL

\* The empty names GET can show are those of sessions already removed, or of the one
\* whose hello is being served.
THEOREM NamelessAlways == Spec => []NamelessIsRemoved
<1>1. Inv => NamelessIsRemoved
  BY DEF Inv
<1> QED
  BY <1>1, Invariant, PTL

-----------------------------------------------------------------------------
(* VoiceServer implements RoomMembership under `phase`.                    *)

Listed(id) == \E e \in clients : e.id = id /\ e.named

LEMMA PhaseOf ==
  ASSUME NEW id \in Ids
  PROVE  phase[id] = IF id \notin issued THEN "unknown"
                     ELSE IF pendingClients[id] = ZeroAddr THEN "registered"
                     ELSE IF pendingClients[id] # None THEN "member"
                     ELSE IF Listed(id) THEN "leaving"
                     ELSE "gone"
BY DEF phase, Listed, Entries

\* The same in the next state.
LEMMA PhaseOfNext ==
  ASSUME NEW id \in Ids
  PROVE  phase'[id] = IF id \notin issued' THEN "unknown"
                      ELSE IF pendingClients'[id] = ZeroAddr THEN "registered"
                      ELSE IF pendingClients'[id] # None THEN "member"
                      ELSE IF Listed(id)' THEN "leaving"
                      ELSE "gone"
BY DEF phase, Listed, Entries

\* Any number of sessions may depart in one step.
LEMMA ManyDepart ==
  ASSUME \A id \in Ids : \/ phase'[id] = phase[id]
                         \/ <<phase[id], phase'[id]>> \in Membership!Departures
  PROVE  [Membership!Next]_phase
<1> DEFINE S == {id \in Ids : phase'[id] # phase[id]}
           to == [id \in S |-> phase'[id]]
<1>1. phase = [id \in Ids |-> phase[id]] /\ phase' = [id \in Ids |-> phase'[id]]
  BY DEF phase
<1>2. \A id \in S : <<phase[id], to[id]>> \in Membership!Departures
  OBVIOUS
<1>3. to \in [S -> Membership!Phases]
  BY <1>2 DEF Membership!Departures, Membership!Phases
<1>4. phase' = [id \in Ids |-> IF id \in S THEN to[id] ELSE phase[id]]
  BY <1>1
<1>5. Membership!Depart(S)
  BY <1>2, <1>3, <1>4 DEF Membership!Depart
<1> QED
  BY <1>5 DEF Membership!Next

\* Only one session moves, and it moves forward.
LEMMA OneArrives ==
  ASSUME NEW id \in Ids,
         <<phase[id], phase'[id]>> \in Membership!Arrivals,
         \A other \in Ids \ {id} : phase'[other] = phase[other]
  PROVE  [Membership!Next]_phase
<1>1. phase' = [phase EXCEPT ![id] = phase'[id]]
  BY DEF phase
<1>2. phase'[id] \in Membership!Phases
  BY DEF Membership!Arrivals, Membership!Phases
<1>3. Membership!Arrive(id)
  BY <1>1, <1>2 DEF Membership!Arrive
<1> QED
  BY <1>3 DEF Membership!Next

\* A step that only takes sessions out of the two tables is a departure: this covers
\* a DELETE's first half, a purge, a sweep and a receive error.
LEMMA TakingOut ==
  ASSUME Inv, TypeOK', clients' \subseteq clients, issued' = issued,
         \A id \in Ids : pendingClients'[id] \in {pendingClients[id], None}
  PROVE  [Membership!Next]_phase
<1> SUFFICES ASSUME NEW id \in Ids
             PROVE  \/ phase'[id] = phase[id]
                    \/ <<phase[id], phase'[id]>> \in Membership!Departures
  BY ManyDepart
<1>1. Listed(id)' => Listed(id)
  BY DEF Listed
<1>2. pendingClients[id] = ZeroAddr => ~Listed(id)
  BY DEF Inv, EntriesOK, Listed
<1>3. ZeroAddr # None
  BY ConstantsAssumption DEF ConstantsAssumption
<1>4. id \notin issued => pendingClients[id] = None
  BY DEF Inv, TablesOK
<1> QED
  BY <1>1, <1>2, <1>3, <1>4, PhaseOf, PhaseOfNext DEF Membership!Departures

\* A step that leaves the tables and the names alone is not seen by the users.
LEMMA Unseen ==
  ASSUME UNCHANGED <<pendingClients, issued>>,
         \A id \in Ids : Listed(id)' = Listed(id)
  PROVE  [Membership!Next]_phase
<1>1. \A id \in Ids : phase'[id] = phase[id]
  BY PhaseOf, PhaseOfNext
<1> QED
  BY <1>1, ManyDepart

LEMMA MembershipInit == Init => Membership!Init
BY DEF Init, Membership!Init, phase

LEMMA MembershipStep == Inv /\ Inv' /\ [Next]_vars => [Membership!Next]_phase
<1> SUFFICES ASSUME Inv, Inv', [Next]_vars PROVE [Membership!Next]_phase
  OBVIOUS
<1> USE DEF http, traffic
<1>1. ASSUME NEW id \in Ids, Post(id) PROVE [Membership!Next]_phase
  <2>1. phase[id] = "unknown"
    BY <1>1, PhaseOf DEF Post
  <2>2. phase'[id] = "registered"
    BY <1>1, PhaseOfNext DEF Post, Inv, TypeOK
  <2>3. \A other \in Ids \ {id} : phase'[other] = phase[other]
    BY <1>1 DEF Post, phase, Entries, Inv, TypeOK
  <2> QED
    BY <2>1, <2>2, <2>3, OneArrives DEF Membership!Arrivals
<1>2. ASSUME NEW id \in Ids, TakePending(id) PROVE [Membership!Next]_phase
  BY <1>2, TakingOut DEF TakePending, Inv, TypeOK
<1>3. CASE Purge
  BY <1>3, TakingOut DEF Purge, Inv
<1>4. CASE Sweep
  BY <1>4, TakingOut DEF Sweep, Without, Inv
<1>5. CASE ServeError
  BY <1>5, TakingOut DEF ServeError, Without, Inv
<1>6. CASE ServeHello
  <2>1. \A id \in Ids : Listed(id)' = Listed(id)
    BY <1>6 DEF ServeHello, Listed
  <2> QED
    BY <1>6, <2>1, Unseen DEF ServeHello
<1>7. CASE ServeEcho
  <2>1. \A id \in Ids : Listed(id)' = Listed(id)
    <3> DEFINE U(e) == IF IsFirst(e, packet.addr) THEN [e EXCEPT !.echo = ~@] ELSE e
    <3>1. clients' = {U(e) : e \in clients}
      BY <1>7 DEF ServeEcho
    <3>2. \A e \in clients : U(e).id = e.id /\ U(e).named = e.named
      BY DEF Inv, TypeOK, Entry
    <3> HIDE DEF U
    <3> QED
      BY <3>1, <3>2 DEF Listed
  <2> QED
    BY <1>7, <2>1, Unseen DEF ServeEcho
<1>8. CASE ServeVoice
  <2>1. \A id \in Ids : Listed(id)' = Listed(id)
    <3> DEFINE U(e) == IF IsFirst(e, packet.addr) THEN [e EXCEPT !.alive = packet.at] ELSE e
    <3>1. clients' = {U(e) : e \in clients}
      BY <1>8 DEF ServeVoice
    <3>2. \A e \in clients : U(e).id = e.id /\ U(e).named = e.named
      BY DEF Inv, TypeOK, Entry
    <3> HIDE DEF U
    <3> QED
      BY <3>1, <3>2 DEF Listed
  <2> QED
    BY <1>8, <2>1, Unseen DEF ServeVoice
<1>9. CASE Lookup
  <2> DEFINE id == packet.id
  <2>1. /\ id \in Ids /\ id \in issued
        /\ packet.addr \in Addrs
        /\ issued' = issued
    BY <1>9, PacketFields DEF Lookup, Registered, WithAddress, WithName, Inv, PacketOK, TypeOK, InHand
  <2>2. CASE pendingClients[id] = None
    <3>1. UNCHANGED <<clients, pendingClients, issued>>
      BY <1>9, <2>2 DEF Lookup, Registered, WithAddress, WithName
    <3> QED
      BY <3>1, Unseen DEF Listed
  <2>3. CASE pendingClients[id] # None
    <3>1. pendingClients' = [pendingClients EXCEPT ![id] = packet.addr]
      BY <1>9, <2>3 DEF Lookup, Registered, WithAddress, WithName
    <3>2. phase'[id] = "member"
      BY <2>1, <3>1, PhaseOfNext, ConstantsAssumption DEF ConstantsAssumption, Inv, TypeOK
    <3>3. phase[id] \in {"registered", "member"}
      BY <2>1, <2>3, PhaseOf
    <3>4. \A other \in Ids \ {id} : Listed(other)' = Listed(other)
      BY <1>9, <2>3 DEF Lookup, Registered, WithAddress, WithName, Listed, Inv, TypeOK, Entry, PacketOK, InHand
    <3>5. \A other \in Ids \ {id} : phase'[other] = phase[other]
      BY <2>1, <3>1, <3>4, PhaseOf, PhaseOfNext DEF Inv, TypeOK
    <3>6. CASE phase[id] = "registered"
      BY <2>1, <3>2, <3>5, <3>6, OneArrives DEF Membership!Arrivals
    <3>7. CASE phase[id] = "member"
      BY <3>2, <3>5, <3>7, ManyDepart
    <3> QED
      BY <3>3, <3>6, <3>7
  <2> QED
    BY <2>2, <2>3
<1>10. ASSUME UNCHANGED <<clients, pendingClients, issued>> PROVE [Membership!Next]_phase
  BY <1>10, Unseen DEF Listed
<1>11. CASE Receive \/ SkipPurge \/ HelloReplyFails \/ PostVideo \/ TellListeners \/ Tick
  BY <1>10, <1>11 DEF Receive, SkipPurge, HelloReplyFails, PostVideo, TellListeners, Tick
<1>12. ASSUME NEW id \in Ids, QueueDisconnected(id) \/ Patch(id) \/ Listen(id)
       PROVE  [Membership!Next]_phase
  BY <1>10, <1>12 DEF QueueDisconnected, Patch, Listen
<1>13. CASE UNCHANGED vars
  BY <1>10, <1>13 DEF vars
<1> QED
  BY <1>1, <1>2, <1>3, <1>4, <1>5, <1>6, <1>7, <1>8, <1>9, <1>11, <1>12, <1>13
     DEF Next, Serve

\* The receive loop and the HTTP threads together keep the promise RoomMembership
\* makes to users: a session that left never comes back, and nobody is shown before
\* its hello was served.
THEOREM ImplementsMembership == Spec => RefinesMembership
BY MembershipInit, MembershipStep, Invariant, PTL DEF Spec, Membership!Spec, RefinesMembership

-----------------------------------------------------------------------------
(* What may take a session's entries out of the vector.                    *)

\* Behind every removal but a sweep's is a DELETE, and the clock of the packet in
\* hand, which the sweep goes by, is not ahead.
Causes ==
  /\ InHand => packet.at <= now
  /\ \A id \in Ids : removing[id] # None => id \in deleted
  /\ \A a \in disconnectedClients \ {ZeroAddr} : \E id \in deleted : AddrOf[id] = a

LEMMA CausesInit == Init => Causes
BY DEF Init, Causes, InHand

LEMMA CausesStep == Inv /\ Causes /\ [Next]_vars => Causes'
<1> SUFFICES ASSUME Inv, Causes, [Next]_vars PROVE Causes'
  OBVIOUS
<1>0. TypeOK /\ now \in Nat
  BY DEF Inv, TypeOK
<1> USE DEF Causes, InHand, traffic, http
<1>1. ASSUME NEW id \in Ids, TakePending(id) PROVE Causes'
  BY <1>0, <1>1 DEF TakePending, TypeOK
<1>2. ASSUME NEW id \in Ids, QueueDisconnected(id) PROVE Causes'
  <2>1. removing[id] \in {AddrOf[id], ZeroAddr} /\ id \in deleted
    BY <1>2 DEF QueueDisconnected, Inv, TablesOK
  <2> QED
    BY <1>0, <1>2, <2>1 DEF QueueDisconnected, TypeOK
<1>3. ASSUME NEW id \in Ids, Post(id) PROVE Causes'
  BY <1>0, <1>3 DEF Post, TypeOK
<1>4. ASSUME NEW id \in Ids, Patch(id) \/ Listen(id) PROVE Causes'
  BY <1>4 DEF Patch, Listen
<1>5. CASE PostVideo
  BY <1>5 DEF PostVideo
<1>6. CASE TellListeners
  BY <1>6 DEF TellListeners
<1>7. CASE Tick
  <2>1. InHand => packet.at \in Nat
    BY <1>0, PacketFields
  <2> QED
    BY <1>0, <1>7, <2>1 DEF Tick
<1>8. CASE Receive
  BY <1>0, <1>8 DEF Receive, ReceiveHello, ReceiveEcho, ReceiveVoice, ReceiveError
<1>9. CASE SkipPurge
  BY <1>9 DEF SkipPurge
<1>10. CASE Purge
  BY <1>10 DEF Purge
<1>11. CASE Sweep
  BY <1>11 DEF Sweep
<1>12. CASE ServeError
  BY <1>12 DEF ServeError
<1>13. CASE ServeHello
  BY <1>13 DEF ServeHello
<1>14. CASE HelloReplyFails
  BY <1>14 DEF HelloReplyFails
<1>15. CASE Lookup
  BY <1>15 DEF Lookup, Finish
<1>16. CASE ServeEcho
  BY <1>16 DEF ServeEcho, Finish
<1>17. CASE ServeVoice
  BY <1>17 DEF ServeVoice, Finish
<1>18. CASE UNCHANGED vars
  BY <1>18 DEF vars
<1> QED
  BY <1>1, <1>2, <1>3, <1>4, <1>5, <1>6, <1>7, <1>8, <1>9, <1>10, <1>11, <1>12,
     <1>13, <1>14, <1>15, <1>16, <1>17, <1>18 DEF Next, Serve

\* A step other than a purge, a sweep or a receive error leaves every session that
\* has an entry with one.
LEMMA OthersKeep ==
  ASSUME Inv, [Next]_vars, ~Purge, ~Sweep, ~ServeError,
         NEW id \in Ids, Entries(id) # {}
  PROVE  Entries(id)' # {}
<1>1. PICK e \in clients : e.id = id
  BY DEF Entries
<1>2. e \in Entry
  BY DEF Inv, TypeOK
<1> SUFFICES \E f \in clients' : f.id = id
  BY DEF Entries
<1>3. CASE clients' = clients
  BY <1>1, <1>3
<1>4. CASE ServeHello
  BY <1>1, <1>4 DEF ServeHello
<1>5. CASE Lookup
  <2>1. [e EXCEPT !.named = TRUE].id = id
    BY <1>1, <1>2 DEF Entry
  <2> QED
    BY <1>1, <1>5, <2>1 DEF Lookup, WithName
<1>6. CASE ServeEcho
  <2>1. [e EXCEPT !.echo = ~@].id = id
    BY <1>1, <1>2 DEF Entry
  <2> QED
    BY <1>1, <1>6, <2>1 DEF ServeEcho
<1>7. CASE ServeVoice
  <2>1. [e EXCEPT !.alive = packet.at].id = id
    BY <1>1, <1>2 DEF Entry
  <2> QED
    BY <1>1, <1>7, <2>1 DEF ServeVoice
<1>8. clients' = clients \/ ServeHello \/ Lookup \/ ServeEcho \/ ServeVoice
  BY DEF Next, Serve, Post, TakePending, QueueDisconnected, Patch, Listen, PostVideo,
     TellListeners, Tick, Receive, SkipPurge, HelloReplyFails, vars
<1> QED
  BY <1>3, <1>4, <1>5, <1>6, <1>7, <1>8

\* A purge, a sweep or an error that empties a session of its own address was about
\* that address, or found all of its entries silent.
LEMMA WhatEmpties ==
  ASSUME Inv, Purge \/ Sweep \/ ServeError, NEW id \in Ids, NEW e \in Entries(id),
         Entries(id)' = {}
  PROVE  \/ Purge /\ AddrOf[id] \in disconnectedClients
         \/ Sweep /\ e \in Stale
         \/ ServeError /\ packet.addr = AddrOf[id]
<1>1. e \in clients /\ e.id = id /\ e.addr = AddrOf[id]
  BY DEF Entries, Inv, EntriesOK
<1>2. e \notin clients'
  BY <1>1 DEF Entries
<1> QED
  BY <1>1, <1>2 DEF Purge, Sweep, ServeError, At

LEMMA ActiveStaysStep ==
  ASSUME Inv, Causes, [Next]_vars,
         NEW id \in Ids, Unshared(id), id \notin deleted,
         NEW e \in Entries(id), e.alive > 0, now - e.alive < Timeout,
         Entries(id)' = {}
  PROVE  packet.kind = "error" /\ packet.addr = AddrOf[id]
<1> USE ConstantsAssumption DEF ConstantsAssumption
<1>1. Purge \/ Sweep \/ ServeError
  BY OthersKeep
<1>2. ~(Purge /\ AddrOf[id] \in disconnectedClients)
  BY DEF Causes, Unshared, Inv, TypeOK
<1>3. ASSUME Sweep PROVE e \notin Stale
  <2>1. InHand
    BY <1>3 DEF Sweep, InHand
  <2>2. packet.at \in Nat /\ packet.at <= now /\ now \in Nat
    BY <2>1, PacketFields DEF Inv, TypeOK, Causes
  <2>3. e.alive \in Nat
    BY DEF Entries, Inv, TypeOK, Entry
  <2> QED
    BY <2>2, <2>3 DEF Stale
<1> QED
  BY <1>1, <1>2, <1>3, WhatEmpties DEF ServeError

\* A session that keeps talking keeps its place: no DELETE of somebody else, no purge,
\* no sweep and no duplicate takes it out, for any number of sessions and any timeout.
THEOREM ActiveStaysAlways == Spec => ActiveStays
<1>1. Inv /\ Causes /\ [Next]_vars =>
        [\A id \in Ids :
           /\ Unshared(id) /\ id \notin deleted
           /\ \E e \in Entries(id) : e.alive > 0 /\ now - e.alive < Timeout
           /\ Entries(id)' = {}
           => packet.kind = "error" /\ packet.addr = AddrOf[id]]_vars
  BY ActiveStaysStep
<1> QED
  BY <1>1, CausesInit, CausesStep, Invariant, PTL DEF Spec, ActiveStays

-----------------------------------------------------------------------------
(* Who goes takes its listener along.                                      *)

LEMMA Least ==
  ASSUME NEW T, T \subseteq Nat, T # {}
  PROVE  \E n \in T : \A m \in T : n <= m
<1>1. PICK n \in T : \A m \in T : <<m, n>> \notin OpToRel(<, Nat)
  BY NatLessThanWellFounded, WFMin
<1>2. \A m \in T : ~(m < n)
  BY <1>1 DEF OpToRel
<1>3. \A m \in T : m \in Nat /\ n \in Nat
  OBVIOUS
<1> QED
  BY <1>2, <1>3

\* std::find returns an entry of an address that has any.
LEMMA FindFinds ==
  ASSUME TypeOK, NEW a, At(a) # {}
  PROVE  \E e \in clients : IsFirst(e, a)
<1> DEFINE slots == {e.slot : e \in At(a)}
<1>1. slots \subseteq Nat /\ slots # {}
  BY DEF TypeOK, Entry, At
<1>2. PICK n \in slots : \A m \in slots : n <= m
  <2> HIDE DEF slots
  <2> QED
    BY <1>1, Least
<1>3. PICK e \in At(a) : e.slot = n
  OBVIOUS
<1>4. \A f \in At(a) : e.slot <= f.slot
  BY <1>2, <1>3
<1> QED
  BY <1>3, <1>4 DEF IsFirst, At

\* For an address only one session uses, that entry is the session's.
LEMMA FindFindsSession ==
  ASSUME Inv, NEW id \in Ids, Unshared(id), Entries(id) # {}, NEW A, AddrOf[id] \in A
  PROVE  id \in FirstIds(A)
<1>1. \A e \in clients : e.id \in Ids /\ e.addr = AddrOf[e.id]
  BY DEF Inv, TypeOK, Entry, EntriesOK
<1>2. At(AddrOf[id]) # {}
  BY <1>1 DEF Entries, At
<1>3. PICK e \in clients : IsFirst(e, AddrOf[id])
  BY <1>2, FindFinds DEF Inv
<1>4. e.id = id
  BY <1>1, <1>3 DEF IsFirst, At, Unshared
<1> QED
  BY <1>3, <1>4 DEF FirstIds

LEMMA DropsListenerStep ==
  ASSUME Inv, [Next]_vars,
         NEW id \in Ids, Unshared(id), Entries(id) # {}, Entries(id)' = {}
  PROVE  id \notin listeners' \cup queued'
<1>1. Purge \/ Sweep \/ ServeError
  BY OthersKeep
<1>2. PICK e \in Entries(id) : TRUE
  OBVIOUS
<1>3. CASE Purge
  <2>1. AddrOf[id] \in disconnectedClients
    BY <1>3, WhatEmpties DEF Purge, Sweep, ServeError
  <2> QED
    BY <1>3, <2>1, FindFindsSession DEF Purge, Hub!Drop
<1>4. CASE Sweep
  <2>1. e \in Stale /\ e.id = id
    BY <1>4, WhatEmpties DEF Purge, Sweep, ServeError, Entries
  <2> QED
    BY <1>4, <2>1 DEF Sweep, Hub!Drop
<1>5. CASE ServeError
  <2>1. AddrOf[id] \in {packet.addr}
    BY <1>5, WhatEmpties DEF Purge, Sweep, ServeError
  <2>2. id \in FirstIds({packet.addr})
    BY <2>1, FindFindsSession
  <2> QED
    BY <1>5, <2>2 DEF ServeError, Hub!Drop
<1> QED
  BY <1>1, <1>3, <1>4, <1>5

\* Whichever way a session's entries go, nothing of it stays with the notification
\* server: what the purge, the sweep and the error handler find is who they remove.
THEOREM DropsListenerAlways == Spec => DropsListenerToo
<1>1. Inv /\ [Next]_vars =>
        [\A id \in Ids :
           Unshared(id) /\ Entries(id) # {} /\ Entries(id)' = {} =>
             id \notin listeners' \cup queued']_vars
  BY DropsListenerStep
<1> QED
  BY <1>1, Invariant, PTL DEF Spec, DropsListenerToo

-----------------------------------------------------------------------------
(* Who hears himself.                                                      *)

\* An echo packet that is counted and not yet acted on
EchoInHand(id) ==
  pc \in {"check", "sweep", "dispatch"} /\ packet.kind = "echo" /\ packet.id = id

\* An entry's flag is the parity of the echo packets served, none of which came before
\* the first hello.
EchoesOK ==
  /\ \A id \in Ids : hellos[id] = 0 => echoes[id] = 0
  /\ InHand /\ packet.kind = "hello" /\ hellos[packet.id] <= 1 => echoes[packet.id] = 0
  /\ \A e \in clients :
       Unshared(e.id) /\ hellos[e.id] <= 1 =>
         (e.echo <=> ~(echoes[e.id] % 2 = 1 <=> EchoInHand(e.id)))

LEMMA EchoesInit == Init => EchoesOK
BY DEF Init, EchoesOK, InHand

LEMMA ParityTurns ==
  ASSUME NEW n \in Nat
  PROVE  (n + 1) % 2 = 1 <=> ~(n % 2 = 1)
OBVIOUS

\* A step that changes no counter, no echo in hand, and no entry but by taking it out or
\* by renaming it.
LEMMA EchoesKept ==
  ASSUME EchoesOK, UNCHANGED <<hellos, echoes>>,
         InHand' => InHand /\ packet' = packet,
         \A id \in Ids : EchoInHand(id)' <=> EchoInHand(id),
         \A f \in clients' : \E e \in clients : e.id = f.id /\ e.echo = f.echo,
         \A f \in clients' : f.id \in Ids
  PROVE  EchoesOK'
<1>1. \A id : Unshared(id)' <=> Unshared(id)
  BY DEF Unshared
<1>2. \A id \in Ids : hellos'[id] = 0 => echoes'[id] = 0
  BY DEF EchoesOK
<1>3. (InHand /\ packet.kind = "hello" /\ hellos[packet.id] <= 1 => echoes[packet.id] = 0)'
  BY DEF EchoesOK
<1>4. ASSUME NEW f \in clients', Unshared(f.id), hellos'[f.id] <= 1
      PROVE  f.echo <=> ~(echoes'[f.id] % 2 = 1 <=> EchoInHand(f.id)')
  <2>1. PICK e \in clients : e.id = f.id /\ e.echo = f.echo
    OBVIOUS
  <2>2. e.echo <=> ~(echoes[e.id] % 2 = 1 <=> EchoInHand(e.id))
    BY <1>4, <2>1 DEF EchoesOK
  <2> QED
    BY <2>1, <2>2
<1> QED
  BY <1>1, <1>2, <1>3, <1>4 DEF EchoesOK

LEMMA EchoesReceive ==
  ASSUME Inv, EchoesOK, Receive
  PROVE  EchoesOK'
<1> USE DEF Inv, TypeOK
<1>1. /\ pc = "recv" /\ pc' = "check" /\ clients' = clients
      /\ \A id \in Ids : ~EchoInHand(id)
      /\ \A e \in clients : e.id \in Ids /\ hellos[e.id] > 0
      /\ \A id : Unshared(id)' <=> Unshared(id)
  BY DEF Receive, EchoInHand, Entry, EntriesOK, Unshared
<1>2. ASSUME NEW id \in Ids, ReceiveHello(id) PROVE EchoesOK'
  <2>1. /\ hellos' = [hellos EXCEPT ![id] = @ + 1] /\ echoes' = echoes
        /\ packet'.kind = "hello" /\ packet'.id = id
    BY <1>2 DEF ReceiveHello
  <2>2. \A other \in Ids : ~EchoInHand(other)'
    BY <2>1 DEF EchoInHand
  <2>3. (\A other \in Ids : hellos[other] = 0 => echoes[other] = 0)'
    BY <2>1 DEF EchoesOK
  <2>4. hellos'[id] <= 1 => echoes'[id] = 0
    BY <2>1 DEF EchoesOK
  <2>5. ASSUME NEW e \in clients, Unshared(e.id), hellos'[e.id] <= 1
        PROVE  e.echo <=> ~(echoes'[e.id] % 2 = 1 <=> EchoInHand(e.id)')
    <3>1. e.id \in Ids /\ e.id # id
      BY <1>1, <2>1, <2>5
    <3>2. e.echo <=> ~(echoes[e.id] % 2 = 1 <=> EchoInHand(e.id))
      BY <2>1, <2>5, <3>1 DEF EchoesOK
    <3> QED
      BY <1>1, <2>1, <2>2, <3>1, <3>2
  <2> QED
    BY <1>1, <2>1, <2>3, <2>4, <2>5 DEF EchoesOK
<1>3. ASSUME NEW id \in Ids, ReceiveEcho(id) PROVE EchoesOK'
  <2>1. /\ echoes' = [echoes EXCEPT ![id] = @ + 1] /\ hellos' = hellos /\ hellos[id] > 0
        /\ packet'.kind = "echo" /\ packet'.id = id
    BY <1>3 DEF ReceiveEcho
  <2>2. \A other \in Ids : EchoInHand(other)' <=> other = id
    BY <1>1, <2>1 DEF EchoInHand
  <2>3. (\A other \in Ids : hellos[other] = 0 => echoes[other] = 0)'
    BY <2>1 DEF EchoesOK
  <2>4. ASSUME NEW e \in clients, Unshared(e.id), hellos'[e.id] <= 1
        PROVE  e.echo <=> ~(echoes'[e.id] % 2 = 1 <=> EchoInHand(e.id)')
    <3>1. e.echo <=> ~(echoes[e.id] % 2 = 1 <=> EchoInHand(e.id))
      BY <2>1, <2>4 DEF EchoesOK
    <3>2. e.echo <=> echoes[e.id] % 2 = 1
      BY <1>1, <3>1
    <3>3. CASE e.id = id
      <4>1. echoes'[id] = echoes[id] + 1 /\ echoes[id] \in Nat
        BY <2>1
      <4>2. echoes'[id] % 2 = 1 <=> ~(echoes[id] % 2 = 1)
        BY <4>1, ParityTurns
      <4>3. EchoInHand(e.id)'
        BY <2>2, <3>3
      <4> QED
        BY <3>2, <3>3, <4>2, <4>3
    <3>4. CASE e.id # id
      <4>1. ~EchoInHand(e.id)' /\ echoes'[e.id] = echoes[e.id]
        BY <1>1, <2>1, <2>2, <3>4
      <4> QED
        BY <3>2, <4>1
    <3> QED
      BY <3>3, <3>4
  <2> QED
    BY <1>1, <2>1, <2>3, <2>4 DEF EchoesOK
<1>4. ASSUME UNCHANGED <<hellos, echoes>>, packet'.kind \in {"voice", "error"}
      PROVE  EchoesOK'
  <2>1. \A other \in Ids : ~EchoInHand(other)'
    BY <1>4 DEF EchoInHand
  <2>2. ASSUME NEW e \in clients, Unshared(e.id), hellos'[e.id] <= 1
        PROVE  e.echo <=> ~(echoes'[e.id] % 2 = 1 <=> EchoInHand(e.id)')
    <3>1. e.echo <=> ~(echoes[e.id] % 2 = 1 <=> EchoInHand(e.id))
      BY <1>4, <2>2 DEF EchoesOK
    <3> QED
      BY <1>1, <1>4, <2>1, <3>1
  <2> QED
    BY <1>1, <1>4, <2>2 DEF EchoesOK
<1>5. \/ \E id \in Ids : ReceiveHello(id) \/ ReceiveEcho(id)
      \/ UNCHANGED <<hellos, echoes>> /\ packet'.kind \in {"voice", "error"}
  BY DEF Receive, ReceiveVoice, ReceiveError, traffic
<1> QED
  BY <1>2, <1>3, <1>4, <1>5

LEMMA EchoesServeHello ==
  ASSUME Inv, EchoesOK, ServeHello
  PROVE  EchoesOK'
<1> DEFINE new == [slot |-> served', addr |-> packet.addr, id |-> packet.id,
                   named |-> FALSE, echo |-> FALSE, alive |-> 0]
<1>1. /\ clients' = clients \cup {new}
      /\ pc = "dispatch" /\ pc' = "lookup" /\ packet.kind = "hello"
      /\ UNCHANGED <<hellos, echoes, packet>>
  BY DEF ServeHello, traffic
<1>2. new.id = packet.id /\ new.echo = FALSE
  OBVIOUS
<1> HIDE DEF new
<1>3. \A id \in Ids : ~EchoInHand(id) /\ ~EchoInHand(id)'
  BY <1>1 DEF EchoInHand
<1>4. packet.id \in Ids /\ \A e \in clients : e.id \in Ids
  BY <1>1, PacketFields DEF Inv, TypeOK, InHand, Entry
<1>5. \A id : Unshared(id)' <=> Unshared(id)
  BY DEF Unshared
<1>6. hellos[packet.id] <= 1 => echoes[packet.id] = 0
  BY <1>1 DEF EchoesOK, InHand
<1>7. ASSUME NEW e \in clients', Unshared(e.id), hellos'[e.id] <= 1
      PROVE  e.echo <=> ~(echoes'[e.id] % 2 = 1 <=> EchoInHand(e.id)')
  <2>1. CASE e \in clients
    <3>1. e.echo <=> ~(echoes[e.id] % 2 = 1 <=> EchoInHand(e.id))
      BY <1>1, <1>7, <2>1 DEF EchoesOK
    <3> QED
      BY <1>1, <1>3, <1>4, <2>1, <3>1
  <2>2. CASE e = new
    <3>1. echoes'[e.id] = 0 /\ ~e.echo
      BY <1>1, <1>2, <1>6, <1>7, <2>2
    <3>2. ~EchoInHand(e.id)'
      BY <1>2, <1>3, <1>4, <2>2
    <3>3. ~(echoes'[e.id] % 2 = 1)
      BY <3>1
    <3> QED
      BY <3>1, <3>2, <3>3
  <2> QED
    BY <1>1, <2>1, <2>2
<1> QED
  BY <1>1, <1>5, <1>6, <1>7 DEF EchoesOK

LEMMA EchoesServeEcho ==
  ASSUME Inv, EchoesOK, ServeEcho
  PROVE  EchoesOK'
<1> DEFINE U(e) == IF IsFirst(e, packet.addr) THEN [e EXCEPT !.echo = ~@] ELSE e
<1>1. /\ clients' = {U(e) : e \in clients}
      /\ pc = "dispatch" /\ pc' = "recv" /\ packet.kind = "echo"
      /\ UNCHANGED <<hellos, echoes>>
  BY DEF ServeEcho, Finish, traffic
<1>2. /\ packet.id \in Ids /\ packet.addr = AddrOf[packet.id]
      /\ \A e \in clients : e.id \in Ids /\ e.addr = AddrOf[e.id] /\ e.slot \in Nat
  BY <1>1, PacketFields DEF Inv, TypeOK, InHand, Entry, PacketOK, EntriesOK
<1>3. \A e \in clients : /\ U(e).id = e.id
                         /\ U(e).echo <=> ~(e.echo <=> IsFirst(e, packet.addr))
  BY DEF Inv, TypeOK, Entry
<1>4. \A f \in clients' : \E e \in clients : f = U(e)
  BY <1>1
<1> HIDE DEF U
<1>5. \A id \in Ids : (EchoInHand(id) <=> id = packet.id) /\ ~EchoInHand(id)'
  BY <1>1 DEF EchoInHand
<1>6. \A id : Unshared(id)' <=> Unshared(id)
  BY DEF Unshared
<1>7. ASSUME NEW e \in clients, Unshared(e.id), hellos[e.id] <= 1
      PROVE  IsFirst(e, packet.addr) <=> e.id = packet.id
  <2>1. CASE e.id = packet.id
    <3>1. \A f \in At(packet.addr) : f = e
      BY <1>2, <1>7, <2>1 DEF At, Unshared, Inv, OneEntryPerHello
    <3> QED
      BY <1>2, <2>1, <3>1 DEF IsFirst, At
  <2>2. CASE e.id # packet.id
    <3>1. e.addr # packet.addr
      BY <1>2, <1>7, <2>2 DEF Unshared
    <3> QED
      BY <2>2, <3>1 DEF IsFirst, At
  <2> QED
    BY <2>1, <2>2
<1>8. ASSUME NEW f \in clients', Unshared(f.id), hellos'[f.id] <= 1
      PROVE  f.echo <=> ~(echoes'[f.id] % 2 = 1 <=> EchoInHand(f.id)')
  <2>1. PICK e \in clients : f = U(e)
    BY <1>4
  <2>2. f.id = e.id /\ (f.echo <=> ~(e.echo <=> IsFirst(e, packet.addr)))
    BY <1>3, <2>1
  <2>3. e.echo <=> ~(echoes[e.id] % 2 = 1 <=> EchoInHand(e.id))
    BY <1>1, <1>8, <2>2 DEF EchoesOK
  <2>4. IsFirst(e, packet.addr) <=> EchoInHand(e.id)
    BY <1>1, <1>2, <1>5, <1>7, <1>8, <2>2
  <2>5. f.echo <=> echoes[e.id] % 2 = 1
    BY <2>2, <2>3, <2>4
  <2> QED
    BY <1>1, <1>2, <1>5, <2>2, <2>5
<1>9. ~InHand'
  BY <1>1 DEF InHand
<1> QED
  BY <1>1, <1>6, <1>8, <1>9 DEF EchoesOK

LEMMA EchoesStep == Inv /\ EchoesOK /\ [Next]_vars => EchoesOK'
<1> SUFFICES ASSUME Inv, EchoesOK, [Next]_vars PROVE EchoesOK'
  OBVIOUS
<1>1. CASE Receive
  BY <1>1, EchoesReceive
<1>2. CASE ServeHello
  BY <1>2, EchoesServeHello
<1>3. CASE ServeEcho
  BY <1>3, EchoesServeEcho
<1>4. TypeOK' /\ \A f \in clients' : f.id \in Ids
  BY TypeStep DEF Inv, TypeOK, Entry
<1>5. ASSUME UNCHANGED <<hellos, echoes, clients>>,
             InHand' => InHand /\ packet' = packet,
             \A id \in Ids : EchoInHand(id)' <=> EchoInHand(id)
      PROVE  EchoesOK'
  BY <1>4, <1>5, EchoesKept
<1> USE DEF EchoInHand, InHand, traffic, http
<1>6. ASSUME NEW id \in Ids, \/ Post(id) \/ TakePending(id) \/ QueueDisconnected(id)
                             \/ Patch(id) \/ Listen(id)
      PROVE  EchoesOK'
  BY <1>5, <1>6 DEF Post, TakePending, QueueDisconnected, Patch, Listen, Inv, TypeOK
<1>7. CASE PostVideo \/ TellListeners \/ Tick \/ SkipPurge \/ HelloReplyFails \/ UNCHANGED vars
  BY <1>5, <1>7 DEF PostVideo, TellListeners, Tick, SkipPurge, HelloReplyFails, vars, Inv, TypeOK
<1>8. CASE Purge
  BY <1>4, <1>8, EchoesKept DEF Purge
<1>9. CASE Sweep
  BY <1>4, <1>9, EchoesKept DEF Sweep
<1>10. CASE ServeError
  BY <1>4, <1>10, EchoesKept DEF ServeError
<1>11. CASE Lookup
  <2> DEFINE U(e) == IF Newest(e) THEN [e EXCEPT !.named = TRUE] ELSE e
  <2>1. \A e \in clients : U(e).id = e.id /\ U(e).echo = e.echo
    BY DEF Inv, TypeOK, Entry
  <2>2. \A f \in clients' : \E e \in clients : e.id = f.id /\ e.echo = f.echo
    <3>1. clients' = {U(e) : e \in clients} \/ clients' = clients
      BY <1>11 DEF Lookup, WithName
    <3> HIDE DEF U
    <3> QED
      BY <2>1, <3>1
  <2> QED
    BY <1>4, <1>11, <2>2, EchoesKept DEF Lookup, Finish
<1>12. CASE ServeVoice
  <2>1. \A e \in clients : [e EXCEPT !.alive = packet.at].id = e.id
                           /\ [e EXCEPT !.alive = packet.at].echo = e.echo
    BY DEF Inv, TypeOK, Entry
  <2>2. \A f \in clients' : \E e \in clients : e.id = f.id /\ e.echo = f.echo
    BY <1>12, <2>1 DEF ServeVoice
  <2> QED
    BY <1>4, <1>12, <2>2, EchoesKept DEF ServeVoice, Finish
<1> QED
  BY <1>1, <1>2, <1>3, <1>6, <1>7, <1>8, <1>9, <1>10, <1>11, <1>12 DEF Next, Serve

LEMMA HearsItself ==
  ASSUME Inv, EchoesOK
  PROVE  HearsItselfWhenAsked
<1> SUFFICES ASSUME pc = "dispatch", packet.kind = "voice",
                    NEW e \in Entries(packet.id), Unshared(e.id), hellos[e.id] <= 1
             PROVE  e \in Audience(packet.addr) <=> echoes[e.id] % 2 = 1
  BY DEF HearsItselfWhenAsked
<1>1. /\ e \in clients /\ e.id = packet.id /\ e.id \in Ids
      /\ packet.addr = AddrOf[packet.id]
      /\ \A f \in clients : f.id \in Ids /\ f.addr = AddrOf[f.id] /\ f.slot \in Nat
  BY PacketFields DEF Entries, Inv, TypeOK, InHand, Entry, PacketOK, EntriesOK
<1>2. \A f \in At(packet.addr) : f = e
  BY <1>1 DEF At, Unshared, Inv, OneEntryPerHello
<1>3. IsFirst(e, packet.addr) /\ At(packet.addr) # {}
  BY <1>1, <1>2 DEF IsFirst, At
<1>4. ~EchoInHand(e.id)
  BY DEF EchoInHand
<1>5. e.echo <=> ~(echoes[e.id] % 2 = 1 <=> EchoInHand(e.id))
  BY <1>1 DEF EchoesOK
<1> QED
  BY <1>1, <1>3, <1>4, <1>5 DEF Audience

\* A session's voice comes back to it exactly after an odd number of its echo packets,
\* whatever joins, leaves and speaks in between.
THEOREM HearsItselfAlways == Spec => []HearsItselfWhenAsked
BY EchoesInit, EchoesStep, HearsItself, Invariant, PTL DEF Spec

=============================================================================
