----------------------------- MODULE VoiceServer -----------------------------
(***************************************************************************)
(* One room's voice server: the UDP receive loop with its handler `serve`, *)
(* and the HTTP threads that add clients (POST), remove them (DELETE) and  *)
(* ask for notifications (PATCH) while the loop runs.  The two sides share *)
(* pendingClients and disconnectedClients, each behind a mutex of its own; *)
(* an action here is one critical section, or one stretch of the loop that *)
(* touches nothing shared.                                                 *)
(*                                                                         *)
(* The loop is single: Room.tla's subject is when a second one may start.  *)
(***************************************************************************)
EXTENDS Integers, FiniteSets

CONSTANTS
  Ids,          \* the ids of POST /room/voice, one per session of a client
  Addrs,        \* ip:port pairs the clients' sockets are bound to
  AddrOf,       \* AddrOf[id]: where the session's datagrams come from
  NameOf,       \* NameOf[id]: the userName its POST carried
  ZeroAddr,     \* sockaddr_in{}: no address known yet
  None,         \* no entry, no packet, no removal
  Timeout,      \* timeoutValue, in seconds (line 44)
  Boot,         \* steady_clock when the room is created; the epoch is 0
  MaxTime,      \* bound on the clock
  MaxHellos,    \* bound on the copies of one session's hello that arrive
  MaxEchoes,    \* bound on the echo packets of one session that arrive
  MaxErrors,    \* bound on recvfrom errors
  MayListen,    \* the sessions a notification connection may be listed for
  MayPatch,     \* the sessions that send PATCH /room
  SendMayFail   \* whether sendto may fail, which makes sendData throw

ASSUME ConstantsAssumption ==
  /\ AddrOf \in [Ids -> Addrs]
  /\ ZeroAddr \notin Addrs
  /\ None \notin Addrs \cup {ZeroAddr}
  /\ Timeout \in Nat \ {0}
  /\ Boot \in Nat /\ Boot >= Timeout      \* the host is up for at least Timeout
  /\ MaxTime \in Nat
  /\ MaxHellos \in Nat /\ MaxEchoes \in Nat /\ MaxErrors \in Nat
  /\ MayListen \subseteq Ids /\ MayPatch \subseteq Ids
  /\ SendMayFail \in BOOLEAN

VARIABLES
  clients,              \* the vector, each entry with the position it was appended at
  pendingClients,       \* id -> address of the session, None when not in the map
  disconnectedClients,  \* addresses waiting to be purged
  started,
  pc,                   \* where the receive loop is
  packet,               \* the datagram `serve` is handling
  now,                  \* steady_clock, in seconds
  served,               \* hellos served so far: the next entry's position
  hellos,               \* id -> copies of its hello received
  echoes,               \* id -> echo packets received
  errors,               \* recvfrom errors so far
  issued,               \* ids POST has returned
  deleted,              \* ids a DELETE has found in pendingClients
  removing,             \* id -> the address its DELETE holds between the two locks
  listeners, queued, connected, strays   \* the room's NotificationHub

Hub == INSTANCE NotificationHub

hub == <<listeners, queued, connected, strays>>
http == <<issued, deleted, removing>>
traffic == <<hellos, echoes, errors>>
vars == <<clients, pendingClients, disconnectedClients, started, pc, packet,
          now, served, traffic, http, hub>>

Entry == [slot : Nat, addr : Addrs, id : Ids, named : BOOLEAN,
          echo : BOOLEAN, alive : Nat]
Packet == [kind : {"hello", "echo", "voice"}, id : Ids, addr : Addrs, at : Nat]
            \cup [kind : {"error"}, addr : Addrs \cup {ZeroAddr}, at : Nat]

\* Whether `serve` is running, with a packet in hand.
InHand == pc \in {"check", "sweep", "dispatch", "lookup"}

TypeOK ==
  /\ clients \subseteq Entry
  /\ pendingClients \in [Ids -> Addrs \cup {ZeroAddr, None}]
  /\ disconnectedClients \subseteq Addrs \cup {ZeroAddr}
  /\ started \in BOOLEAN /\ (started <=> pc # "off")
  /\ pc \in {"off", "recv", "check", "sweep", "dispatch", "lookup", "dead"}
  /\ packet \in IF InHand THEN Packet ELSE {None}
  /\ pc = "lookup" => packet.kind = "hello"
  /\ now \in Nat
  /\ served \in Nat
  /\ hellos \in [Ids -> Nat] /\ echoes \in [Ids -> Nat] /\ errors \in Nat
  /\ issued \subseteq Ids /\ deleted \subseteq Ids
  /\ removing \in [Ids -> Addrs \cup {ZeroAddr, None}]
  /\ Hub!TypeOK

Init ==
  /\ clients = {}
  /\ pendingClients = [id \in Ids |-> None]
  /\ disconnectedClients = {}
  /\ started = FALSE /\ pc = "off" /\ packet = None
  /\ now = Boot /\ served = 0
  /\ hellos = [id \in Ids |-> 0] /\ echoes = [id \in Ids |-> 0] /\ errors = 0
  /\ issued = {} /\ deleted = {} /\ removing = [id \in Ids |-> None]
  /\ Hub!Init

-----------------------------------------------------------------------------
(* The vector.                                                             *)

At(a) == {e \in clients : e.addr = a}

\* std::find: the entry of address a that was appended first
IsFirst(e, a) == e \in At(a) /\ \A f \in At(a) : e.slot <= f.slot

\* Mutant: purge and error handling leave the notification server alone.
NoIds(A) == {}

\* Every id std::find would return for an address of A
FirstIds(A) == {id \in Ids : \E a \in A : \E e \in clients : IsFirst(e, a) /\ e.id = id}

\* Mutant: pendingClients.clear() in place of erase.
WithoutAny(table, S) == [id \in Ids |-> None]

\* pendingClients.erase of the ids of S
Without(table, S) == [id \in Ids |-> IF id \in S THEN None ELSE table[id]]

\* Whether the entry is the one the lookup of a hello is about: emplace_back's result
Newest(e) == e.slot = served

-----------------------------------------------------------------------------
(* The HTTP threads.                                                       *)

\* POST /room/voice: addPendingClient, then start when no loop is running.
Post(id) ==
  /\ id \notin issued
  /\ issued' = issued \cup {id}
  /\ pendingClients' = [pendingClients EXCEPT ![id] = ZeroAddr]
  /\ IF started THEN UNCHANGED <<started, pc>>
                ELSE started' = TRUE /\ pc' = "recv"
  /\ UNCHANGED <<clients, disconnectedClients, packet, now, served, traffic,
                 deleted, removing, hub>>

\* POST /room/video starts the voice server too, for no session of its own.
PostVideo ==
  /\ ~started
  /\ started' = TRUE /\ pc' = "recv"
  /\ UNCHANGED <<clients, pendingClients, disconnectedClients, packet, now, served,
                 traffic, http, hub>>

\* DELETE /room/voice, removeClient's first critical section.
TakePending(id) ==
  /\ pendingClients[id] # None
  /\ removing' = [removing EXCEPT ![id] = pendingClients[id]]
  /\ pendingClients' = [pendingClients EXCEPT ![id] = None]
  /\ deleted' = deleted \cup {id}
  /\ UNCHANGED <<clients, disconnectedClients, started, pc, packet, now, served,
                 traffic, issued, hub>>

\* Mutant: the address is found and never queued for the loop.
ForgetDisconnected(id) ==
  /\ removing[id] # None
  /\ removing' = [removing EXCEPT ![id] = None]
  /\ UNCHANGED <<clients, pendingClients, disconnectedClients, started, pc, packet,
                 now, served, traffic, issued, deleted, hub>>

\* removeClient's second critical section.
QueueDisconnected(id) ==
  /\ removing[id] # None
  /\ disconnectedClients' = disconnectedClients \cup {removing[id]}
  /\ removing' = [removing EXCEPT ![id] = None]
  /\ UNCHANGED <<clients, pendingClients, started, pc, packet, now, served,
                 traffic, issued, deleted, hub>>

\* PATCH /room: a running room queues a notification.
Patch(id) ==
  /\ started /\ id \in issued \cap MayPatch
  /\ Hub!Push(id)
  /\ UNCHANGED <<clients, pendingClients, disconnectedClients, started, pc,
                 packet, now, served, traffic, http>>

-----------------------------------------------------------------------------
(* Around the room: the notification server's own threads and the clock.   *)

\* A session's client opens its connection, or a connection that broke is listed under
\* an id it was not told.
Listen(id) ==
  /\ id \in MayListen
  /\ \/ id \in issued /\ Hub!Connect(id)
     \/ Hub!Stray(id)
  /\ UNCHANGED <<clients, pendingClients, disconnectedClients, started, pc,
                 packet, now, served, traffic, http>>

TellListeners ==
  /\ Hub!Flush
  /\ UNCHANGED <<clients, pendingClients, disconnectedClients, started, pc,
                 packet, now, served, traffic, http>>

Tick ==
  /\ now < MaxTime
  /\ now' = now + 1
  /\ UNCHANGED <<clients, pendingClients, disconnectedClients, started, pc,
                 packet, served, traffic, http, hub>>

-----------------------------------------------------------------------------
(* The receive loop.                                                       *)

\* Datagrams may be lost, late or duplicated, so a hello may arrive whenever its
\* id was issued and anything else whenever one of the sender's hellos was served.
ReceiveHello(id) ==
  /\ id \in issued /\ hellos[id] < MaxHellos
  /\ hellos' = [hellos EXCEPT ![id] = @ + 1]
  /\ packet' = [kind |-> "hello", id |-> id, addr |-> AddrOf[id], at |-> now]
  /\ UNCHANGED <<echoes, errors>>

ReceiveEcho(id) ==
  /\ hellos[id] > 0 /\ echoes[id] < MaxEchoes
  /\ echoes' = [echoes EXCEPT ![id] = @ + 1]
  /\ packet' = [kind |-> "echo", id |-> id, addr |-> AddrOf[id], at |-> now]
  /\ UNCHANGED <<hellos, errors>>

ReceiveVoice(id) ==
  /\ hellos[id] > 0
  /\ packet' = [kind |-> "voice", id |-> id, addr |-> AddrOf[id], at |-> now]
  /\ UNCHANGED traffic

ReceiveError(a) ==
  /\ errors < MaxErrors
  /\ errors' = errors + 1
  /\ packet' = [kind |-> "error", addr |-> a, at |-> now]
  /\ UNCHANGED <<hellos, echoes>>

\* recvfrom returns and serve reads the clock (line 40).
Receive ==
  /\ pc = "recv" /\ pc' = "check"
  /\ \/ \E id \in Ids : ReceiveHello(id) \/ ReceiveEcho(id) \/ ReceiveVoice(id)
     \/ \E a \in Addrs \cup {ZeroAddr} : ReceiveError(a)
  /\ UNCHANGED <<clients, pendingClients, disconnectedClients, started, now,
                 served, http, hub>>

\* Nobody left since the last packet: no purge, and no sweep either.
SkipPurge ==
  /\ pc = "check" /\ disconnectedClients = {}
  /\ pc' = "dispatch"
  /\ UNCHANGED <<clients, pendingClients, disconnectedClients, started, packet,
                 now, served, traffic, http, hub>>

\* Under disconnectedClientsMutex: forget every address whose session left.
Purge ==
  /\ pc = "check" /\ disconnectedClients # {}
  /\ clients' = {e \in clients : e.addr \notin disconnectedClients}
  /\ Hub!Drop(FirstIds(disconnectedClients))
  /\ disconnectedClients' = {}
  /\ pc' = "sweep"
  /\ UNCHANGED <<pendingClients, started, packet, now, served, traffic, http>>

\* Mutant: the elapsed time is rounded up.
StaleEarly == {e \in clients : packet.at + 1 - e.alive >= Timeout}

Stale == {e \in clients : packet.at - e.alive >= Timeout}

\* After a purge only: forget every entry that has not spoken for Timeout.
Sweep ==
  /\ pc = "sweep"
  /\ LET ids == {e.id : e \in Stale} IN
       /\ pendingClients' = Without(pendingClients, ids)
       /\ Hub!Drop(ids)
  /\ clients' = clients \ Stale
  /\ pc' = "dispatch"
  /\ UNCHANGED <<disconnectedClients, started, packet, now, served, traffic, http>>

\* The handler returns, or one of its sends threw: the exception ends the loop's
\* task, and `started` keeps its value.
Finish(receivers) ==
  \/ pc' = "recv" /\ packet' = None
  \/ SendMayFail /\ receivers # {} /\ pc' = "dead" /\ packet' = None

\* recvfrom failed: drop whoever the error is about, stop when nobody is left.
ServeError ==
  /\ pc = "dispatch" /\ packet.kind = "error"
  /\ LET ids == FirstIds({packet.addr}) IN
       /\ pendingClients' = Without(pendingClients, ids)
       /\ Hub!Drop(ids)
  /\ clients' = clients \ At(packet.addr)
  /\ started' = (clients' # {})
  /\ pc' = IF clients' = {} THEN "off" ELSE "recv"
  /\ packet' = None
  /\ UNCHANGED <<disconnectedClients, now, served, traffic, http>>

\* A hello is answered, and then its sender gets a nameless entry.
ServeHello ==
  /\ pc = "dispatch" /\ packet.kind = "hello"
  /\ served' = served + 1
  /\ clients' = clients \cup
       {[slot |-> served', addr |-> packet.addr, id |-> packet.id,
         named |-> FALSE, echo |-> FALSE, alive |-> 0]}
  /\ pc' = "lookup"
  /\ UNCHANGED <<pendingClients, disconnectedClients, started, packet, now,
                 traffic, http, hub>>

\* The answer to the hello could not be sent.
HelloReplyFails ==
  /\ pc = "dispatch" /\ packet.kind = "hello" /\ SendMayFail
  /\ pc' = "dead" /\ packet' = None
  /\ UNCHANGED <<clients, pendingClients, disconnectedClients, started, now,
                 served, traffic, http, hub>>

\* Mutant: the entry of an unknown id is made, as pendingClients[id] would.
AnyId(id) == TRUE

\* pendingClients.find(id) finds it.
Registered(id) == pendingClients[id] # None

\* Mutant: the address is not written.
AddressForgotten(id, a) == pendingClients

WithAddress(id, a) == [pendingClients EXCEPT ![id] = a]

\* Mutant: the name is not written.
NameForgotten(e) == e

WithName(e) == [e EXCEPT !.named = TRUE]

\* What GET /room/voice shows of an entry.
Name(e) == IF e.named THEN NameOf[e.id] ELSE ""

\* Under pendingClientsMutex: the session gets its address, the entry its name.
\* Then the join packet goes to the entries of other names.
Lookup ==
  /\ pc = "lookup"
  /\ IF Registered(packet.id)
       THEN /\ pendingClients' = WithAddress(packet.id, packet.addr)
            /\ clients' = {IF Newest(e) THEN WithName(e) ELSE e : e \in clients}
       ELSE UNCHANGED <<pendingClients, clients>>
  /\ Finish({e \in clients' : \A f \in clients' : Newest(f) => Name(e) # Name(f)})
  /\ UNCHANGED <<disconnectedClients, started, now, served, traffic, http, hub>>

\* An echo packet toggles whether its sender hears itself.
ServeEcho ==
  /\ pc = "dispatch" /\ packet.kind = "echo"
  /\ clients' = {IF IsFirst(e, packet.addr) THEN [e EXCEPT !.echo = ~@] ELSE e : e \in clients}
  /\ Finish({})
  /\ UNCHANGED <<pendingClients, disconnectedClients, started, now, served,
                 traffic, http, hub>>

\* Mutant: everybody hears himself.
Everybody(a) == IF At(a) = {} THEN {} ELSE clients

\* The entries a voice packet from address a is relayed to.
Audience(a) ==
  {e \in clients : /\ At(a) # {}
                   /\ IsFirst(e, a) => e.echo}

ServeVoice ==
  /\ pc = "dispatch" /\ packet.kind = "voice"
  /\ clients' = {IF IsFirst(e, packet.addr) THEN [e EXCEPT !.alive = packet.at] ELSE e : e \in clients}
  /\ Finish(Audience(packet.addr))
  /\ UNCHANGED <<pendingClients, disconnectedClients, started, now, served,
                 traffic, http, hub>>

Serve ==
  \/ SkipPurge \/ Purge \/ Sweep
  \/ ServeError \/ ServeHello \/ HelloReplyFails \/ Lookup
  \/ ServeEcho \/ ServeVoice

Next ==
  \/ \E id \in Ids : \/ Post(id) \/ TakePending(id) \/ QueueDisconnected(id)
                     \/ Patch(id) \/ Listen(id)
  \/ PostVideo \/ TellListeners \/ Tick
  \/ Receive \/ Serve

Spec == Init /\ [][Next]_vars

\* The loop's thread runs whenever it has a packet in hand, and an HTTP thread
\* inside removeClient gets its second mutex.  Nothing makes a packet arrive.
Fairness ==
  /\ WF_vars(Serve)
  /\ \A id \in Ids : WF_vars(QueueDisconnected(id))

FairSpec == Spec /\ Fairness

-----------------------------------------------------------------------------
(* Properties.                                                             *)

Entries(id) == {e \in clients : e.id = id}

\* No other session's datagrams come from the same ip and port.
Unshared(id) == \A other \in Ids : AddrOf[other] = AddrOf[id] => other = id

\* A client that GET lists by name can be taken off the list: its DELETE will find
\* its address, or has it in hand, or has queued it for the loop.  (A duplicated
\* hello or a shared address breaks this in the code: see README, Hazards.)
Removable ==
  \A e \in clients :
    e.named /\ Unshared(e.id) /\ hellos[e.id] <= 1 =>
      \/ pendingClients[e.id] = e.addr
      \/ removing[e.id] = e.addr
      \/ e.addr \in disconnectedClients

\* An entry GET shows without a name is one whose hello is being served this
\* moment, or whose session was removed before its hello got there.
NamelessIsRemoved ==
  \A e \in clients :
    ~e.named => \/ pendingClients[e.id] = None
                \/ pc = "lookup" /\ Newest(e)

\* A session's own voice comes back to it exactly when it has asked for the echo an
\* odd number of times: no packet but its own echo, purge or hello changes that.
HearsItselfWhenAsked ==
  pc = "dispatch" /\ packet.kind = "voice" =>
    \A e \in Entries(packet.id) :
      Unshared(e.id) /\ hellos[e.id] <= 1 =>
        (e \in Audience(packet.addr) <=> echoes[e.id] % 2 = 1)

\* Whichever of the three ways an entry goes, its notification listener and its
\* queued requests go with it.
DropsListenerToo ==
  [][\A id \in Ids :
       Unshared(id) /\ Entries(id) # {} /\ Entries(id)' = {} =>
         id \notin listeners' \cup queued']_vars

\* A session that has spoken within Timeout and has neither been deleted nor been
\* the subject of a receive error keeps its place, whatever others do.
ActiveStays ==
  [][\A id \in Ids :
       /\ Unshared(id) /\ id \notin deleted
       /\ \E e \in Entries(id) : e.alive > 0 /\ now - e.alive < Timeout
       /\ Entries(id)' = {}
       => packet.kind = "error" /\ packet.addr = AddrOf[id]]_vars

\* Once a DELETE has found a session, the session's name leaves the room, provided
\* packets keep arriving (every client sends at least one each second).
DeletedLeaves ==
  \A id \in Ids :
    []<>(pc = "check") => (id \in deleted ~> \A e \in Entries(id) : ~e.named)

-----------------------------------------------------------------------------
(* The inductive invariant behind Removable and RefinesMembership.  The    *)
(* parts are checked by TLC together and proved in VoiceServer_proofs.     *)

\* What the tables can say about a session.
TablesOK ==
  \A id \in Ids :
    /\ pendingClients[id] \in {AddrOf[id], ZeroAddr, None}
    /\ removing[id] \in {AddrOf[id], ZeroAddr, None}
    /\ pendingClients[id] # None => removing[id] = None
    /\ id \notin issued => /\ pendingClients[id] = None
                           /\ removing[id] = None
                           /\ hellos[id] = 0

\* What the loop can have in hand.
PacketOK ==
  /\ InHand /\ packet.kind # "error" =>
       /\ packet.addr = AddrOf[packet.id]
       /\ packet.id \in issued
       /\ hellos[packet.id] > 0
  /\ pc = "lookup" => /\ \E e \in clients : Newest(e)
                      /\ \A e \in clients : Newest(e) => e.id = packet.id /\ ~e.named

\* What the vector can hold.
EntriesOK ==
  /\ \A e \in clients : /\ e.addr = AddrOf[e.id]
                        /\ e.slot <= served
                        /\ hellos[e.id] > 0
                        /\ e.named => pendingClients[e.id] # ZeroAddr
  /\ \A e, f \in clients : e.slot = f.slot => e = f

\* A session whose hello came once has at most one entry, and none before its
\* hello is served.
OneEntryPerHello ==
  /\ \A e, f \in clients : e.id = f.id /\ hellos[e.id] <= 1 => e = f
  /\ \A e \in clients :
       /\ pc \in {"check", "sweep", "dispatch"}
       /\ packet.kind = "hello" /\ packet.id = e.id
       => hellos[e.id] > 1

Inv ==
  /\ TypeOK
  /\ TablesOK
  /\ PacketOK
  /\ EntriesOK
  /\ OneEntryPerHello
  /\ NamelessIsRemoved
  /\ Removable

-----------------------------------------------------------------------------
\* The room as its users see it.
phase ==
  [id \in Ids |->
     IF id \notin issued THEN "unknown"
     ELSE IF pendingClients[id] = ZeroAddr THEN "registered"
     ELSE IF pendingClients[id] # None THEN "member"
     ELSE IF \E e \in Entries(id) : e.named THEN "leaving"
     ELSE "gone"]

Membership == INSTANCE RoomMembership

\* Sessions only move forward: nobody who left comes back under the same id.
RefinesMembership == Membership!Spec
=============================================================================
