----------------------------- MODULE Descriptors -----------------------------
(***************************************************************************)
(* Descriptor numbers of the server's process and the entries of one       *)
(* `clients` vector, which VoiceServer and VideoStreamingServer have each. *)
(*                                                                         *)
(* An entry contains a UDPClientSocket, which opens a descriptor that      *)
(* nothing is ever sent or received on.  The class has a destructor of its *)
(* own, which closes, and so no move operations: a vector that grows or    *)
(* erases copies the number into another entry and closes it in the first. *)
(* A number that was closed is the next one somebody opens.                *)
(*                                                                         *)
(* The vector is the receive loop's; the others open and close meanwhile:  *)
(* HTTP threads, notification connections, rooms that are made, and this   *)
(* room's server socket.  What else ends the loop is in VoiceServer.       *)
(***************************************************************************)
EXTENDS Integers, Sequences, FiniteSets

CONSTANTS
  Addresses,      \* where hellos come from
  Strangers,      \* the others, one descriptor each
  Nobody,
  LastNumber,     \* the highest number the process may open
  Reserved,       \* entries the vector has room for at first (predictedNumberOfClients)
  MaxMembers,     \* bound on the entries
  MaxHellos       \* bound on the hellos

ASSUME NumbersAssumption ==
  /\ LastNumber \in Nat /\ Reserved \in Nat \ {0} /\ MaxHellos \in Nat /\ MaxMembers \in Nat
  /\ IsFiniteSet(Strangers)
  /\ LastNumber + 1 >= Cardinality(Strangers) + MaxMembers
  /\ Nobody \notin Strangers \cup Nat
  /\ Strangers \cap Nat = {}

Numbers == 0..LastNumber
NoNumber == -1          \* SOCKET_ERROR
Sockets == 1..MaxHellos

Entry == [addr : Addresses, made : Sockets, fd : Numbers]

VARIABLES
  clients, capacity,    \* the vector
  closing,              \* entries whose destructors are still to run
  ended,                \* the descriptors ran out: an exception ended the loop's task
  made,                 \* sockets opened by entries so far
  holder,               \* number -> who opened it: a socket, a stranger, Nobody
  number,               \* stranger -> the number it thinks is its own
  copied,               \* history: an entry was copied
  early,                \* history: strangers that have had their descriptor since before
  displaced             \* history: erased entries that another one was copied over

vector == <<clients, capacity, closing, ended, made>>
history == <<copied, early, displaced>>
descriptorsVars == <<vector, holder, number, history>>

DescriptorsTypeOK ==
  /\ clients \in Seq(Entry) /\ capacity \in Nat
  /\ closing \in Seq(Entry)
  /\ ended \in BOOLEAN
  /\ made \in 0..MaxHellos
  /\ holder \in [Numbers -> {Nobody} \cup Sockets \cup Strangers]
  /\ number \in [Strangers -> Numbers \cup {NoNumber}]
  /\ copied \in BOOLEAN
  /\ early \subseteq Strangers
  /\ displaced \in Nat

DescriptorsInit ==
  /\ clients = <<>> /\ capacity = Reserved /\ closing = <<>> /\ ended = FALSE
  /\ made = 0
  /\ holder = [n \in Numbers |-> Nobody]
  /\ number = [s \in Strangers |-> NoNumber]
  /\ copied = FALSE /\ early = {} /\ displaced = 0

-----------------------------------------------------------------------------
(* The operating system: the lowest number that is free.                   *)

Lowest(n) == holder[n] = Nobody /\ \A m \in 0 .. n-1 : holder[m] # Nobody

Full == \A n \in Numbers : holder[n] # Nobody

-----------------------------------------------------------------------------
(* The vector.                                                             *)

LoopFree == ~ended /\ closing = <<>>

\* Mutant: close() keeps the number, and is called by hand before.
ClosedTwice(entries) == entries \o entries

\* The destructors that run, in this order.
Destroyed(entries) == entries

\* emplace_back, in place.
Append1(e) ==
  /\ Len(clients) < capacity
  /\ clients' = Append(clients, e)
  /\ UNCHANGED <<capacity, closing, copied>>

\* emplace_back of a full vector: new room for twice as many, the new entry, copies of
\* the others, and the others' destructors.
Grow(e) ==
  /\ Len(clients) = capacity
  /\ clients' = Append(clients, e) /\ capacity' = 2 * capacity
  /\ closing' = Destroyed(clients)
  /\ copied' = TRUE

Hello(a) ==
  /\ LoopFree /\ made < MaxHellos /\ Len(clients) < MaxMembers
  /\ \E n \in Numbers :
       /\ Lowest(n)
       /\ holder' = [holder EXCEPT ![n] = made + 1]
       /\ LET e == [addr |-> a, made |-> made + 1, fd |-> n] IN Append1(e) \/ Grow(e)
  /\ made' = made + 1
  /\ UNCHANGED <<ended, number, early, displaced>>

\* socket() fails, which the constructor turns into an exception.
HelloFails ==
  /\ LoopFree /\ made < MaxHellos /\ Len(clients) < MaxMembers
  /\ Full
  /\ ended' = TRUE
  /\ UNCHANGED <<clients, capacity, closing, made, holder, number, history>>

\* The entries at the positions in gone are erased: each survivor that has to is copied
\* down onto its new position, which loses the number that was there, and the positions
\* left over at the end are destroyed.
Erase(gone) ==
  LET left == Len(clients) - Cardinality(gone)
  IN  /\ LoopFree
      /\ \E from \in [1..left -> DOMAIN clients \ gone] :
           /\ \A i, j \in 1..left : i < j => from[i] < from[j]
           /\ clients' = [i \in 1..left |-> clients[from[i]]]
      /\ closing' = Destroyed(SubSeq(clients, left + 1, Len(clients)))
      /\ copied' = (copied \/ \E p \in gone : p <= left)
      /\ displaced' = displaced + Cardinality({p \in gone : p <= left})
      /\ UNCHANGED <<capacity, ended, made, holder, number, early>>

\* std::erase by address: purge and receive error.
EraseAddress(a) ==
  LET gone == {p \in DOMAIN clients : clients[p].addr = a}
  IN  gone # {} /\ Erase(gone)

\* clients.erase by position: the sweep.
EraseStale(p) == p \in DOMAIN clients /\ Erase({p})

\* Mutant: a base class without the destructor that closes.
NotClosed(n) == holder[n]

Closed(n) == Nobody

\* ~UDPSocket: whoever has the number now.
CloseNext ==
  /\ closing # <<>>
  /\ closing' = Tail(closing)
  /\ LET n == Head(closing).fd IN holder' = [holder EXCEPT ![n] = Closed(n)]
  /\ UNCHANGED <<clients, capacity, ended, made, number, history>>

-----------------------------------------------------------------------------
(* The others.                                                             *)

Opens(s) ==
  /\ number[s] = NoNumber
  /\ \E n \in Numbers :
       /\ Lowest(n)
       /\ holder' = [holder EXCEPT ![n] = s]
       /\ number' = [number EXCEPT ![s] = n]
  /\ early' = IF copied THEN early ELSE early \cup {s}
  /\ UNCHANGED <<vector, copied, displaced>>

\* It closes the number it knows, whoever has it by now.
Closes(s) ==
  /\ number[s] # NoNumber
  /\ holder' = [holder EXCEPT ![number[s]] = Nobody]
  /\ number' = [number EXCEPT ![s] = NoNumber]
  /\ early' = early \ {s}
  /\ UNCHANGED <<vector, copied, displaced>>

-----------------------------------------------------------------------------
DescriptorsNext ==
  \/ \E a \in Addresses : Hello(a) \/ EraseAddress(a)
  \/ \E p \in 1..MaxMembers : EraseStale(p)
  \/ HelloFails \/ CloseNext
  \/ \E s \in Strangers : Opens(s) \/ Closes(s)

DescriptorsSpec == DescriptorsInit /\ [][DescriptorsNext]_descriptorsVars

-----------------------------------------------------------------------------
(* Properties.                                                             *)

Held(e) == holder[e.fd] = e.made

Owns(s) == number[s] # NoNumber => holder[number[s]] = s

\* The room's sockets that are open and in no entry.
Leaked ==
  {k \in Sockets :
     \E n \in Numbers :
       /\ holder[n] = k
       /\ \A p \in DOMAIN clients : clients[p].fd # n \/ clients[p].made # k
       /\ \A p \in DOMAIN closing : closing[p].fd # n \/ closing[p].made # k}

\* The vectors of UDPClientSocket: while a vector has neither outgrown its room nor lost
\* an entry before its last, each entry has its own open descriptor and closes no other.
Tidy ==
  ~copied =>
    /\ \A p \in DOMAIN clients : Held(clients[p])
    /\ \A p \in DOMAIN closing : Held(closing[p])
    /\ \A s \in Strangers : Owns(s)

\* Every descriptor that is lost was that of an erased entry another one was copied over.
LeaksCounted == Cardinality(Leaked) <= displaced

\* The copied numbers: whatever is grown, erased and closed twice, a descriptor that was
\* open before the first copy stays its owner's: the room's own server socket, say.
EarlyKeep == \A s \in early : holder[number[s]] = s

\* A room whose members would all fit does not run out of descriptors before it has
\* erased an entry that was not its last.
RunsOutByLeaks == ended => displaced > 0

\* What holds between any two steps of the vector and of the others.
DescriptorsInv == DescriptorsTypeOK /\ Tidy /\ LeaksCounted /\ RunsOutByLeaks
=============================================================================
