------------------------- MODULE NotificationsServer -------------------------
(***************************************************************************)
(* A room's NotificationsServer with its threads and its two mutexes: the  *)
(* worker that tells queued notifications once a second, a thread per      *)
(* accepted connection, and the callers of pushNotification (an HTTP       *)
(* thread) and of remove (the voice server's receive loop).                *)
(*                                                                         *)
(* A short critical section is one action; the worker's is not short (it   *)
(* sends over TCP while it holds both mutexes) and remove's two locks are  *)
(* taken the way std::scoped_lock takes them, one by one with back-off.    *)
(***************************************************************************)
EXTENDS Integers, Vectors

CONSTANTS
  Ids,          \* ids of the room's sessions
  Conns,        \* TCP connections to the notification port
  IdOf,         \* IdOf[c]: the session whose client opened c
  Garbage,      \* an id that no session has
  Free,         \* a mutex nobody holds
  Plans,        \* what may be met: the room's sessions, those of them that send PATCH
                \* requests, the connections that come, what an uninitialised id may
                \* hold, and bounds on the PATCH requests and on the calls of remove
  SocketBuffer  \* bytes TCP takes for a peer that does not read

ASSUME ConstantsAssumption ==
  /\ IdOf \in [Conns -> Ids]
  /\ \A c, d \in Conns : IdOf[c] = IdOf[d] => c = d
  /\ Garbage \notin Ids
  /\ Plans \subseteq [ids : SUBSET Ids, patch : SUBSET Ids, conns : SUBSET Conns,
                      junk : SUBSET (Ids \cup {Garbage}), pushes : Nat, removes : Nat]
  /\ SocketBuffer \in Nat

ASSUME FreeAssumption == Free \notin Ids \cup {"worker", "serve"}

VARIABLES
  plan,                 \* which of the plans this room has; it stays
  clients,              \* the vector of listeners; each owns its connection's cleanup
  notifications,        \* the vector of queued notifications, by source id
  notificationsMutex, clientsMutex,   \* the thread that holds it, or Free
  worker,               \* where the worker is: [at, i, j]
  conn,                 \* c -> where its clientConnection is
  peer,                 \* c -> whether the client's end is open
  sent,                 \* c -> notifications sent over it
  packets,              \* c -> packets its client has received
  cleaned,              \* c -> how often its cleanup has run
  push,                 \* the pushNotification call in progress: its id, or Free
  remover,              \* the remove call in progress: [at, id, first]
  pushes, removes,      \* calls so far
  crashed               \* an exception left the worker: std::terminate

calls == <<push, remover, pushes, removes>>
vars == <<plan, clients, notifications, notificationsMutex, clientsMutex, worker, conn,
          peer, sent, packets, cleaned, calls, crashed>>

notificationSize == 64   \* what a client reads at a time
longText == 40           \* mutant: a longer text, pushed without its padding
textSize == 17           \* "fix_speaker_delay", pushed without its padding

Listener == [id : Ids \cup {Garbage}, conn : Conns]
Mutexes == {"notifications", "clients"}
Idle == [at |-> "idle", id |-> Garbage, first |-> "clients"]
Asleep == [at |-> "sleep", i |-> 1, j |-> 1]

TypeOK ==
  /\ plan \in Plans
  /\ clients \in Seq(Listener)
  /\ notifications \in Seq(Ids)
  /\ notificationsMutex \in {Free, "worker", "serve"}
  /\ clientsMutex \in {Free, "worker", "serve"}
  /\ worker \in [at : {"sleep", "locked", "send"}, i : Nat, j : Nat]
  /\ conn \in [Conns -> {"none", "reading", "appending", "served"}
                          \X (Ids \cup {Garbage})]
  /\ peer \in [Conns -> {"up", "gone"}]
  /\ sent \in [Conns -> Nat] /\ packets \in [Conns -> Nat] /\ cleaned \in [Conns -> Nat]
  /\ push \in Ids \cup {Free}
  /\ remover \in [at : {"idle", "first", "try"}, id : Ids \cup {Garbage}, first : Mutexes]
  /\ pushes \in Nat /\ removes \in Nat
  /\ crashed \in BOOLEAN

Init ==
  /\ plan \in Plans
  /\ clients = <<>> /\ notifications = <<>>
  /\ notificationsMutex = Free /\ clientsMutex = Free
  /\ worker = Asleep
  /\ conn = [c \in Conns |-> <<"none", Garbage>>]
  /\ peer = [c \in Conns |-> "up"]
  /\ sent = [c \in Conns |-> 0]
  /\ packets = [c \in Conns |-> 0]
  /\ cleaned = [c \in Conns |-> 0]
  /\ push = Free /\ remover = Idle
  /\ pushes = 0 /\ removes = 0
  /\ crashed = FALSE

-----------------------------------------------------------------------------
(* Connections.                                                            *)

Accept(c) ==
  /\ conn[c][1] = "none"
  /\ conn' = [conn EXCEPT ![c] = <<"reading", Garbage>>]
  /\ UNCHANGED <<clients, notifications, notificationsMutex, clientsMutex, worker,
                 peer, sent, packets, cleaned, calls, crashed>>

\* receiveBytes: the session's id, or, from a peer that closed first, whatever the
\* uninitialised variable of line 79 held: some session's id or nobody's.
ReadId(c) ==
  /\ conn[c][1] = "reading"
  /\ \/ conn' = [conn EXCEPT ![c] = <<"appending", IdOf[c]>>]
     \/ /\ peer[c] = "gone"
        /\ \E id \in plan.junk : conn' = [conn EXCEPT ![c] = <<"appending", id>>]
  /\ UNCHANGED <<clients, notifications, notificationsMutex, clientsMutex, worker,
                 peer, sent, packets, cleaned, calls, crashed>>

\* Under clientsMutex: the connection's thread hands the connection over.
AppendListener(c) ==
  /\ conn[c][1] = "appending" /\ clientsMutex = Free
  /\ conn' = [conn EXCEPT ![c][1] = "served"]
  /\ clients' = Append(clients, [id |-> conn[c][2], conn |-> c])
  /\ UNCHANGED <<notifications, notificationsMutex, clientsMutex, worker, peer,
                 sent, packets, cleaned, calls, crashed>>

\* The client goes away.
PeerCloses(c) ==
  /\ conn[c][1] # "none" /\ peer[c] = "up"
  /\ peer' = [peer EXCEPT ![c] = "gone"]
  /\ UNCHANGED <<clients, notifications, notificationsMutex, clientsMutex, worker,
                 conn, sent, packets, cleaned, calls, crashed>>

Unread(c) == textSize * sent[c] - notificationSize * packets[c]

\* The client's notification thread takes a full packet.
ReadPacket(c) ==
  /\ peer[c] = "up" /\ Unread(c) >= notificationSize
  /\ packets' = [packets EXCEPT ![c] = @ + 1]
  /\ UNCHANGED <<clients, notifications, notificationsMutex, clientsMutex, worker,
                 conn, peer, sent, cleaned, calls, crashed>>

-----------------------------------------------------------------------------
(* The worker.                                                             *)

LockNotifications ==
  /\ worker.at = "sleep" /\ notificationsMutex = Free
  /\ notificationsMutex' = "worker"
  /\ worker' = [worker EXCEPT !.at = "locked"]
  /\ UNCHANGED <<clients, notifications, clientsMutex, conn, peer, sent, packets,
                 cleaned, calls, crashed>>

NothingQueued ==
  /\ worker.at = "locked" /\ notifications = <<>>
  /\ notificationsMutex' = Free
  /\ worker' = Asleep
  /\ UNCHANGED <<clients, notifications, clientsMutex, conn, peer, sent, packets,
                 cleaned, calls, crashed>>

LockClients ==
  /\ worker.at = "locked" /\ notifications # <<>> /\ clientsMutex = Free
  /\ clientsMutex' = "worker"
  /\ worker' = [at |-> "send", i |-> 1, j |-> 1]
  /\ UNCHANGED <<clients, notifications, notificationsMutex, conn, peer, sent,
                 packets, cleaned, calls, crashed>>

\* The next turn of the two loops: the next listener of the same notification, or
\* the first one of the next notification.
Step == IF worker.j < Len(clients) THEN [worker EXCEPT !.j = @ + 1]
                                   ELSE [worker EXCEPT !.i = @ + 1, !.j = 1]

Sending == worker.at = "send" /\ worker.i <= Len(notifications) /\ clients # <<>>

\* The source's own listener, or a send that TCP takes.
Send ==
  /\ Sending
  /\ LET to == clients[worker.j] IN
       \/ to.id = notifications[worker.i] /\ UNCHANGED sent
       \/ /\ to.id # notifications[worker.i]
          /\ peer[to.conn] = "gone" \/ Unread(to.conn) + textSize <= SocketBuffer
          /\ sent' = [sent EXCEPT ![to.conn] = @ + 1]
  /\ worker' = Step
  /\ UNCHANGED <<clients, notifications, notificationsMutex, clientsMutex, conn,
                 peer, packets, cleaned, calls, crashed>>

\* A send to a peer that closed may fail; nothing catches what sendBytes throws.
SendFails ==
  /\ Sending
  /\ clients[worker.j].id # notifications[worker.i]
  /\ peer[clients[worker.j].conn] = "gone"
  /\ crashed' = TRUE
  /\ UNCHANGED <<clients, notifications, notificationsMutex, clientsMutex, worker,
                 conn, peer, sent, packets, cleaned, calls>>

\* All told: forget, unlock both, sleep.
Clear ==
  /\ worker.at = "send" /\ ~Sending
  /\ notifications' = <<>>
  /\ notificationsMutex' = Free /\ clientsMutex' = Free
  /\ worker' = Asleep
  /\ UNCHANGED <<clients, conn, peer, sent, packets, cleaned, calls, crashed>>

-----------------------------------------------------------------------------
(* pushNotification.                                                       *)

CallPush(id) ==
  /\ push = Free /\ pushes < plan.pushes
  /\ push' = id /\ pushes' = pushes + 1
  /\ UNCHANGED <<clients, notifications, notificationsMutex, clientsMutex, worker,
                 conn, peer, sent, packets, cleaned, remover, removes, crashed>>

\* Under notificationsMutex.
Push ==
  /\ push # Free /\ notificationsMutex = Free
  /\ notifications' = Append(notifications, push)
  /\ push' = Free
  /\ UNCHANGED <<clients, notificationsMutex, clientsMutex, worker, conn, peer, sent,
                 packets, cleaned, remover, pushes, removes, crashed>>

-----------------------------------------------------------------------------
(* remove.                                                                 *)

CallRemove(id) ==
  /\ remover = Idle /\ removes < plan.removes
  /\ remover' = [at |-> "first", id |-> id, first |-> "clients"]
  /\ removes' = removes + 1
  /\ UNCHANGED <<clients, notifications, notificationsMutex, clientsMutex, worker,
                 conn, peer, sent, packets, cleaned, push, pushes, crashed>>

\* Mutant: remove takes neither mutex.
Unguarded(m) == Free

Holder(m) == IF m = "clients" THEN clientsMutex ELSE notificationsMutex
SetHolder(m, t) ==
  IF m = "clients" THEN clientsMutex' = t /\ UNCHANGED notificationsMutex
                   ELSE notificationsMutex' = t /\ UNCHANGED clientsMutex
Other(m) == IF m = "clients" THEN "notifications" ELSE "clients"

\* std::lock waits for one of the two.
LockFirst ==
  /\ remover.at = "first" /\ Holder(remover.first) = Free
  /\ SetHolder(remover.first, "serve")
  /\ remover' = [remover EXCEPT !.at = "try"]
  /\ UNCHANGED <<clients, notifications, worker, conn, peer, sent, packets, cleaned,
                 push, pushes, removes, crashed>>

\* Mutant: two lock_guards one after the other, which do not back off.
HoldAndWait == FALSE

\* The other one is taken: give the first back and wait for the other instead.
BackOff ==
  /\ remover.at = "try" /\ Holder(Other(remover.first)) # Free
  /\ SetHolder(remover.first, Free)
  /\ remover' = [remover EXCEPT !.at = "first", !.first = Other(@)]
  /\ UNCHANGED <<clients, notifications, worker, conn, peer, sent, packets, cleaned,
                 push, pushes, removes, crashed>>

Of(id) == {k \in DOMAIN clients : clients[k].id = id}

\* Mutant: move assignment copies the cleanup, so the whole tail runs it.
EraseIfCopies(id) ==
  LET kept == Erased(clients, Of(id))
      destroyed == {clients[k].conn : k \in {m \in DOMAIN clients : m > Len(kept)}}
  IN  /\ clients' = kept
      /\ cleaned' = [c \in Conns |-> IF c \in destroyed THEN cleaned[c] + 1 ELSE cleaned[c]]

\* std::erase_if moves each survivor down onto the place the removed ones leave, and
\* move assignment forgets the cleanup it writes over; then the tail is destroyed,
\* where what was not moved from still has its cleanup, and runs it.
EraseIf(id) ==
  LET kept == Erased(clients, Of(id))
      destroyed == {clients[k].conn : k \in {m \in Of(id) : m > Len(kept)}}
  IN  /\ clients' = kept
      /\ cleaned' = [c \in Conns |-> IF c \in destroyed THEN cleaned[c] + 1 ELSE cleaned[c]]

\* Mutant: what the removed session asked for is still told.
KeepsQueued(id) == notifications

\* std::erase_if on notifications
WithoutQueued(id) ==
  Erased(notifications, {k \in DOMAIN notifications : notifications[k] = id})

\* Under both mutexes.
EraseBoth ==
  /\ remover.at = "try" /\ Holder(Other(remover.first)) = Free
  /\ EraseIf(remover.id)
  /\ notifications' = WithoutQueued(remover.id)
  /\ SetHolder(remover.first, Free)
  /\ remover' = Idle
  /\ UNCHANGED <<worker, conn, peer, sent, packets, push, pushes, removes, crashed>>

-----------------------------------------------------------------------------
Work == \/ LockNotifications \/ NothingQueued \/ LockClients
        \/ Send \/ Clear

Next ==
  /\ ~crashed /\ UNCHANGED plan
  /\ \/ \E c \in plan.conns : \/ Accept(c) \/ ReadId(c) \/ AppendListener(c)
                              \/ PeerCloses(c) \/ ReadPacket(c)
     \/ Work \/ SendFails
     \/ \E id \in plan.patch : CallPush(id)
     \/ \E id \in plan.ids : CallRemove(id)
     \/ Push \/ LockFirst \/ BackOff \/ EraseBoth

Spec == Init /\ [][Next]_vars

Running(A) == ~crashed /\ A /\ UNCHANGED plan

\* Every thread runs, a waiter of a mutex that is free again and again gets it, and a
\* client that is there reads what is there.
Fairness ==
  /\ WF_vars(Running(Work))
  /\ SF_vars(Running(Push))
  /\ SF_vars(Running(LockFirst))
  /\ WF_vars(Running(BackOff \/ EraseBoth))
  /\ \A c \in Conns : WF_vars(Running(ReadPacket(c)))

FairSpec == Spec /\ Fairness

-----------------------------------------------------------------------------
(* Properties.                                                             *)

Listed(c) == \E k \in DOMAIN clients : clients[k].conn = c

\* The shuffling of move-assigned entries never pairs a listener's id with another
\* one's connection, and never lists a connection twice.
EntriesWhole ==
  /\ \A k \in DOMAIN clients :
       clients[k].id = conn[clients[k].conn][2]
  /\ \A k, l \in DOMAIN clients : clients[k].conn = clients[l].conn => k = l

\* A connection is closed at most once, and never while it is still listed: the
\* worker does not send over a closed, or a reused, descriptor.
ClosedOnce == \A c \in Conns : cleaned[c] <= (IF Listed(c) THEN 0 ELSE 1)

\* What holds between any two steps of worker, connections and callers.
HubInv == TypeOK /\ EntriesWhole /\ ClosedOnce

\* The worker holds both mutexes while it sends, and nobody else touches what it
\* iterates over: what it tells is what it forgets.
WorkerAlone ==
  [][worker.at = "send" /\ worker'.at = "send" =>
       UNCHANGED <<clients, notifications>>]_vars

\* Although the padding is dropped, every packet a client reads contains the whole
\* text of a notification, so the client understands every packet it gets.
PacketsUnderstood ==
  \A c \in Conns : \A b \in 0..packets[c] - 1 :
    \E k \in 0..sent[c] - 1 :
      /\ notificationSize * b <= textSize * k
      /\ textSize * (k + 1) <= notificationSize * (b + 1)

\* Calls of remove and of pushNotification come back: neither the voice server's loop
\* nor a PATCH is stopped for good by the worker, as long as the clients that are
\* connected read.
CallsReturn ==
  /\ remover # Idle ~> (remover = Idle \/ crashed)
  /\ push # Free ~> (push = Free \/ crashed)

Served == {c \in Conns : conn[c][1] = "served"}

\* A connection listed under its own client's id counts as that session's connection,
\* even if the id was there by chance; one listed under another's id is a stray.
Hub == INSTANCE NotificationHub WITH
  listeners <- {clients[k].id : k \in DOMAIN clients} \ {Garbage},
  queued <- {notifications[k] : k \in DOMAIN notifications},
  connected <- {IdOf[c] : c \in {d \in Served : conn[d][2] = IdOf[d]}},
  strays <- {conn[c][2] : c \in {d \in Served : conn[d][2] # IdOf[d]}} \ {Garbage}

\* The vectors, the mutexes and the threads together are the hub the room relies on.
RefinesHub == Hub!Spec
=============================================================================
