--------------------------- MODULE NotificationHub ---------------------------
(***************************************************************************)
(* What a room's NotificationsServer promises the rest of the room: a set  *)
(* of listening clients and the set of clients whose request is waiting to *)
(* be told to the others.  NotificationsServer.tla is the code behind this *)
(* promise; VoiceServer.tla uses the promise.                              *)
(***************************************************************************)
CONSTANT Ids            \* the ids POST /room/voice has handed out or may hand out

VARIABLES listeners,    \* ids of NotificationsServer::clients
          queued,       \* source ids of NotificationsServer::notifications
          connected,    \* ids that have opened their notification connection
  strays        \* ids that connections of other sessions have been listed under

hubVars == <<listeners, queued, connected, strays>>

TypeOK ==
  /\ listeners \subseteq Ids
  /\ queued \subseteq Ids
  /\ connected \subseteq Ids
  /\ strays \subseteq Ids

Init ==
  /\ listeners = {}
  /\ queued = {}
  /\ connected = {}
  /\ strays = {}

\* clientConnection: the connection of id delivered its eight bytes.  A client
\* opens one connection per id (Connect::connect), so an id connects once.
Connect(id) ==
  /\ id \notin connected
  /\ connected' = connected \cup {id}
  /\ listeners' = listeners \cup {id}
  /\ UNCHANGED <<queued, strays>>

\* clientConnection, of a connection that broke before its eight bytes were there: the
\* id it is listed under was never initialised (line 79) and may be any session's, one
\* that has been removed among them.  Nothing takes this listener away again but a
\* remove of the id it happened to get.
Stray(id) ==
  /\ strays' = strays \cup {id}
  /\ listeners' = listeners \cup {id}
  /\ UNCHANGED <<queued, connected>>

\* pushNotification
Push(id) ==
  /\ queued' = queued \cup {id}
  /\ UNCHANGED <<listeners, connected, strays>>

\* One pass of the worker: everything queued is told and forgotten.
Flush ==
  /\ queued # {}
  /\ queued' = {}
  /\ UNCHANGED <<listeners, connected, strays>>

\* remove, called for every id of S
Drop(S) ==
  /\ listeners' = listeners \ S
  /\ queued' = queued \ S
  /\ UNCHANGED <<connected, strays>>

Next ==
  \/ \E id \in Ids : Connect(id) \/ Stray(id) \/ Push(id) \/ Drop({id})
  \/ Flush

Spec == Init /\ [][Next]_hubVars
=============================================================================
