-------------------------------- MODULE Room ---------------------------------
(***************************************************************************)
(* The Room executor and the receive loops it starts.  HTTP threads serve  *)
(* requests; POST, GET and PATCH hold roomsMutex throughout, DELETE does   *)
(* not take it.  A POST starts the loops of its room with std::async and   *)
(* keeps the future in startHandle, whose assignment waits for the task    *)
(* the old future stands for.  A loop runs until it reads `started` false. *)
(*                                                                         *)
(* What the loops do with a packet is VoiceServer.tla; here it is enough   *)
(* that a packet may clear `started` or end the loop with an exception.    *)
(***************************************************************************)
EXTENDS Naturals, FiniteSets

CONSTANTS
  Rooms,      \* room names
  Threads,    \* HTTP threads of the web framework
  Free,       \* roomsMutex held by nobody
  None,       \* no room, no server
  MaxStarts   \* bound on the loops started for one server

ASSUME ConstantsAssumption ==
  /\ Free \notin Threads
  /\ None \notin Rooms
  /\ MaxStarts \in Nat \ {0}

Kinds == {"voice", "video"}
Servers == Rooms \X Kinds
Tasks == 1..MaxStarts

VARIABLES
  rooms,        \* the rooms that exist
  roomsMutex,
  started,      \* server -> its `started` flag
  loop,         \* server -> task -> where that loop is
  handle,       \* server -> the task of startHandle, 0 when it has none
  thread        \* HTTP thread -> the request it serves: [at, room, kind, server, task]

vars == <<rooms, roomsMutex, started, loop, handle, thread>>

NoRequest == [at |-> "idle", room |-> None, kind |-> "voice", server |-> None, task |-> 0]

\* What a thread can be doing: a request names a room, once it is in `start` a
\* server, and while startHandle is assigned the new task.
Requests ==
  {q \in [at : {"idle", "post", "start", "assign", "reply", "stop"},
          room : Rooms \cup {None}, kind : Kinds,
          server : Servers \cup {None}, task : Tasks \cup {0}] :
     /\ q.at # "idle" => q.room \in Rooms
     /\ q.at \in {"start", "assign"} => q.server \in Servers
     /\ q.at = "assign" => q.task \in Tasks}

TypeOK ==
  /\ rooms \subseteq Rooms
  /\ roomsMutex \in Threads \cup {Free}
  /\ started \in [Servers -> BOOLEAN]
  /\ loop \in [Servers -> [Tasks -> {"none", "begin", "check", "recv", "done", "failed"}]]
  /\ handle \in [Servers -> Tasks \cup {0}]
  /\ thread \in [Threads -> Requests]

Init ==
  /\ rooms = {}
  /\ roomsMutex = Free
  /\ started = [s \in Servers |-> FALSE]
  /\ loop = [s \in Servers |-> [k \in Tasks |-> "none"]]
  /\ handle = [s \in Servers |-> 0]
  /\ thread = [h \in Threads |-> NoRequest]

-----------------------------------------------------------------------------
(* POST /room/voice and POST /room/video.                                  *)

Post(h, room, kind) ==
  /\ thread[h].at = "idle"
  /\ thread' = [thread EXCEPT ![h] = [NoRequest EXCEPT !.at = "post", !.room = room, !.kind = kind]]
  /\ UNCHANGED <<rooms, roomsMutex, started, loop, handle>>

\* The lock is had, the room is found or made, and the voice server's start is
\* called: for a video request too.
EnterRoom(h) ==
  /\ thread[h].at = "post" /\ roomsMutex = Free
  /\ \A kind \in Kinds : loop[<<thread[h].room, kind>>][MaxStarts] = "none"    \* bound
  /\ roomsMutex' = h
  /\ rooms' = rooms \cup {thread[h].room}
  /\ thread' = [thread EXCEPT ![h].at = "start", ![h].server = <<thread[h].room, "voice">>]
  /\ UNCHANGED <<started, loop, handle>>

\* Where the request goes when `start` of its current server has returned: a video
\* request starts the video server next.
AfterStart(h) ==
  IF thread[h].kind = "video" /\ thread[h].server[2] = "voice"
    THEN [thread[h] EXCEPT !.at = "start", !.server = <<thread[h].room, "video">>, !.task = 0]
    ELSE [thread[h] EXCEPT !.at = "reply", !.server = None, !.task = 0]

\* start finds the server started.
AlreadyStarted(h) ==
  /\ thread[h].at = "start" /\ started[thread[h].server]
  /\ thread' = [thread EXCEPT ![h] = AfterStart(h)]
  /\ UNCHANGED <<rooms, roomsMutex, started, loop, handle>>

\* start does not: std::async makes a task, whose thread has not run yet.
Launch(h) ==
  /\ thread[h].at = "start" /\ ~started[thread[h].server]
  /\ \E k \in Tasks :
       /\ loop[thread[h].server][k] = "none"
       /\ \A j \in Tasks : j < k => loop[thread[h].server][j] # "none"
       /\ loop' = [loop EXCEPT ![thread[h].server][k] = "begin"]
       /\ thread' = [thread EXCEPT ![h].at = "assign", ![h].task = k]
  /\ UNCHANGED <<rooms, roomsMutex, started, handle>>

\* Mutants: the assignment does not wait; it waits for a loop that failed, too.
Detached(s, k) == TRUE
OverInPeace(s, k) == loop[s][k] = "done"

Over(s, k) == loop[s][k] \in {"done", "failed"}

\* startHandle = the new future: waits for the task of the old one.
AssignHandle(h) ==
  /\ thread[h].at = "assign"
  /\ LET s == thread[h].server IN
       /\ \A k \in Tasks : k = handle[s] => Over(s, k)
       /\ handle' = [handle EXCEPT ![s] = thread[h].task]
  /\ thread' = [thread EXCEPT ![h] = AfterStart(h)]
  /\ UNCHANGED <<rooms, roomsMutex, started, loop>>

\* The response is built and the lock_guard leaves.
Reply(h) ==
  /\ thread[h].at = "reply"
  /\ roomsMutex' = Free
  /\ thread' = [thread EXCEPT ![h] = NoRequest]
  /\ UNCHANGED <<rooms, started, loop, handle>>

-----------------------------------------------------------------------------
(* DELETE /room/video: no lock.                                            *)

Delete(h, room) ==
  /\ thread[h].at = "idle" /\ room \in rooms
  /\ started[<<room, "video">>]
  /\ thread' = [thread EXCEPT ![h] = [NoRequest EXCEPT !.at = "stop", !.room = room, !.kind = "video"]]
  /\ UNCHANGED <<rooms, roomsMutex, started, loop, handle>>

\* The loop is told to stop; it may be waiting for a packet.
Stop(h) ==
  /\ thread[h].at = "stop"
  /\ started' = [started EXCEPT ![<<thread[h].room, "video">>] = FALSE]
  /\ thread' = [thread EXCEPT ![h] = NoRequest]
  /\ UNCHANGED <<rooms, roomsMutex, loop, handle>>

-----------------------------------------------------------------------------
(* The loops.                                                              *)

\* The task's thread runs at last.
Begin(s, k) ==
  /\ loop[s][k] = "begin"
  /\ started' = [started EXCEPT ![s] = TRUE]
  /\ loop' = [loop EXCEPT ![s][k] = "check"]
  /\ UNCHANGED <<rooms, roomsMutex, handle, thread>>

\* Mutant: the loop does not look at the flag.
LoopForever(s, k) ==
  /\ loop[s][k] = "check"
  /\ loop' = [loop EXCEPT ![s][k] = "recv"]
  /\ UNCHANGED <<rooms, roomsMutex, started, handle, thread>>

\* while (started)
CheckStarted(s, k) ==
  /\ loop[s][k] = "check"
  /\ loop' = [loop EXCEPT ![s][k] = IF started[s] THEN "recv" ELSE "done"]
  /\ UNCHANGED <<rooms, roomsMutex, started, handle, thread>>

\* A packet is served: any of the loops on the socket may get it.
ServePacket(s, k) ==
  /\ loop[s][k] = "recv"
  /\ loop' = [loop EXCEPT ![s][k] = "check"]
  /\ UNCHANGED <<rooms, roomsMutex, started, handle, thread>>

\* recvfrom failed and no client is left.
ServeLastError(s, k) ==
  /\ loop[s][k] = "recv"
  /\ started' = [started EXCEPT ![s] = FALSE]
  /\ loop' = [loop EXCEPT ![s][k] = "check"]
  /\ UNCHANGED <<rooms, roomsMutex, handle, thread>>

\* The handler threw: the exception is kept in the future, `started` stays.
HandlerThrows(s, k) ==
  /\ loop[s][k] = "recv"
  /\ loop' = [loop EXCEPT ![s][k] = "failed"]
  /\ UNCHANGED <<rooms, roomsMutex, started, handle, thread>>

-----------------------------------------------------------------------------
Next ==
  \/ \E h \in Threads :
       \/ \E room \in Rooms : Delete(h, room) \/ \E kind \in Kinds : Post(h, room, kind)
       \/ EnterRoom(h) \/ AlreadyStarted(h) \/ Launch(h) \/ AssignHandle(h)
       \/ Reply(h) \/ Stop(h)
  \/ \E s \in Servers : \E k \in Tasks :
       \/ Begin(s, k) \/ CheckStarted(s, k) \/ ServePacket(s, k)
       \/ ServeLastError(s, k) \/ HandlerThrows(s, k)

Spec == Init /\ [][Next]_vars

\* The scheduler runs every task's thread that can go on.
Scheduling ==
  \A s \in Servers : \A k \in Tasks : WF_vars(Begin(s, k) \/ CheckStarted(s, k))

\* While a loop waits on the socket a client sends something sooner or later; which
\* of the waiting loops the system hands it to is open.
PacketsArrive ==
  \A s \in Servers : WF_vars(\E k \in Tasks : ServePacket(s, k))

\* HTTP threads that can go on do; EnterRoom has to win the mutex and is left out.
RequestsGoOn ==
  \A h \in Threads :
    WF_vars(AlreadyStarted(h) \/ Launch(h) \/ AssignHandle(h) \/ Reply(h) \/ Stop(h))

FairSpec == Spec /\ Scheduling /\ PacketsArrive /\ RequestsGoOn

-----------------------------------------------------------------------------
(* Properties.                                                             *)

Live(s, k) == loop[s][k] \in {"begin", "check", "recv"}

Assigning(h, s) == thread[h].at = "assign" /\ thread[h].server = s

\* The parts of the inductive invariant.  A request inside `start` has roomsMutex.
Locked ==
  \A h \in Threads :
    thread[h].at \in {"start", "assign", "reply"} => roomsMutex = h

\* A live loop is the one of startHandle, or the one a request is about to put there.
LoopsKnown ==
  \A s \in Servers : \A k \in Tasks :
    Live(s, k) => k = handle[s] \/ \E h \in Threads : Assigning(h, s) /\ k = thread[h].task

\* A server can have two loops on one socket and one client vector (a stop and a
\* start while the old loop waits for a packet, or two POSTs before the first loop
\* has set the flag); but then a POST is waiting in start, with roomsMutex, so
\* there is never a third.
TwoLoopsMeanWaitingPost ==
  \A s \in Servers : \A j, k \in Tasks :
    j # k /\ Live(s, j) /\ Live(s, k) =>
      \E h \in Threads : /\ roomsMutex = h /\ Assigning(h, s)
                         /\ {j, k} = {handle[s], thread[h].task}

\* isRunning does not lie unless a loop died of an exception: the last loop to end
\* leaves the flag false, whatever the order of stops and starts.
RunningIsTrue ==
  \A s \in Servers :
    started[s] => \/ \E k \in Tasks : Live(s, k)
                  \/ \E k \in Tasks : loop[s][k] = "failed"

Inv == Locked /\ LoopsKnown /\ RunningIsTrue

\* doPost, start and the loops: types, who holds roomsMutex, which loops live, and
\* whether isRunning can be believed, together; every step keeps this.
RoomsInv == TypeOK /\ Inv

\* A stop nobody takes back ends the loops, once packets arrive to wake them.
StopTakesEffect ==
  \A s \in Servers :
    ~started[s] ~> (started[s] \/ \A k \in Tasks : ~Live(s, k))

\* A POST waits in start for an older loop while that loop reads a flag the new one
\* has set again: neither stops, and every request of every room queues behind it.
Restarted(h) ==
  /\ thread[h].at = "assign" /\ started[thread[h].server]
  /\ \E k \in Tasks : k = handle[thread[h].server] /\ Live(thread[h].server, k)

\* That is the only way roomsMutex is kept: a request that has it gives it back or
\* comes to be waiting for such a loop.
RoomsComeBack ==
  \A h \in Threads : roomsMutex = h ~> (roomsMutex # h \/ Restarted(h))
=============================================================================
