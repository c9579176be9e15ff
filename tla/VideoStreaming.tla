---------------------------- MODULE VideoStreaming ----------------------------
(***************************************************************************)
(* Screen streams of one room: the clients' start_stream, join_stream and  *)
(* stop_stream commands, the threads those start, and the room's           *)
(* VideoStreamingServer, which passes each datagram of a client that said  *)
(* hello on to the others.                                                 *)
(*                                                                         *)
(* A stream thread does not own its socket: it looks at videoStreamSocket, *)
(* which the commands of the console thread replace and reset, before each *)
(* frame.  When it has caught a socket that is gone, what happens to the   *)
(* client is undefined.  What processFrame and decodeFrame throw leaves    *)
(* the thread, and so ends the client, too: their socket does not block,   *)
(* and on Linux even finding nothing in it is an error.  And a viewer that *)
(* was told to stop is deleted as though it were a capturer.               *)
(*                                                                         *)
(* processFrame captures until there is a picture and does not look at the *)
(* stop token meanwhile; on Linux there never is one.                      *)
(*                                                                         *)
(* The room is there and its password right: a request never fails.  A     *)
(* stream has a frame rate, which runStream divides by.                    *)
(* The commands hold the id they were constructed with, before the client  *)
(* had one: the id in an answer to a hello is always the expected one.     *)
(* What the receive loop of the server does between packets is Room.tla;   *)
(* here it receives and serves in one step, and so do two of them.         *)
(***************************************************************************)
EXTENDS Vectors

CONSTANTS
  Clients,
  Nobody,         \* an error that names no address
  Retries,        \* times an answer to a hello is looked for
  MaxStarts,      \* bound on a client's start_stream and join_stream commands
  Plans           \* what may be met in a room: what each user starts and how often, whose
                  \* client is one for Linux, and a bound on the datagrams the network repeats

ASSUME ConstantsAssumption ==
  /\ Retries \in Nat /\ MaxStarts \in Nat
  /\ Plans \subseteq [kinds : [Clients -> SUBSET {"stream", "view"}], starts : 0..MaxStarts,
                      linux : SUBSET Clients, duplicates : Nat]
  /\ Nobody \notin Clients \X (1..MaxStarts)

Starts == 1..MaxStarts

\* The n-th socket a client makes has a port of its own.
Address == Clients \X Starts

Packet == [kind : {"hello", "frame"}, from : Address]

VARIABLES
  plan,                        \* which of the plans this room has; it stays
  clients, started,            \* VideoStreamingServer: its entries and its flag
  serving, former,             \* the loop of startHandle runs; so does the one it replaces
  network,                     \* datagrams on their way to the server
  inbox,                       \* address -> what lies in that socket: answers and frames
  socket,                      \* client -> its videoStreamSocket, 0 for none
  made,                        \* client -> sockets made
  console,                     \* client -> where its command is: [at, kind, tries]
  thread,                      \* client -> stream thread -> [at, stop, kind, socket]
  streamThread,                \* client -> the thread of that name, 0 for none
  duplicates

server == <<clients, started, serving, former>>
client == <<socket, made, console, thread, streamThread>>
vars == <<plan, server, network, inbox, client, duplicates>>

Console == [at : {"idle", "post", "wait", "socket", "hello", "assign", "reset", "answer", "late",
                  "unwind"},
            kind : {"stream", "view"}, tries : 0..Retries]

Thread == [at : {"none", "begin", "check", "look", "call", "over", "threw", "undefined"},
           stop : BOOLEAN, kind : {"stream", "view"}, socket : 0..MaxStarts]

TypeOK ==
  /\ plan \in Plans
  /\ clients \in Seq(Address)
  /\ started \in BOOLEAN /\ serving \in BOOLEAN /\ former \in BOOLEAN
  /\ network \subseteq Packet
  /\ inbox \in [Address -> SUBSET Packet]
  /\ socket \in [Clients -> 0..MaxStarts] /\ made \in [Clients -> 0..MaxStarts]
  /\ console \in [Clients -> Console]
  /\ thread \in [Clients -> [Starts -> Thread]]
  /\ streamThread \in [Clients -> 0..MaxStarts]
  /\ duplicates \in 0..plan.duplicates

Init ==
  /\ plan \in Plans
  /\ clients = <<>> /\ started = FALSE /\ serving = FALSE /\ former = FALSE
  /\ network = {} /\ inbox = [a \in Address |-> {}]
  /\ socket = [c \in Clients |-> 0] /\ made = [c \in Clients |-> 0]
  /\ console = [c \in Clients |-> [at |-> "idle", kind |-> "stream", tries |-> 0]]
  /\ thread = [c \in Clients |-> [k \in Starts |->
                 [at |-> "none", stop |-> FALSE, kind |-> "stream", socket |-> 0]]]
  /\ streamThread = [c \in Clients |-> 0]
  /\ duplicates = 0

Running(c) == \A k \in Starts : thread[c][k].at \notin {"threw", "undefined"}

-----------------------------------------------------------------------------
(* The server.                                                             *)

Entries == {clients[i] : i \in DOMAIN clients}

\* The packet leaves the network, or the network keeps a copy.
Arrives(p) ==
  /\ serving \/ former
  /\ p \in network
  /\ \/ network' = network \ {p} /\ UNCHANGED duplicates
     \/ duplicates < plan.duplicates /\ duplicates' = duplicates + 1 /\ UNCHANGED network

LoopEnds ==
  \/ serving /\ serving' = FALSE /\ UNCHANGED former
  \/ former /\ former' = FALSE /\ UNCHANGED serving

\* while (started)
CheckStarted(flag) == (flag /\ UNCHANGED <<serving, former>>) \/ (~flag /\ LoopEnds)

Sent(p, to) == [a \in Address |-> IF a \in to THEN inbox[a] \cup {p} ELSE inbox[a]]

\* Mutant: no return after the answer; the hello is passed on like a frame.
FallThrough(p) == {p.from} \cup Entries

HelloGoesTo(p) == {p.from}

ServeHello(p) ==
  /\ Arrives(p) /\ p.kind = "hello"
  /\ inbox' = Sent(p, HelloGoesTo(p))
  /\ clients' = Append(clients, p.from)
  /\ CheckStarted(started)
  /\ UNCHANGED <<started, client>>

\* Mutant: the frame goes to every entry.
AllOthers(from) == DOMAIN clients

\* The entries a frame is passed on to: all but the first one found for its sender.
Others(from) ==
  {i \in DOMAIN clients :
     from \in Entries /\ (clients[i] = from => \E j \in 1..i-1 : clients[j] = from)}

ServeFrame(p) ==
  /\ Arrives(p) /\ p.kind = "frame"
  /\ inbox' = Sent(p, {clients[i] : i \in Others(p.from)})
  /\ CheckStarted(started)
  /\ UNCHANGED <<clients, started, client>>

\* A send throws, that of the answer or that to the n-th entry: the loop's task is
\* over, and the flag stays.
ServeThrows(p) ==
  /\ Arrives(p)
  /\ \/ p.kind = "hello" /\ UNCHANGED inbox
     \/ /\ p.kind = "frame"
        /\ \E n \in Others(p.from) :
             inbox' = Sent(p, {clients[i] : i \in {j \in Others(p.from) : j < n}})
  /\ LoopEnds
  /\ UNCHANGED <<clients, started, client>>

\* recvfrom fails, with the address of somebody or of nobody.
ServeError(a) ==
  /\ serving \/ former
  /\ clients' = Erased(clients, {i \in DOMAIN clients : clients[i] = a})
  /\ started' = (started /\ clients' # <<>>)
  /\ CheckStarted(started')
  /\ UNCHANGED <<network, inbox, client, duplicates>>

Lose(p) ==
  /\ p \in network /\ network' = network \ {p}
  /\ UNCHANGED <<server, inbox, client, duplicates>>

-----------------------------------------------------------------------------
(* start_stream and join_stream.                                           *)

\* The command sends POST room/video.
Request(c, kind) ==
  /\ Running(c) /\ console[c].at = "idle" /\ made[c] < plan.starts
  /\ console' = [console EXCEPT ![c] = [at |-> "post", kind |-> kind, tries |-> 0]]
  /\ UNCHANGED <<server, network, inbox, socket, made, thread, streamThread, duplicates>>

\* doPostVideo holds roomsMutex while the assignment of startHandle waits.
RoomsFree == \A c \in Clients : console[c].at # "wait"

\* The room starts its server, which says it is not: the answer comes at once, or when
\* the loop that was told to stop, and may have been told otherwise since, is over.
Post(c) ==
  /\ console[c].at = "post" /\ RoomsFree
  /\ started' = TRUE
  /\ IF started \/ ~serving
       THEN /\ serving' = (serving \/ ~started) /\ UNCHANGED former
            /\ console' = [console EXCEPT ![c].at = "socket"]
       ELSE /\ former' = TRUE /\ UNCHANGED serving
            /\ console' = [console EXCEPT ![c].at = "wait"]
  /\ UNCHANGED <<clients, network, inbox, socket, made, thread, streamThread, duplicates>>

Answer(c) ==
  /\ console[c].at = "wait" /\ ~former
  /\ console' = [console EXCEPT ![c].at = "socket"]
  /\ UNCHANGED <<server, network, inbox, socket, made, thread, streamThread, duplicates>>

StopAsked(c) ==
  [thread EXCEPT ![c] = [k \in Starts |-> [thread[c][k] EXCEPT !.stop = @ \/ k = streamThread[c]]]]

Hello(c) == [kind |-> "hello", from |-> <<c, socket[c]>>]

\* A new videoStreamSocket takes the place of the old, which is closed, and says hello.
MakeSocket(c) ==
  /\ Running(c) /\ console[c].at = "socket"
  /\ made' = [made EXCEPT ![c] = @ + 1]
  /\ socket' = [socket EXCEPT ![c] = made'[c]]
  /\ network' = network \cup {Hello(c)'}
  /\ console' = [console EXCEPT ![c].at = "hello", ![c].tries = Retries]
  /\ UNCHANGED <<server, inbox, thread, streamThread, duplicates>>

\* The socket is not made, or its hello not sent; in main, which the exception reaches,
\* streamThread is told to stop.  (What else goes there is in Process.)
MakeSocketThrows(c) ==
  /\ Running(c) /\ console[c].at = "socket"
  /\ \/ UNCHANGED <<made, socket>>
     \/ made' = [made EXCEPT ![c] = @ + 1] /\ socket' = [socket EXCEPT ![c] = made'[c]]
  /\ console' = [console EXCEPT ![c].at = "unwind"]
  /\ thread' = StopAsked(c)
  /\ UNCHANGED <<server, network, inbox, streamThread, duplicates>>

\* Mutant: one look too many.
LooksAgain(c) == TRUE

\* for (i = 0; i < retries; ...)
TriesLeft(c) == console[c].tries > 0

\* Mutant: the old thread is waited for, and not told to stop.
JoinOnly(c, k) == thread[c][k].stop

\* jthread's assignment asks the thread it had to stop, and waits for it.
ToldToStop(c, k) == thread[c][k].stop \/ k = streamThread[c]

\* receiveHello returns true: a thread is made, and streamThread assigned.
HelloAnswered(c) ==
  /\ Running(c) /\ console[c].at = "hello" /\ TriesLeft(c)
  /\ Hello(c) \in inbox[<<c, socket[c]>>]
  /\ inbox' = [inbox EXCEPT ![<<c, socket[c]>>] = @ \ {Hello(c)}]
  /\ thread' = [thread EXCEPT ![c] = [k \in Starts |->
                  IF k = made[c]
                    THEN [at |-> "begin", stop |-> FALSE, kind |-> console[c].kind, socket |-> 0]
                    ELSE [thread[c][k] EXCEPT !.stop = ToldToStop(c, k)]]]
  /\ console' = [console EXCEPT ![c].at = "assign"]
  /\ UNCHANGED <<server, network, socket, made, streamThread, duplicates>>

\* Nothing is there yet, or a packet of another size is.
NoAnswer(c) ==
  /\ Running(c) /\ console[c].at = "hello" /\ TriesLeft(c)
  /\ \/ UNCHANGED inbox
     \/ \E p \in inbox[<<c, socket[c]>>] \ {Hello(c)} :
          inbox' = [inbox EXCEPT ![<<c, socket[c]>>] = @ \ {p}]
  /\ console' = [console EXCEPT ![c].tries = @ - 1]
  /\ UNCHANGED <<server, network, socket, made, thread, streamThread, duplicates>>

\* The command gives up: the new socket stays, and so does the old thread.
GiveUp(c) ==
  /\ Running(c) /\ console[c].at = "hello" /\ console[c].tries = 0
  /\ console' = [console EXCEPT ![c].at = "idle"]
  /\ UNCHANGED <<server, network, inbox, socket, made, thread, streamThread, duplicates>>

\* Mutant: the assignment does not wait.
Detached(c) == TRUE

Joined(c) == \A k \in Starts : k = streamThread[c] => thread[c][k].at = "over"

Assign(c) ==
  /\ Running(c) /\ console[c].at = "assign" /\ Joined(c)
  /\ streamThread' = [streamThread EXCEPT ![c] = made[c]]
  /\ console' = [console EXCEPT ![c].at = "idle"]
  /\ UNCHANGED <<server, network, inbox, socket, made, thread, duplicates>>

-----------------------------------------------------------------------------
(* stop_stream.                                                            *)

RequestStop(c) ==
  /\ Running(c) /\ console[c].at = "idle"
  /\ thread' = StopAsked(c)
  /\ console' = [console EXCEPT ![c].at = "reset"]
  /\ UNCHANGED <<server, network, inbox, socket, made, streamThread, duplicates>>

\* The request is sent, and the socket closed without waiting for the thread.
Reset(c) ==
  /\ Running(c) /\ console[c].at \in {"reset", "late"}
  /\ socket' = [socket EXCEPT ![c] = 0]
  /\ console' = [console EXCEPT ![c].at = IF @ = "late" THEN "idle" ELSE "answer"]
  /\ UNCHANGED <<server, network, inbox, made, thread, streamThread, duplicates>>

\* DELETE room/video: the server's loop ends with its next packet, whoever streams.
Stop(c) ==
  /\ console[c].at \in {"reset", "answer"}
  /\ started' = FALSE
  /\ console' = [console EXCEPT ![c].at = IF @ = "reset" THEN "late" ELSE "idle"]
  /\ UNCHANGED <<clients, serving, former, network, inbox, socket, made, thread, streamThread, duplicates>>

-----------------------------------------------------------------------------
(* runStream and runViewStream.                                            *)

Becomes(c, k, t) == thread' = [thread EXCEPT ![c][k] = t]

Is(c, k, at) == [thread[c][k] EXCEPT !.at = at, !.socket = 0]

\* startStream and startStreamView
Begin(c, k) ==
  /\ Running(c) /\ thread[c][k].at = "begin"
  /\ Becomes(c, k, Is(c, k, "check")) \/ Becomes(c, k, Is(c, k, "threw"))
  /\ UNCHANGED <<server, network, inbox, socket, made, console, streamThread, duplicates>>

StopRequested(c, k) == thread[c][k].stop

\* stopStream and stopStreamView: a window that is destroyed may throw, and the second
\* deletes what startStreamView made as an object of another class.
Ends(c, k) == {"over", "threw"} \cup {at \in {"undefined"} : thread[c][k].kind = "view"}

\* while (!stop.stop_requested())
CheckStop(c, k) ==
  /\ Running(c) /\ thread[c][k].at = "check"
  /\ \E at \in IF StopRequested(c, k) THEN Ends(c, k) ELSE {"look"} :
       Becomes(c, k, [thread[c][k] EXCEPT !.at = at])
  /\ UNCHANGED <<server, network, inbox, socket, made, console, streamThread, duplicates>>

\* **udpSocket
Look(c, k) ==
  /\ Running(c) /\ thread[c][k].at = "look"
  /\ Becomes(c, k, [thread[c][k] EXCEPT !.at = IF socket[c] = 0 THEN "undefined" ELSE "call",
                                        !.socket = socket[c]])
  /\ UNCHANGED <<server, network, inbox, socket, made, console, streamThread, duplicates>>

Calls(c, k, kind) ==
  /\ Running(c) /\ thread[c][k].at = "call" /\ thread[c][k].kind = kind

\* The loop of processFrame is left.
Captured(c) == c \notin plan.linux

\* processFrame with its socket: it sends all of the frame's chunks or, when a send throws
\* or the encoder has nothing yet, some or none.
SendFrame(c, k) ==
  /\ Calls(c, k, "stream") /\ Captured(c) /\ thread[c][k].socket = socket[c]
  /\ network' \in {network, network \cup {[kind |-> "frame", from |-> <<c, socket[c]>>]}}
  /\ Becomes(c, k, Is(c, k, "check")) \/ Becomes(c, k, Is(c, k, "threw"))
  /\ UNCHANGED <<server, inbox, socket, made, console, streamThread, duplicates>>

\* decodeFrame, when nothing is there, which is an error on Linux, or when there is another
\* error.
NothingToView(c, k) ==
  /\ Calls(c, k, "view") /\ thread[c][k].socket = socket[c]
  /\ \/ c \notin plan.linux /\ Becomes(c, k, Is(c, k, "check"))
     \/ Becomes(c, k, Is(c, k, "threw"))
  /\ UNCHANGED <<server, network, inbox, socket, made, console, streamThread, duplicates>>

\* decodeFrame of what is there.  It takes an answer to a hello for a chunk, and writes
\* outside its vectors; the decoder may throw.
ViewFrame(c, k) ==
  /\ Calls(c, k, "view") /\ thread[c][k].socket = socket[c]
  /\ \E p \in inbox[<<c, socket[c]>>] :
       /\ inbox' = [inbox EXCEPT ![<<c, socket[c]>>] = @ \ {p}]
       /\ \/ p.kind = "hello" /\ Becomes(c, k, Is(c, k, "undefined"))
          \/ p.kind = "frame" /\ Becomes(c, k, Is(c, k, "check"))
          \/ p.kind = "frame" /\ Becomes(c, k, Is(c, k, "threw"))
  /\ UNCHANGED <<server, network, socket, made, console, streamThread, duplicates>>

\* The socket is gone: the call may have been over before, or it throws, or worse.
UseAfterClose(c, k, kind) ==
  /\ Calls(c, k, kind)
  /\ kind = "stream" => Captured(c)
  /\ thread[c][k].socket # socket[c]
  /\ \E at \in {"check", "threw", "undefined"} : Becomes(c, k, Is(c, k, at))
  /\ UNCHANGED <<server, network, inbox, socket, made, console, streamThread, duplicates>>

-----------------------------------------------------------------------------
ServerStep ==
  \/ \E p \in network : ServeHello(p) \/ ServeFrame(p) \/ ServeThrows(p)
  \/ \E a \in Address \cup {Nobody} : ServeError(a)

CommandGoesOn(c) ==
  \/ Post(c) \/ Answer(c)
  \/ MakeSocket(c) \/ MakeSocketThrows(c)
  \/ HelloAnswered(c) \/ NoAnswer(c) \/ GiveUp(c) \/ Assign(c)
  \/ Reset(c) \/ Stop(c)

ThreadGoesOn(c, k) ==
  \/ Begin(c, k) \/ CheckStop(c, k) \/ Look(c, k)
  \/ NothingToView(c, k) \/ ViewFrame(c, k) \/ UseAfterClose(c, k, "view")

ProcessFrame(c, k) == SendFrame(c, k) \/ UseAfterClose(c, k, "stream")

\* The clients whose users give commands.
Present == {c \in Clients : plan.kinds[c] # {}}

Next ==
  /\ UNCHANGED plan
  /\ \/ ServerStep
     \/ \E p \in network : Lose(p)
     \/ \E c \in Present :
          \/ \E kind \in plan.kinds[c] : Request(c, kind)
          \/ RequestStop(c) \/ CommandGoesOn(c)
          \/ \E k \in Starts : ThreadGoesOn(c, k) \/ ProcessFrame(c, k)

Spec == Init /\ [][Next]_vars

\* Threads and commands that can go on do.  The network and the server owe nothing, and
\* neither does the screen: processFrame need never return.
FairSpec ==
  /\ Spec
  /\ \A c \in Clients : WF_vars(CommandGoesOn(c) /\ UNCHANGED plan)
  /\ \A c \in Clients : \A k \in Starts : WF_vars(ThreadGoesOn(c, k) /\ UNCHANGED plan)

-----------------------------------------------------------------------------
(* Properties.                                                             *)

Live(c, k) == thread[c][k].at \in {"begin", "check", "look", "call"}

\* VideoStreamingServer::serve: while no datagram was repeated nobody is listed twice,
\* and so nobody is sent back what he streams, whatever starts, stops, errors, throwing
\* sends and joins there were.
NoEcho ==
  duplicates = 0 =>
    /\ Cardinality(Entries) = Len(clients)
    /\ \A a \in Address : [kind |-> "frame", from |-> a] \notin inbox[a]

\* What holds of the server's vector, its inboxes and its clients throughout.
StreamsInv == TypeOK /\ NoEcho

\* StartStream and JoinStream: a client has two live stream threads only while a command
\* waits in streamThread's assignment for the older one, which has been told to stop.
TwoThreadsMeanWaitingCommand ==
  \A c \in Clients : \A j, k \in Starts :
    j < k /\ Live(c, j) /\ Live(c, k) =>
      /\ console[c].at = "assign" /\ k = made[c]
      /\ j = streamThread[c] /\ thread[c][j].stop

\* runStream and runViewStream: a client that never gave stop_stream, and never started a
\* stream while it had one, may be ended by what its stream thread throws, but does not run
\* into undefined behaviour, whatever the others do, unless an answer to its hello was
\* repeated, or a viewer was told to stop.
UndefinedOnlyByCommands ==
  \A c \in Clients :
    (made[c] = 1 /\ socket[c] = 1 /\ duplicates = 0) =>
      \A k \in Starts :
        thread[c][k].at = "undefined" => thread[c][k].kind = "view" /\ thread[c][k].stop

\* The thread that streamThread's assignment waits for is in processFrame.
Capturing(c) ==
  \E k \in Starts :
    k = streamThread[c] /\ thread[c][k].at = "call" /\ thread[c][k].kind = "stream"

\* A start_stream or join_stream whose POST is answered returns or throws, though it waits
\* for the older thread, or the client ends; provided processFrame returns whenever it is
\* called, as it never does on Linux.
CommandsReturn ==
  \A c \in Clients :
    []<>~Capturing(c) =>
      (console[c].at \in {"socket", "hello", "assign"}
         ~> (console[c].at \in {"idle", "unwind"} \/ ~Running(c)))
=============================================================================
