------------------------------- MODULE Client -------------------------------
(***************************************************************************)
(* The client process around its connection: the console thread with its   *)
(* connect, get_users, ping and exit commands, the notification thread,    *)
(* the hotkeys' thread and the handler of the closing window.              *)
(*                                                                         *)
(* All of them use controlStream, one HTTP connection on which the server  *)
(* answers in order, without a lock: who reads takes the next answer,      *)
(* whoever's it is.  They use the sockets, the microphone and the speaker, *)
(* too, which each successful connect replaces.                            *)
(*                                                                         *)
(* The objects of one attempt to connect are named by its number.  What    *)
(* the audio threads do is Microphone's and Speaker's matter; here they    *)
(* run on the socket they were made with.  Stream commands are in          *)
(* VideoStreaming; the server here is what this client sees of it.         *)
(***************************************************************************)
EXTENDS Naturals, Sequences

CONSTANTS
  Rooms, NoRoom,
  Retries,        \* attempts of a connect, and looks for the answer to its hello
  MaxConnects, MaxTimeouts, MaxPresses, MaxNotices, MaxAsks

ASSUME ConstantsAssumption ==
  /\ NoRoom \notin Rooms
  /\ Retries \in Nat \ {0} /\ MaxConnects \in Nat
  /\ MaxTimeouts \in Nat /\ MaxPresses \in Nat /\ MaxNotices \in Nat /\ MaxAsks \in Nat

Attempts == 1 .. MaxConnects * Retries
Sessions == Attempts

VARIABLES
  status,         \* "running"; "ended" by exit or by an exception nothing caught; "closed" by
                  \* its window; "undefined"
  registered,     \* the hotkeys and the close handler are there
  console,        \* [at, room, attempts, tries, id]: the console thread
  notifier,       \* [at, held]: the notification thread
  keys,           \* [at, held]: the hotkeys' thread
  closer,         \* [at, room, session, calm]: the close handler, and whether it came between commands
  control,        \* controlStream: "none", "open", "broken"
  requests,       \* on their way to the server
  answers,        \* on their way back
  overlapped,     \* a request was sent while another thread waited for its answer
  timeouts,       \* answers not waited for
  socket, notification,      \* the current ones, 0 for none
  microphone, speaker,       \* the sockets they were made with, 0 for none
  made,           \* sockets made
  id, room,       \* the global id, and settings.roomName
  connected,      \* the last connect returned true
  roomOf, held,   \* server: session -> its room; the sessions not deleted
  network,        \* hellos on their way: <<socket, session>>
  heard,          \* server: hellos answered
  inbox,          \* answers to hellos that lie in their socket
  listening, notices,        \* the server has the notification connection's id; texts there
  connects, presses, asks

main == <<status, registered>>
exchange == <<control, requests, answers, overlapped, timeouts>>
objects == <<socket, notification, microphone, speaker, made>>
session == <<id, room, connected>>
server == <<roomOf, held, heard>>
datagrams == <<network, inbox>>
notifying == <<listening, notices>>
counters == <<connects, presses, asks>>
vars == <<main, console, notifier, keys, closer, exchange, objects, session, server,
          datagrams, notifying, counters>>

Kinds == {"post", "refused", "patch", "delete", "ask"}
Message == [by : {"console", "keys", "closer"}, kind : Kinds,
            room : Rooms \cup {NoRoom}, session : {0} \cup Sessions]

TypeOK ==
  /\ status \in {"running", "ended", "closed", "undefined"}
  /\ registered \in BOOLEAN /\ connected \in BOOLEAN /\ overlapped \in BOOLEAN
  /\ listening \in BOOLEAN
  /\ console \in [at : {"idle", "open", "post", "read", "socket", "notify", "hello", "wait",
                        "microphone", "speaker", "save", "failed", "asked"},
                  room : Rooms \cup {NoRoom}, attempts : 0..Retries, tries : 0..Retries,
                  id : {0} \cup Sessions]
  /\ notifier \in [at : {"look", "receive", "take", "use"}, held : {0} \cup Attempts]
  /\ keys \in [at : {"idle", "use", "send", "read"}, held : {0} \cup Attempts]
  /\ closer \in [at : {"none", "send", "read"}, room : Rooms \cup {NoRoom},
                 session : {0} \cup Sessions, calm : BOOLEAN]
  /\ control \in {"none", "open", "broken"}
  /\ requests \in Seq(Message) /\ answers \in Seq(Message)
  /\ timeouts \in 0..MaxTimeouts
  /\ socket \in {0} \cup Attempts /\ notification \in {0} \cup Attempts
  /\ microphone \in {0} \cup Attempts /\ speaker \in {0} \cup Attempts
  /\ made \in {0} \cup Attempts
  /\ id \in {0} \cup Sessions /\ room \in Rooms \cup {NoRoom}
  /\ roomOf \in [Sessions -> Rooms \cup {NoRoom}] /\ held \subseteq Sessions
  /\ network \subseteq Attempts \X Sessions /\ heard \subseteq Attempts \X Sessions
  /\ inbox \subseteq Attempts \X Sessions
  /\ notices \in 0..MaxNotices
  /\ connects \in 0..MaxConnects /\ presses \in 0..MaxPresses /\ asks \in 0..MaxAsks

\* The settings file names the room of the last connection, or none.
Init ==
  /\ status = "running" /\ registered = FALSE
  /\ console = [at |-> "idle", room |-> NoRoom, attempts |-> 0, tries |-> 0, id |-> 0]
  /\ notifier = [at |-> "look", held |-> 0] /\ keys = [at |-> "idle", held |-> 0]
  /\ closer = [at |-> "none", room |-> NoRoom, session |-> 0, calm |-> FALSE]
  /\ control = "none" /\ requests = <<>> /\ answers = <<>>
  /\ overlapped = FALSE /\ timeouts = 0
  /\ socket = 0 /\ notification = 0 /\ microphone = 0 /\ speaker = 0 /\ made = 0
  /\ id = 0 /\ room \in Rooms \cup {NoRoom} /\ connected = FALSE
  /\ roomOf = [s \in Sessions |-> NoRoom] /\ held = {}
  /\ network = {} /\ heard = {} /\ inbox = {}
  /\ listening = FALSE /\ notices = 0
  /\ connects = 0 /\ presses = 0 /\ asks = 0

Running == status = "running"
At(step) == Running /\ console.at = step
Goes(step) == console' = [console EXCEPT !.at = step]

-----------------------------------------------------------------------------
(* The control stream.                                                     *)

\* Whose answer is waited for.
Readers ==
  {t \in {"console", "keys", "closer"} :
     \/ t = "console" /\ console.at \in {"read", "asked"}
     \/ t = "keys" /\ keys.at = "read"
     \/ t = "closer" /\ closer.at = "read"}

Request(t, kind, r, s) ==
  /\ control = "open"
  /\ requests' = Append(requests, [by |-> t, kind |-> kind, room |-> r, session |-> s])
  /\ overlapped' = (overlapped \/ Readers # {})
  /\ UNCHANGED <<control, answers, timeouts>>

Answered ==
  /\ answers # <<>>
  /\ answers' = Tail(answers)
  /\ UNCHANGED <<control, requests, overlapped, timeouts>>

\* An answer is not waited for any longer, and comes later; or the connection is gone.
TimesOut ==
  \/ control = "open" /\ timeouts < MaxTimeouts /\ timeouts' = timeouts + 1
     /\ \/ UNCHANGED <<control, requests, answers, overlapped>>
        \/ control' = "broken" /\ UNCHANGED <<requests, answers, overlapped>>
  \/ control = "broken" /\ UNCHANGED exchange

\* The server answers one request after the other (what it does when the client is gone
\* changes nothing here).
Serve ==
  /\ Running /\ requests # <<>> /\ requests' = Tail(requests)
  /\ LET q == Head(requests)
     IN \/ /\ q.kind = "post"
           /\ \E s \in Sessions :
                /\ roomOf[s] = NoRoom /\ \A earlier \in 1 .. s-1 : roomOf[earlier] # NoRoom
                /\ roomOf' = [roomOf EXCEPT ![s] = q.room] /\ held' = held \cup {s}
                /\ answers' = Append(answers, [q EXCEPT !.session = s])
        \/ /\ q.kind = "post"
           /\ answers' = Append(answers, [q EXCEPT !.kind = "refused"])
           /\ UNCHANGED <<roomOf, held>>
        \/ /\ q.kind # "post"
           /\ held' = held \ {n \in held : q.kind = "delete" /\ n = q.session /\ roomOf[n] = q.room}
           /\ answers' = Append(answers, q)
           /\ UNCHANGED roomOf
  /\ UNCHANGED <<main, console, notifier, keys, closer, control, overlapped, timeouts,
                 objects, session, heard, datagrams, notifying, counters>>

-----------------------------------------------------------------------------
(* Start-up, and connect.                                                  *)

Connect(r) ==
  /\ At("idle") /\ connects < MaxConnects
  /\ registered \/ (connects = 0 /\ r = room)
  /\ connects' = connects + 1 /\ connected' = FALSE
  /\ console' = [at |-> "open", room |-> r, attempts |-> Retries, tries |-> 0, id |-> 0]
  /\ UNCHANGED <<main, notifier, keys, closer, exchange, objects, id, room, server,
                 datagrams, notifying, presses, asks>>

Register ==
  /\ At("idle") /\ ~registered
  /\ registered' = TRUE
  /\ UNCHANGED <<status, console, notifier, keys, closer, exchange, objects, session, server,
                 datagrams, notifying, counters>>

MoreAttempts == console.attempts > 1

\* What connect() throws it catches, and run() tries again.
AttemptFails ==
  console' = [console EXCEPT !.attempts = @ - 1,
                             !.at = IF MoreAttempts THEN "open" ELSE "failed"]

OpenControl ==
  /\ At("open")
  /\ \/ control = "none" /\ control' = "open" /\ Goes("post")
     \/ control = "none" /\ UNCHANGED control /\ AttemptFails
     \/ control # "none" /\ UNCHANGED control /\ Goes("post")
  /\ UNCHANGED <<main, notifier, keys, closer, requests, answers, overlapped, timeouts,
                 objects, session, server, datagrams, notifying, counters>>

PostVoice ==
  /\ At("post")
  /\ \/ Request("console", "post", console.room, 0) /\ Goes("read")
     \/ control = "broken" /\ UNCHANGED exchange /\ AttemptFails
  /\ UNCHANGED <<main, notifier, keys, closer, objects, session, server,
                 datagrams, notifying, counters>>

\* Any answer with an id in it will do.
ReadId ==
  /\ At("read")
  /\ \/ /\ Answered
        /\ IF Head(answers).kind = "post"
             THEN console' = [console EXCEPT !.id = Head(answers).session, !.at = "socket"]
             ELSE AttemptFails
     \/ TimesOut /\ AttemptFails
  /\ UNCHANGED <<main, notifier, keys, closer, objects, session, server,
                 datagrams, notifying, counters>>

\* The new socket takes the place of the old one, which the old microphone and speaker
\* still use; or it is not made, and the old one stays.
MakeSocket ==
  /\ At("socket") /\ made < MaxConnects * Retries
  /\ \/ made' = made + 1 /\ socket' = made + 1 /\ Goes("notify")
     \/ UNCHANGED <<made, socket>> /\ AttemptFails
  /\ UNCHANGED <<main, notifier, keys, closer, exchange, notification, microphone, speaker,
                 session, server, datagrams, notifying, counters>>

MakeNotification ==
  /\ At("notify")
  /\ \/ /\ notification' = socket /\ listening' = FALSE /\ notices' = 0
        /\ Goes("hello")
     \/ UNCHANGED <<notification, listening, notices>> /\ AttemptFails
  /\ UNCHANGED <<main, notifier, keys, closer, exchange, socket, microphone, speaker, made,
                 session, server, datagrams, counters>>

\* sendHello: what it returns nobody looks at.
SendHello ==
  /\ At("hello")
  /\ \/ network' = network \cup {<<socket, console.id>>} /\ listening' \in BOOLEAN
     \/ UNCHANGED <<network, listening>>
  /\ console' = [console EXCEPT !.at = "wait", !.tries = Retries]
  /\ UNCHANGED <<main, notifier, keys, closer, exchange, objects, session, server,
                 inbox, notices, counters>>

\* Mutant: a look that finds nothing is not counted.
Uncounted(n) == n

Counted(n) == n - 1

ReceiveHello ==
  /\ At("wait") /\ console.tries > 0
  /\ \/ \E answer \in inbox :
          /\ answer[1] = socket
          /\ inbox' = inbox \ {answer}
          /\ IF answer[2] = console.id THEN Goes("microphone")
               ELSE console' = [console EXCEPT !.tries = @ - 1]
     \/ UNCHANGED inbox /\ console' = [console EXCEPT !.tries = Counted(@)]
  /\ UNCHANGED <<main, notifier, keys, closer, exchange, objects, session, server,
                 network, notifying, counters>>

NoHello ==
  /\ At("wait") /\ console.tries = 0
  /\ Goes("failed")
  /\ UNCHANGED <<main, notifier, keys, closer, exchange, objects, session, server,
                 datagrams, notifying, counters>>

\* Mutant: the id is set by the first connect only.
FirstId == IF id = 0 THEN console.id ELSE id

NewId == console.id

\* onSuccess.
MakeMicrophone ==
  /\ At("microphone")
  /\ id' = NewId /\ microphone' = socket
  /\ Goes("speaker")
  /\ UNCHANGED <<main, notifier, keys, closer, exchange, socket, notification, speaker, made,
                 room, connected, server, datagrams, notifying, counters>>

MakeSpeaker ==
  /\ At("speaker")
  /\ speaker' = socket
  /\ Goes("save")
  /\ UNCHANGED <<main, notifier, keys, closer, exchange, socket, notification, microphone, made,
                 session, server, datagrams, notifying, counters>>

\* Opening a stream or playing the sound throws, which nothing before main catches.
AudioThrows ==
  /\ Running /\ console.at \in {"microphone", "speaker", "save"}
  /\ status' = "ended"
  /\ UNCHANGED <<registered, console, notifier, keys, closer, exchange, objects, session,
                 server, datagrams, notifying, counters>>

\* Mutant: the settings keep their room.
OldRoom == room

SavedRoom == console.room

Save ==
  /\ At("save")
  /\ room' = SavedRoom /\ connected' = TRUE
  /\ Goes("idle")
  /\ UNCHANGED <<main, notifier, keys, closer, exchange, objects, id, server,
                 datagrams, notifying, counters>>

\* connect returns false; after the one at start-up the settings forget the room.
Failed ==
  /\ At("failed")
  /\ room' = IF registered THEN room ELSE NoRoom
  /\ Goes("idle")
  /\ UNCHANGED <<main, notifier, keys, closer, exchange, objects, id, connected, server,
                 datagrams, notifying, counters>>

-----------------------------------------------------------------------------
(* get_users, which checks nothing, and ping, which checks the stream.     *)

Ask ==
  /\ At("idle") /\ registered /\ asks < MaxAsks
  /\ asks' = asks + 1
  /\ \/ Request("console", "ask", room, 0) /\ Goes("asked") /\ UNCHANGED status
     \/ control = "broken" /\ status' = "ended" /\ UNCHANGED <<console, exchange>>
     \/ control = "none" /\ status' = "undefined" /\ UNCHANGED <<console, exchange>>
  /\ UNCHANGED <<registered, notifier, keys, closer, objects, session, server,
                 datagrams, notifying, connects, presses>>

\* An answer to another question may not be what get_users can read.
ReadUsers ==
  /\ At("asked")
  /\ \/ /\ Answered /\ Goes("idle")
        /\ \/ UNCHANGED status
           \/ Head(answers).by # "console" /\ status' = "ended"
     \/ TimesOut /\ status' = "ended" /\ UNCHANGED console
  /\ UNCHANGED <<registered, notifier, keys, closer, objects, session, server,
                 datagrams, notifying, counters>>

\* exit(0): no request says goodbye.
Exit ==
  /\ At("idle") /\ registered
  /\ status' = "ended"
  /\ UNCHANGED <<registered, console, notifier, keys, closer, exchange, objects, session,
                 server, datagrams, notifying, counters>>

-----------------------------------------------------------------------------
(* The other threads.                                                      *)

\* The hotkey that fixes the delay finds the speaker, and takes its pointer.
Press ==
  /\ Running /\ registered /\ keys.at = "idle" /\ presses < MaxPresses
  /\ presses' = presses + 1
  /\ IF speaker = 0 THEN status' = "undefined" /\ UNCHANGED keys
                    ELSE keys' = [at |-> "use", held |-> speaker] /\ UNCHANGED status
  /\ UNCHANGED <<registered, console, notifier, closer, exchange, objects, session, server,
                 datagrams, notifying, connects, asks>>

KeysFix ==
  /\ Running /\ keys.at = "use"
  /\ IF keys.held # speaker THEN status' = "undefined" /\ UNCHANGED keys
                            ELSE keys' = [keys EXCEPT !.at = "send"] /\ UNCHANGED status
  /\ UNCHANGED <<registered, console, notifier, closer, exchange, objects, session, server,
                 datagrams, notifying, counters>>

\* Mutant: the answer to the PATCH is not read.
Leaves == "idle"

Waits == "read"

KeysPatch ==
  /\ Running /\ keys.at = "send"
  /\ \/ Request("keys", "patch", room, id) /\ keys' = [at |-> Waits, held |-> 0]
     \/ control = "broken" /\ UNCHANGED exchange /\ keys' = [at |-> "idle", held |-> 0]
  /\ UNCHANGED <<main, console, notifier, closer, objects, session, server,
                 datagrams, notifying, counters>>

KeysRead ==
  /\ Running /\ keys.at = "read"
  /\ Answered \/ TimesOut
  /\ keys' = [keys EXCEPT !.at = "idle"]
  /\ UNCHANGED <<main, console, notifier, closer, objects, session, server,
                 datagrams, notifying, counters>>

\* Mutant: the thread does not look whether there is a connection.
NotifierLooksUnchecked ==
  /\ Running /\ notifier.at = "look"
  /\ IF notification = 0
       THEN status' = "undefined" /\ UNCHANGED notifier
       ELSE notifier' = [at |-> "receive", held |-> notification] /\ UNCHANGED status
  /\ UNCHANGED <<registered, console, keys, closer, exchange, objects, session, server,
                 datagrams, notifying, counters>>

\* The notification thread takes the pointer of the connection and blocks in it.
NotifierLooks ==
  /\ Running /\ notifier.at = "look" /\ notification # 0
  /\ notifier' = [at |-> "receive", held |-> notification]
  /\ UNCHANGED <<main, console, keys, closer, exchange, objects, session, server,
                 datagrams, notifying, counters>>

NotifierReceives ==
  /\ Running /\ notifier.at = "receive" /\ notifier.held = notification /\ notices > 0
  /\ notices' = notices - 1
  /\ notifier' = [notifier EXCEPT !.at = "take"]
  /\ UNCHANGED <<main, console, keys, closer, exchange, objects, session, server,
                 datagrams, listening, counters>>

\* A later connect has closed it: receiveBytes throws, or worse.
NotifierThrown ==
  /\ Running /\ notifier.at = "receive" /\ notifier.held # notification
  /\ status' \in {"ended", "undefined"}
  /\ UNCHANGED <<registered, console, notifier, keys, closer, exchange, objects, session,
                 server, datagrams, notifying, counters>>

NotifierTakes ==
  /\ Running /\ notifier.at = "take"
  /\ IF speaker = 0 THEN status' = "undefined" /\ UNCHANGED notifier
                    ELSE notifier' = [at |-> "use", held |-> speaker] /\ UNCHANGED status
  /\ UNCHANGED <<registered, console, keys, closer, exchange, objects, session, server,
                 datagrams, notifying, counters>>

NotifierFixes ==
  /\ Running /\ notifier.at = "use"
  /\ IF notifier.held # speaker
       THEN status' = "undefined" /\ UNCHANGED notifier
       ELSE notifier' = [at |-> "look", held |-> 0] /\ UNCHANGED status
  /\ UNCHANGED <<registered, console, keys, closer, exchange, objects, session, server,
                 datagrams, notifying, counters>>

\* The audio threads of a connection use its socket.
AudioRuns ==
  /\ Running /\ (microphone \notin {0, socket} \/ speaker \notin {0, socket})
  /\ status' = "undefined"
  /\ UNCHANGED <<registered, console, notifier, keys, closer, exchange, objects, session,
                 server, datagrams, notifying, counters>>

\* Mutant: the room of the last connect, successful or not.
LastRoom == console.room

DeletedRoom == room

\* onExit makes its request; then a last silence on the microphone's socket.
Close ==
  /\ Running /\ registered /\ closer.at = "none"
  /\ closer' = [at |-> "send", room |-> DeletedRoom, session |-> id,
                calm |-> console.at = "idle"]
  /\ IF microphone \in {0, socket} THEN UNCHANGED status ELSE status' = "undefined"
  /\ UNCHANGED <<registered, console, notifier, keys, exchange, objects, session, server,
                 datagrams, notifying, counters>>

CloserDeletes ==
  /\ Running /\ closer.at = "send"
  /\ \/ /\ Request("closer", "delete", closer.room, closer.session)
        /\ closer' = [closer EXCEPT !.at = "read"]
        /\ UNCHANGED status
     \/ control # "open" /\ UNCHANGED <<exchange, closer>> /\ status' = "closed"
  /\ UNCHANGED <<registered, console, notifier, keys, objects, session, server,
                 datagrams, notifying, counters>>

CloserReads ==
  /\ Running /\ closer.at = "read"
  /\ Answered \/ TimesOut
  /\ status' = "closed"
  /\ UNCHANGED <<registered, console, notifier, keys, closer, objects, session, server,
                 datagrams, notifying, counters>>

-----------------------------------------------------------------------------
(* The server and the network.                                             *)

AnswerHello(hello) ==
  /\ Running /\ hello \in network
  /\ network' = network \ {hello}
  /\ IF hello[2] \in held THEN heard' = heard \cup {hello} /\ inbox' = inbox \cup {hello}
                          ELSE inbox' = inbox \cup {hello} /\ UNCHANGED heard
  /\ UNCHANGED <<main, console, notifier, keys, closer, exchange, objects, session,
                 roomOf, held, notifying, counters>>

LoseHello(hello) ==
  /\ Running /\ hello \in network
  /\ network' = network \ {hello}
  /\ UNCHANGED <<main, console, notifier, keys, closer, exchange, objects, session, server,
                 inbox, notifying, counters>>

\* Another member's PATCH.
Notice ==
  /\ Running /\ listening /\ notices < MaxNotices
  /\ notices' = notices + 1
  /\ UNCHANGED <<main, console, notifier, keys, closer, exchange, objects, session, server,
                 datagrams, listening, counters>>

-----------------------------------------------------------------------------
Connecting ==
  \/ OpenControl \/ PostVoice \/ ReadId \/ MakeSocket \/ MakeNotification \/ SendHello
  \/ ReceiveHello \/ NoHello \/ MakeMicrophone \/ MakeSpeaker \/ Save \/ Failed

Next ==
  \/ \E r \in Rooms : Connect(r)
  \/ Register \/ Connecting \/ AudioThrows \/ Ask \/ ReadUsers \/ Exit
  \/ Press \/ KeysFix \/ KeysPatch \/ KeysRead
  \/ NotifierLooks \/ NotifierReceives \/ NotifierThrown \/ NotifierTakes \/ NotifierFixes
  \/ AudioRuns \/ Close \/ CloserDeletes \/ CloserReads
  \/ Serve \/ Notice
  \/ \E hello \in network : AnswerHello(hello) \/ LoseHello(hello)

Spec == Init /\ [][Next]_vars

\* The console thread goes on, and the server answers what it was asked.
FairSpec == Spec /\ WF_vars(Connecting) /\ WF_vars(ReadUsers) /\ WF_vars(Serve)

-----------------------------------------------------------------------------
(* Properties.                                                             *)

\* Nothing was lost on the control stream, and nobody was in another one's way.
Undisturbed == timeouts = 0 /\ ~overlapped

\* connect, get_users, ping, the hotkey and the close handler: a thread that waits for
\* its answer, undisturbed, is the only one, and what comes next is its own.
OwnAnswer ==
  Undisturbed =>
    /\ \A t, u \in Readers : t = u
    /\ \A i \in DOMAIN answers : answers[i].by \in Readers
    /\ Len(requests) + Len(answers) <= 1

\* Connect::run: after a connect that returned true, however many attempts failed at
\* whatever step before, the sockets, the audio objects, the id and the session the
\* server has heard from belong to one attempt.
ConnectedWhole ==
  connected =>
    /\ socket # 0 /\ microphone = socket /\ speaker = socket /\ notification = socket
    /\ <<socket, id>> \in heard

\* The session the client has is one of the room its settings name, unless an answer
\* was missed or mixed up: the one to an earlier connect, say, to another room.
RightRoom == connected /\ Undisturbed => roomOf[id] = room

\* What holds at every step of the process.
ClientInv == TypeOK /\ ConnectedWhole /\ RightRoom

\* onExit: when the window is closed between two commands, and nothing disturbs the
\* request, the client's session is gone from its room, whatever connects failed before.
CloseRemovesSession ==
  (status = "closed" /\ closer.calm /\ Undisturbed /\ control = "open")
    => closer.session \notin held

\* The unlocked sharing of sockets and audio objects: until its second connect the client
\* does nothing undefined, except that a hotkey or a notification finds no speaker, or
\* get_users no stream.
FirstConnectSafe ==
  [][(status # "undefined" /\ status' = "undefined" /\ connects <= 1)
       => \/ speaker = 0 /\ (presses' > presses \/ notifier.at = "take")
          \/ control = "none" /\ asks' > asks]_vars

\* Connect::run returns, or the process ends.
ConnectReturns == (console.at # "idle") ~> (console.at = "idle" \/ ~Running)
=============================================================================
