# A verification project for DiscordClone

DiscordClone is a voice chat: a console client captures the microphone and
sends it in UDP datagrams to a room, the room's server relays each datagram to
the other members, a TCP connection carries notifications, and a second UDP
server relays screen frames.  Rooms are made, joined and left over HTTP.  This
directory holds TLA+ models of that program, TLC configurations that check them
on small instances, and TLAPS proofs about them.

    tlc -config MC_VoiceServer_pair.cfg MC_VoiceServer     model-check one configuration
    tlapm VoiceServer_proofs.tla                           check one module's proofs

`PROJECT.json` lists the runs, the source lines each definition stands for, the
hazards with the properties that watch them, the theorems, and for each property
a mutant: a small bug in one definition under which the property fails.

## Inventory

### Server

| Part | State | Operations |
|------|-------|-----------|
| Room executor (`Executors/Room.cpp`) | `rooms`, `roomsMutex`, `random` | `doPost`, `doGet`, `doPatch` under the mutex, `doDelete` without it |
| Voice server (`VoiceServer.cpp`) | `clients` (loop only, but read by GET), `pendingClients` and `disconnectedClients` (a mutex each), `started`, `startHandle` | `start`, `addPendingClient`, `removeClient`, `getClients`, `isRunning`, and the loop's `serve` |
| Notifications server (`NotificationsServer.cpp`) | `clients`, `notifications`, a mutex each | `worker` (once a second), `clientConnection` (thread per connection), `pushNotification`, `remove` |
| Video streaming server (`VideoStreamingServer.cpp`) | `clients`, `started`, `startHandle` | `start`, `stop`, the loop's `serve` |
| Process, Ping, config | none | start-up, a probe |

A room owns one of each server.  HTTP threads call into the voice server; its
receive loop runs in a `std::async` task, calls the notifications server when a
client goes, and throws when a send fails.  The notifications server's worker
sends over TCP with both of its mutexes held, so a client that does not read can
hold up the receive loop and, through it, the HTTP threads.

### Client

| Part | State | Operations |
|------|-------|-----------|
| Process (`main.cpp`) | current sockets, microphone, speaker, threads | start, update, reconnect, command loop, hotkeys, notification thread, unwinding, exit |
| Connect (`Commands/Connect.cpp`) | room, id, sockets | POST, hello with retries, answer |
| Streams (`StartStream`, `JoinStream`, `StopStream`, `Utils.cpp`) | stream socket and thread | start, view, stop |
| Commands, checks | flags | one command each |
| Settings (`Settings.cpp`) | one record in memory, one file | load at start, modify and save |
| Hotkeys (`WindowsHotkeys.cpp`, `LinuxHotkeys.cpp`) | a message queue, the table of callbacks | register (a detached thread each), the message loop, the destructor; nothing on Linux |
| Microphone, speaker (library) | a stream and a coder each, volume, the flag to fix the delay | audio callbacks, silence thread, mute, restart |
| Video chunks, capture, viewer (`c_api.cpp`) | frames in assembly | cut, send, collect, show |
| Updater | files on disk | find, download, unpack, replace, clean |

UDP and TCP sockets are shared by both sides.  `UDPClientSocket` owns a descriptor
and closes it in its destructor, but is copied by the compiler's copy operations.
The NVIDIA SDK is vendored and the sound resources are generated; neither is modelled.

### What is hard here

* HTTP threads and the receive loop meet in two tables with two mutexes;
  `removeClient` visits them one after the other.
* Hellos are datagrams: lost, late, duplicated, or overtaken by a DELETE.
* An entry has three ways out (purge, sweep, receive error), and its listener
  lives in another object.
* `started` is a plain `bool` set by the task, cleared by the loop or by a
  DELETE without a lock, and tested by POST; replacing `startHandle` waits.
* Two mutexes are taken in both orders; the worker blocks in `send` under both.
* `std::erase_if` over a type whose move assignment loses a cleanup.
* A byte stream read in fixed packets whose sender dropped the padding.
* Audio callbacks, a silence thread, commands and hotkeys share a stream and a
  coder without a lock, while the objects are made and destroyed.
* A vector of sockets that closes a descriptor each time it moves an entry, in a
  process where a closed number is the next one somebody else opens.
* A settings file that is truncated and then written, by instances that may end
  in between and do not know of one another.
* A message loop that loses what is posted to it before it has a queue, and on
  whose end the process's end waits; statics that `exit` destroys under threads.

### What makes each component correct

* Voice server: sessions only go forward; who is listed can be removed; who
  speaks stays; who goes takes its listener along; relaying respects echo.
* Notifications server: the vectors stay consistent through `erase_if`; the two
  mutexes neither deadlock nor let anybody in while the worker iterates; packets
  are understood.
* Room executor: how many loops a server may have, whether `isRunning` can be
  believed, whether `roomsMutex` comes back.
* Video server: nobody is sent back what he streams.
* Frames: what is handed to the decoder was captured, and is whole.
* Streams: a client has one stream thread; commands that wait for it return; a
  thread that is told to stop stops.
* Client: retries end; an answer is read by the thread that asked; after a
  connect the sockets, audio objects, id and room belong together; nothing is
  used after it is gone.
* Microphone and speaker: a connected client is heard, muted or not; who uses the
  encoder at once; where a coder that is not there can be used; what a request to
  fix the delay drops.
* UDP sockets: who holds which descriptor number; whom a copied one closes; what leaks.
* Settings: what a start reads is what was changed last.
* Hotkeys: a combination runs the callback it was registered with.
* Process: what is used is there; an exception that reaches `main` is shown.
* Updater: what is installed is what was found; an update does not leave a mixture
  nobody notices; nothing stays in the temporary directory.

## The modules

| Module | What it is |
|--------|------------|
| `NotificationHub` | Abstract: a set of listeners and a set of waiting requests. |
| `NotificationsServer` | The threads, mutexes, vectors and byte streams behind it; implements the hub. |
| `RoomMembership` | Abstract: a session is unknown, registered, member, leaving, gone. |
| `VoiceServer` | The receive loop and the HTTP threads of one room, over a `NotificationHub`; implements the membership. |
| `Room` | HTTP threads, `roomsMutex`, and the receive loops of each room's voice and video server. |
| `VideoStreaming` | Clients with their stream commands and threads, and the relay of frames. |
| `VideoFrames` | Cutting a frame into chunks, a network that does what it likes, and their assembly. |
| `Client` | The client process around its connection: four threads and one control stream. |
| `Audio` | The client's microphone and speaker: RtAudio's callbacks, the silence thread, mute, restart, construction and destruction. |
| `Updater` | The update pipeline, clients that hold files, releases that come and go. |
| `Descriptors` | Descriptor numbers of the server's process, and a vector whose entries own one. |
| `Settings` | The settings file and the instances of the client that read and write it. |
| `Hotkeys` | The message loop of the hotkeys on Windows and the threads that register. |
| `Process` | The client's process from start to end and again, over `Settings` and `Hotkeys`. |
| `Vectors` | `std::erase_if` by positions, for the two servers whose vectors are sequences. |
| `VoiceServer_proofs`, `NotificationsServer_proofs`, `VideoStreaming_proofs`, `Process_proofs`, `Vectors_proofs` | Theorems about the module of that name. |
| `Server_proofs` | Theorems about `Room` and `Descriptors`, what the server's process makes and opens. |
| `Library_proofs` | Theorems about `VideoFrames` and `Audio`, the client's library. |
| `Programs_proofs` | Theorems about `Client` and `Updater`, the two programs a user runs. |
| `MC_*` | Constants of the small instances. |

`VoiceServer` uses `NotificationHub` by INSTANCE, so what is checked of
`NotificationsServer` by refinement is what `VoiceServer` relies on.  `Room`
takes the handler for granted: a packet may be served, clear `started`, or end
the loop with an exception, and which of these happens is left open.  `Process`
EXTENDS `Settings` and `Hotkeys`, whose operations are steps of its threads; what
a connect and its messages do in between is in `Client`, and the audio threads
are in `Audio`.  Where one proof module is about two models, the definitions of one of
them carry its name (`AudioInit`, `DescriptorsNext`, `UpdaterTypeOK`).

Where one small instance cannot hold everything, a module has a constant `Plans`
and a variable `plan` with the member the run has: which clients, connections or
platform there are and how often they may act.  One TLC run then covers several
instances that are small in different ways, and the theorems hold for any set of
plans.

### VoiceServer

`clients` is a set of entries with the position each was appended at, because
`std::find` returns the first entry of an address and one address may have
several.  `pendingClients` maps an id to the address its hello came from
(`ZeroAddr` before); `removing` is the local variable `temp` of a DELETE between
its two critical sections; `deleted` and `issued` are history.  `pc` and `packet`
are the receive loop:

    recv -> check -> (purge -> sweep ->) dispatch -> recv
                                         dispatch -> lookup -> recv    (hello)
    off: the flag was cleared;  dead: a send threw

Each step is one critical section or a stretch without shared state.  The sweep
locks once per stale entry; it is one action, since the entries it removes are
fixed by the packet's timestamp and no HTTP thread can tell the orders apart.
`disconnectedClients` is a set: adding an address twice purges what adding it
once purges.  Names are kept only as far as the code compares them, audio not at
all.  The loop is single here; `Room` says when it is.  `Listen` is what the hub may
do to a session's listener beside this loop: its client connects, or a connection that
broke is listed under the session's id (`Stray`, see below).

Bounds: `MaxTime`, `MaxHellos`, `MaxEchoes`, `MaxErrors`.  The timeout is 1 or 2
ticks in place of 30 seconds.  The assumption `Boot >= Timeout` says that the
host has been up for half a minute: an entry that has not spoken has the epoch as
its timestamp and is stale.

### NotificationsServer

`worker`, `remover`, `push` and `conn` are the threads.  `remove` takes its
mutexes one by one and backs off, as `std::scoped_lock` does.  `EraseIf` is the
effect of `std::erase_if` with the class's move operations: survivors move down,
a cleanup that is written over is forgotten, and the destroyed tail runs the
cleanups that were not moved from.  So of the removed connections only those in
the tail are closed: for one removal among several listeners the connection is
closed if the removed one was last, and leaks otherwise.  What stays where is
`Erased` of `Vectors`: each entry's place is the number of those that stay up to it.
`MC_NotificationsServer` checks it against `SelectSeq` for all vectors of up to 4
entries (`ErasedIsSelectSeq`).  `ReadId` of a peer that
closed early yields what the uninitialised `id` held: any session's id or nobody's
(`Garbage`); `plan.junk` says which values an instance tries.  Such a connection may
list a session that was removed long ago, so the hub has a step for it, `Stray`, and
remembers in `strays` whom it has befallen; a connection that is listed under its own
client's id counts as that session's, however the id came about.  `sent` and
`packets` count texts and packets on a connection; a send waits when the peer
lets `SocketBuffer` bytes pile up.  A plan names the sessions, those that PATCH
their notifications, the connections, and the numbers of pushes and removals.

### Room

A thread is a record of the request it serves.  `loop` says where each task of a
server is, `handle` which of them `startHandle` stands for.  `AssignHandle` waits
for the task it replaces: the destructor's wait of a future made by `std::async`.
DELETE takes no lock; `started` is read and written by anyone.  The second call
of `notificationServer.start` on a restart and its callback belong to the
external TCP server and are taken to return.  Passwords are left out: a wrong one
changes no state.  `MaxStarts` bounds the tasks of a server; a POST that might
need another one is not let in.

### VideoFrames

`Capture` and `SendChunk` are `processFrame`: the loop's `index` and `currentSize`
are variables, each turn of the loop adds a chunk to `network`.  A datagram may be
delivered never, once, or many times, in any order; so `network` only grows and
`Receive` takes any member.  The viewer is `ScreenViewerData`: `currentSignature`,
`data` (the vector's size is its domain), `filled`.  A byte is a pair of a frame
number and a position, so that a picture put together from two frames shows.
`Fits` is what `operator[]` and `std::copy` would need: an access outside sets
`astray`, after which nothing is said.  `std::rand` may give any signature.

### VideoStreaming

`socket` is `videoStreamSocket`, numbered; the n-th socket of a client has an
address of its own.  `console` is where the command in hand is: the POST, its
wait when the room's loop is being replaced (`former` is the old loop, and the
request holds `roomsMutex`: `RoomsFree`), the hello with its looks, the
assignment of the `std::jthread`, which stops and joins.  `stop_stream` sends its
DELETE and resets the socket in either order with the server's handling of it.
`thread` is a stream thread: it makes its capturer or viewer (`Begin`), tests its stop
token, reads the pointer (`Look`), and uses what it read (`SendFrame`, `NothingToView`,
`ViewFrame`, `UseAfterClose`); between two of these the console may replace the socket.
What `processFrame` and `decodeFrame` throw leaves the thread and ends the client
("threw"): a `sendto` that would block, a receive error, a coder.  Finding nothing to
receive is such an error on Linux, and nothing on Windows, where the viewer looks again
and again.  `processFrame` captures until there is a picture (`Captured`): on Linux
`capture` has none, so a thread there stays in its first call, and no thread owes a
capture anything elsewhere.  At its end a viewer is deleted as though it were a capturer
(`Ends`).  The console ends in "unwind" when making the socket or its hello throws.
A plan says which commands each client may give, how often, who is on Linux, and how
many datagrams are repeated.  A frame rate of 0, by which `runStream` would divide, is
left out, and so are the pauses between frames.
`clients` is the server's vector with its duplicates; a frame goes to all entries but the first
one found for its sender, as in `serve`.

### Client

An attempt to connect is numbered, and what it makes carries its number:
`socket`, `notification`, `microphone`, `speaker` say which attempt's object is
the current one.  `requests` and `answers` are the two directions of
`controlStream`; reading takes the head of `answers`, whoever asked.  A timeout
leaves the answer to come.  `console`, `notifier`, `keys` and `closer` are the
threads; `held` is a pointer a thread read and has yet to use.  An object that is
used after it was replaced makes `status` "undefined", and the run of the model
ends there.  `overlapped` and `timeouts` are history: they say whether the
control stream was ever used by two threads at once or missed an answer, the
premises of `OwnAnswer` and of `RightRoom`.  The server is what this client sees:
POST gives a session or refuses, DELETE removes it from the room it names, a
hello is answered whether its session is held or not.  Each step of an attempt may
fail: the POST, making either socket, the hello, its answer.

### Audio

`stage` is how far `Connect` is with the constructors, or the destructors with the
end: a second connect destroys the microphone first, `exit` the speaker.
`stream` is the state RtAudio keeps; a call in a wrong state changes nothing and
its error is not read, which is how the code uses it.  Stopping has two steps:
`isStreamRunning` says no from the first on, and the call returns when the
callback has.  `thread` is the command a console or hotkey thread is in the middle
of: mute looks whether the stream runs and then stops or starts it, an override
stops, closes, opens and starts it.  `callback` and `silence` are the threads that
encode; a `send` that fails on the first calls `exit(1)`, on the second ends the
process.  Packets are numbered as they arrive: `read` of them were taken from the
socket.  `asked`, `stale` and `cut` are history, and remember the last request to
fix the delay.  A voice packet that is as long as a join packet is taken for one by
the callback; what is played is left out, and so this is.  A callback of the microphone
always has its samples: one without them returns at once, which is left out.

### Descriptors

`holder` is the operating system's table: for each number, who opened it.  An
entry of `clients` has the number it knows (`fd`) and which socket it was made
for (`made`); after a copy the two may disagree.  `Grow` is `emplace_back` of a
full vector: copies, then the destructors of the old entries, one `CloseNext`
each.  `Erase` is `std::erase_if` and `erase`: survivors move down by copy
assignment, the tail is destroyed.  `Strangers` are whatever else opens and closes
descriptors in the process meanwhile (HTTP connections, notification connections,
other rooms).  Opening takes the lowest free number, as POSIX says; the server's
Windows build, where the order of reuse is not promised, is left out.  `early` and
`displaced` are history.

### Settings, Hotkeys, Process

`file` is a record, missing, empty, or torn; what a parser makes of a torn file is
left open (`Parsed`).  A save has two steps, `Open`, which truncates, and `Write`;
either may fail unnoticed and the instance may end between them.  `latest` is what
was changed last by whom, and `disturbed` says that a save was cut, failed, met
another one, or began from an older record, the premise of `StartsFromLatest`.

`hotkeys` is the loop's table from id to callback and `system` what was given to
`RegisterHotKey`, which may refuse (another instance has the combination).  A
registering thread sleeps, then posts; what is posted to a loop without a queue is
in `lost`.

`at` is where `main` is: start-up, `idle` between commands, the unwinding in the
order of its locals (`hotkeys`, `wait`, `stream`, `notifier`, and then the message
to the user, `key`), `exit`.  `stream` is the stream thread: it "sends", with its stop
token tested before each frame, "captures", where it does not look at the token and
from where it comes back on Windows only, if there is a picture, or "views", where no
receive waits.  `devices` are the static microphone and speaker,
which `exit` destroys while other threads run.  `undefined` ends the run of the
model, as `status` does in `Client`.  The window may be closed anywhere, and a thread
that throws ends the process (`Killed`);
after it the process may start again with the file it left.

### Updater

`pc` walks through `main`: kill, check, get, unpack, replace (one `Copy` per
file, in any order, which is the order of a directory iterator), clean, start;
`catch` is the handler, which cleans along the same list and ends at a question
to the user (`key`).  `zip` and `unpacked` are what lies in the temporary
directory, kept over runs; a file that a client has open (`InUse`) cannot be
overwritten.  A download may be damaged, or not be written at all, since nobody looks at
the `std::ofstream`: then the archive is what an earlier run left, if any (`Get`).
`unwritten` and `killed` are history: this run's archive could not be opened, some run
was killed.  `asking` is the client that started the updater and is told to end,
without anybody waiting for it.  `Killed` ends the updater anywhere.

## The runs

| Run | Instance | Shows |
|-----|----------|-------|
| `voice_pair` | 2 sessions, 2 addresses, each hello twice, an echo packet each, throwing sends | `Inv` (the inductive invariant, with `NamelessIsRemoved`), `HearsItselfWhenAsked`, `RefinesMembership` |
| `voice_hub` | 2 sessions, a clock that runs to 3, timeout 2, a receive error, throwing sends, one listener, fair | `Removable`, `DropsListenerToo`, `ActiveStays`, `DeletedLeaves` |
| `hub` | 3 connections and 2 removals, an uninitialised id that is a session's or nobody's; 2 connections, 2 pushes and 2 removals, one that is a session's; or 1 connection, 8 texts and 1 removal; a 128-byte buffer, fair | `HubInv` (`TypeOK`, `EntriesWhole`, `ClosedOnce`), `PacketsUnderstood`, `WorkerAlone`, `RefinesHub`, `CallsReturn` |
| `rooms` | 1 room, 2 HTTP threads, 3 starts per server, fair | `RoomsInv` (the inductive invariant), `TwoLoopsMeanWaitingPost`, `StopTakesEffect`, `RoomsComeBack` |
| `video_frames` | 3 frames of 0, 1, 2 or 3 chunks, 4 signatures, chunks of 2 bytes | `FramesInv` (the inductive invariant), `ChunksTile`, `DecodedIsPicture`, `WritesInBounds` |
| `streaming` | a streamer and a viewer with one start each; one client, on Windows or on Linux, with 2 starts of either kind; or one client with a start and a repeated datagram; fair | `StreamsInv` (`TypeOK`, `NoEcho`), `UndefinedOnlyByCommands`, `TwoThreadsMeanWaitingCommand`, `CommandsReturn` |
| `client` | 2 rooms, 2 connects, a timeout, a hotkey, a question | `ClientInv` (`TypeOK`, `ConnectedWhole`, `RightRoom`), `OwnAnswer`, `CloseRemovesSession` |
| `client_live` | 1 room, 1 connect with 2 attempts, a timeout, a notification, a hotkey, a question, fair | `FirstConnectSafe`, `ConnectReturns` |
| `audio` | one life with 2 mutes or overrides, or with 3 packets and a request to fix the delay, fair | `AudioInv` (`AudioTypeOK`, `CrashesAtTheEdges`, `SilenceWatches`, `EncoderAlone`), `FixDropsOld`, `KeepsSending` |
| `descriptors` | 2 addresses, 5 hellos, room for 2 entries at first, up to 3; 2 others; 5 numbers | `DescriptorsInv` (`DescriptorsTypeOK`, `Tidy`, `LeaksCounted`, `RunsOutByLeaks`), `EarlyKeep` |
| `process` | on Linux 2 starts, 1 change and another instance; or on Windows 1 start, 2 hotkeys, 1 press; any settings file; fair | `ProcessInv` (`TypeOK`, `OwnCallback`, `EndsInOrder`, `UndefinedWhere`), `StartsFromLatest`, `UnwindEnds` |
| `updater` | 3 files, 2 versions, 2 failures (of a step, a download, or an archive that is not written), kills, 2 changes of the release, a user who goes on, fair | `UpdaterInv` (`UpdaterTypeOK`, `CopiesFound`, `NothingLeft`), `UnnoticedByInterruption`, `EventuallyLatest` |

Why the bounds are enough.  Two sessions are needed for one to be swept because
another left; two hellos of one session are what separates "first entry" from
"newest entry"; one error can end the loop and a POST restart it.  Sessions that
share an address are left to the proofs, which cover any assignment.  Three
listeners are the fewest where `erase_if` moves a survivor over a removed entry
and leaves another one in the tail.  An uninitialised id that is a removed session's takes
one removal and one broken connection.  Eight texts of 17 bytes fill two packets of
64, with a text across the boundary; a packet has room for 3 texts at any offset,
so more packets only repeat offsets.  Three starts of a server are one more than
can be live together, two HTTP threads are one that starts and one that stops; the
proofs are for any number of either.  Three frames let the chunks of two others come between
those of one; the sizes cover no chunk, full ones only, and a short last one.  Two
starts of a client are what one stream thread replacing another takes, and one
repeated datagram what a second entry takes.  Two connects of one attempt (or one
of two) are what a late answer and an object under a running thread take.  Two commands
are what one thread's stop between another's look and its start takes; three
packets are one that is played, and two that a drain meets.  A vector with room for
two that gets a third entry grows once, and still has an entry to erase before its
last; five hellos are enough to lose descriptors and to run out of the five there
are.  Two starts of an instance let the second read what the first left, and one
instance beside it is what a lost or torn save takes; two hotkeys are what a mix-up
of ids takes.  With
two failures the updater can fail once in the pipeline and once while cleaning,
and with two releases a version can go and come back.
`MC_Client.cfg` uses the symmetry of the two rooms, and `MC_Descriptors.cfg` that of
the addresses and of the others; neither has a liveness property.

The runs switch deadlock checking off: all counters are bounded, a room with no
packets to come and no requests to serve stands still, and so does a crashed
notifications server.

Fairness.  Threads that can go on do (weak fairness of the loop, the tasks, the
requests).  A thread waiting for a mutex that is free again and again gets it
(strong fairness in `NotificationsServer`), which the operating system's mutexes
give in practice and the C++ standard does not promise.  Packets: `voice_hub`
assumes none and carries "packets keep arriving" as a premise of
`DeletedLeaves`, which holds in a room with a member left, since a client's
silence thread sends at least once a second (`KeepsSending`); `rooms` assumes that while a
loop waits somebody sends (`PacketsArrive`), without which no stop ends anything.
`hub` assumes that a connected client reads, which its notification thread
does.  `streaming` assumes that commands and stream threads go on where
they can, and nothing of the network or the server: hellos may all be lost.  It assumes
nothing of `processFrame` either, whose loop around `capture` (`c_api.cpp:397`) does not
see the stop token: that it comes back is the premise of `CommandsReturn`.  On Linux
`capture` returns nothing (`c_api.cpp:935`), the premise is false while a stream runs,
and a second `start_stream` waits in `streamThread`'s assignment for ever, as in the
code.
`client_live` assumes that the console thread goes on and that the server answers
what it was asked or the socket's timeout strikes.  `audio` assumes that RtAudio
calls back while a stream runs and that threads and commands go on.  `updater`
assumes that the updater's process runs, that a process asked to end ends, and for
`EventuallyLatest` (`Persistent`) a user who answers, closes the client and starts
it again; failures are bounded, so that the network is not down for ever.  `process` assumes
that `main` and the other threads go on where they can; not that anybody types, presses
a key or sends a notification, so that the notification thread, whose `recv` blocks, may
stay there; nor that a capture ends, which is the premise of `UnwindEnds`.

### What the models show about the code as it is

* A session whose hello was duplicated gets two entries.  A sweep of the silent
  second one erases the session's pending entry, and the first, active one can no
  longer be removed by DELETE.  `Removable` excludes it by `hellos <= 1`.
* A DELETE that comes before the hello leaves a nameless entry behind that only
  the timeout removes.  `NamelessIsRemoved` says that this is the only way.
* The last session's name stays: its purge waits for a packet nobody sends.
* After an exception `started` stays true and no POST starts the loop again.
* A stop and a start around a waiting loop leave two loops on one socket, the new
  one having set the flag the old one reads.  Neither ends, and the POST keeps
  `roomsMutex`; only a DELETE of the video stream, which takes no lock, frees it.
  `RoomsComeBack` names exactly this situation as the exception.
* A hello that is repeated lists a streamer twice, and he gets his frames back:
  the premise of `NoEcho`.
* A signature that repeats, or is 0 for the first frame a viewer gets, makes
  `decodeFrame` write outside its vectors: the premise of `WritesInBounds`.
* `stop_stream` resets the socket its thread may be using, and ends the room's
  stream for everybody; a start over a running stream replaces the socket under
  the thread.  `UndefinedOnlyByCommands` says that without these a client's behaviour is
  defined.  Defined does not mean that it goes on: an error of the stream's non-blocking
  socket or of a coder leaves the thread as an exception, and `std::terminate` ends the
  client; on Linux a viewer ends so as soon as it finds its socket empty.
* `stopStreamView` deletes the `ScreenViewerData` it is given as a `ScreenCapturerData`:
  a viewer that is told to stop, by a command or by an exception that reaches `main`,
  runs into undefined behaviour.  `UndefinedOnlyByCommands` and `UndefinedWhere` name it.
* A stream on Linux captures for ever: neither a second start nor the unwinding of `main`
  gets its thread to end.
* The id of a notification connection that broke before it was read is uninitialised: if
  it happens to be a session's, the dead connection is listed for it, even after the
  session was removed, and only a removal of that id takes it away.
* The stream commands copy `id` when `main` builds their list, before any connect, so
  their hellos all name session 0.  The video server knows its clients by address
  alone, so nothing comes of it, and `VideoStreaming` has no ids.
* A POST that waits for the old loop of a stream keeps `roomsMutex` until a packet
  comes.
* An answer that comes after its timeout stays in the control stream and is taken
  for that to the next connect, which may be to another room: hence `Undisturbed`
  in `RightRoom`.  A hotkey or the close handler in the middle of a command mixes
  answers up as well.
* A second connect replaces objects that running threads use.  `FirstConnectSafe`
  names what can go wrong before it: a hotkey or a notification that comes before
  there is a speaker, and `get_users`, whose checks are combined with `&` and so
  are none, without a stream.
* Failed attempts after their POST leave sessions at the server, and `exit` sends
  no DELETE.
* A microphone's stream runs before its encoder exists, and after it was destroyed:
  every `exit` destroys the encoder under the running callback.  `CrashesAtTheEdges`
  says that in between nothing of the kind happens.
* Silence thread and callback share the encoder without a lock; `EncoderAlone` names
  the switches of the stream that let them meet.
* A request to fix the delay that comes between the end of a drain and the clearing
  of the flag is forgotten, and a drain that meets a receive error is over:
  `cut` in `FixDropsOld`.
* Overriding a muted microphone's device starts its stream, and so unmutes it.
* A vector of sockets that outgrows its room closes the numbers its copies go on
  holding; they become somebody else's, and the entry's end closes them under him.
  An erased entry that another one is copied over never closes its own.  `Tidy` and
  `LeaksCounted` say that nothing else does either, and `EarlyKeep` that a
  descriptor from before the first copy is never hit: the room's server socket keeps
  its number.  Since the entries' sockets are only opened and closed, and never sent
  on, the relay does not notice.
* A save truncates the file and then writes it; an instance that ends in between
  leaves an empty file, read as defaults.  Two instances write over each other's
  changes.  `StartsFromLatest` names exactly these as its premise.
* An exception thrown before the hotkeys' thread has its queue loses the message
  that would end it, and `main` waits for it for ever, before the exception is shown;
  a notifier that waits for a text, or a stream thread whose captures do not end, holds
  it up too.  `UnwindEnds` names the first two and has the third as its premise.
* A thread that registers a hotkey sleeps for five seconds, and may find the
  `Hotkeys` object gone.  `exit(0)` destroys the statics under running threads.
  `UndefinedWhere` says where else something is used that is not there.
* A copy that fails after the library's leaves a mixture of versions that no later
  check notices: `UnnoticedByInterruption`.
* An archive that cannot be opened for writing is not missed: what a killed run left in its
  place is unpacked and copied as though it were the release that was found.
  `CopiesFound` says that it takes both, the killed run and the file that is not opened.

## The proofs

`VoiceServer_proofs` proves, for all values of the constants allowed by
`ConstantsAssumption`:

* `TypeCorrect`: `Spec => []TypeOK`;
* `Invariant`: `Spec => []Inv`;
* `RemovableAlways`, `NamelessAlways`: two conjuncts of `Inv` as theorems;
* `ImplementsMembership`: `Spec => RefinesMembership`;
* `ActiveStaysAlways`, `DropsListenerAlways`: the two action properties;
* `HearsItselfAlways`: `Spec => []HearsItselfWhenAsked`.

`Removable` and the refinement are not inductive.  That a named entry can be
removed depends on what a DELETE has in hand, on the lookup naming only the entry
it just appended, and on there being one entry per hello.  `Inv` adds these:
`TablesOK` (a session is pending or being removed, never both, and always with
its own address), `PacketOK` (the packet in hand belongs to an issued session;
during the lookup the newest entry is the packet's), `EntriesOK` (positions are
unique, a named entry's pending record has an address), `OneEntryPerHello`.  The
proof is one step per action and one leaf per conjunct.  The refinement proof
follows each action's effect on `phase`: POST and the lookup are arrivals,
everything else is a stutter or departures, several at once for purge and sweep.
`ActiveStays` needs `Causes`: whose address waits to be purged was deleted, and a
packet in hand is not from the future.  `DropsListenerToo` needs that `std::find` finds an entry
when there is one, that is, that a nonempty set of positions has a least one: lemma
`Least`, from the well-foundedness of `<` on the naturals.  `HearsItselfWhenAsked`
needs `EchoesOK`, which counts the echo packets of a session against the flag of its
only entry, the packet in hand included.

`Vectors_proofs` proves what `std::erase_if` leaves of a vector, `ErasedFacts` and
`ErasedKeepsOrder`: every entry that stays, once, in order, and nothing else.  The
places of two entries differ, and lie within as many places as there are entries;
that each place is then taken is a fact about finite sets (`PlacesTaken`).

`NotificationsServer_proofs` proves, for any sessions, connections, texts, removals
and buffer size, from `FreeAssumption` (a free mutex is nobody's):

* `WorkerAloneAlways` and `PacketsAlwaysUnderstood`.  `Locks` says what each holder of
  a mutex is doing; `remove`, which takes the two in either order and backs off,
  keeps it.  `PacketsUnderstood` is arithmetic once `BytesInv` says that a client has
  read no more bytes than were sent: packet `b` contains the text after the last one
  that begins before it.
* `HubSafe`: `Spec => []HubInv`.  The inductive invariant `HubIInv` adds to it
  `Locks`, `AtListener` (the worker's position is one of the vector's, which `Locks`
  keeps still), `Asked`, and `Owned`: a connection is listed only after its thread has
  appended it, and until then nobody but the thread has its cleanup.  Without `Owned`
  an append could list a connection twice, or after it was closed.  An erased vector
  is dealt with by `ErasedFacts`: the cleanups that run are those of entries in the
  tail that were not moved from, so an entry that stays keeps its own.
* `ImplementsHub`: `Spec => RefinesHub`.  The worker's last step forgets the queue at
  once, a removal erases from both vectors under both mutexes, and every other step is
  one of the hub's or a stutter; `HubIInv` gives each step what it needs.  No assumption
  says what an uninitialised id may be: the step that lists a connection is the hub's
  `Connect` when the id is that of the connection's client, else its `Stray`.

`Server_proofs` proves `TypeCorrect`, `Invariant`, `TwoLoopsAtMost` and
`RunningAlways` of `Room`.  The strengthening is `Locked` (a request inside
`start` holds `roomsMutex`) and `LoopsKnown` (every live loop is `startHandle`'s
or the one the request inside `start` is about to put there); together they leave
room for two loops and no third.

It also proves `DescriptorsSafe` and `EarlyKeeps` of `Descriptors`, for any addresses,
numbers, entries, hellos and others.  `Tidy` is not inductive: that no entry closes
another's number before the first copy takes `EachItsOwn` (no two entries, listed or
being destroyed, were made for the same socket) and `MadeBefore`.  `EarlyKeep` takes
`HoldersKnow` (whoever else holds a number knows it) and `EarlyAlone` (nobody thinks
that an early one's number is its own), which an `Open` keeps because it takes a free
number.  `LeaksCounted` charges each leak to an entry that was displaced, and
`RunsOutByLeaks` is a count: the numbers that did not leak have distinct holders.

`Library_proofs` proves `Invariant`, `ChunksTileAlways`, `DecodedAlways` and
`WritesInBoundsAlways` of `VideoFrames`, for chunks of every size, frames of every
size up to 65535 chunks, any number of frames and any loss, repetition and
reordering.  `Inv` has three parts.  `CutToIndex`: `processFrame` has cut
`index` chunks, all full but the last.  `ChunksTrue`: a chunk in the network says
the truth about its frame, and carries the span of its index.  `OneFrameInPlace`:
with distinct signatures the viewer is unused or puts together one frame, whose
marked chunks are in place.  When all are marked the picture is complete, because
every position of a frame lies in the span of a chunk (`SpansCover`, from a lemma on
division).  `ChunksTile`
takes `ChunksSent` besides: a chunk is in the network if and only if the loop has
passed it, so that a finished frame has one for each index, and counting them is
counting an interval.

It also proves `AudioSafe` and `FixDrops` of `Audio`, for any number of mutes,
overrides, requests and packets.  The invariant follows the life of the objects:
`Made` (which coder there is at each stage of a construction or an end), `Users` (who
may act at a stage), `Streams` (a stream that does not run has no callback, and has not
been opened before its stage), `Looks` (what the silence thread saw of the stream still
holds unless somebody switched it), and `Fixes` for the request: while nothing cut a
drain, the callback plays at most one of the packets that had arrived when the request
was made, and has taken all of them when it clears the flag.

`VideoStreaming_proofs` proves `TwoThreadsMeanWaitingCommandAlways`,
`UndefinedOnlyByCommandsAlways` and `StreamsSafe`, for any clients, retries, starts and plans.
`Threads`
numbers each thread by its socket, says that outside the assignment no thread but
`streamThread` is live, and inside it that one has been told to stop.  `Safe`
follows a client with its first socket: with no repeated datagram there is one
answer to its hello, which the command takes before it makes the thread (`HelloGone`),
and what the thread catches is that socket (`SocketKept`).  For `NoEcho`, `HelloOnce`
says that, undisturbed, a socket's hello is yet to come, or on its way, or its address
may be listed, and never two of these; so nobody is listed twice, and `serve`, which
skips the first entry of the sender, skips the only one.  What a receive error leaves
of the vector is again said by `ErasedFacts`.

`Programs_proofs` proves of `Client` `OwnAnswerAlways`, `ClientAlways`,
`CloseRemovesSessionAlways` and `FirstConnectSafeAlways`, for any rooms, retries,
and bounds on connects, timeouts, presses, notices and questions.  The invariant is
built in layers, each inductive with those before it.  `ExchangeInv`: undisturbed,
the control stream holds one reader's question or answer and nothing else.
`SessionsInv`: a session on its way to a connect is held by the server and nobody
asks for its end, so that an answer to its hello says that it was heard.
`BuiltInv`: what a connect has made by each step carries its number.  `RoomsInv`:
one room from the request to the settings.  `ClosingInv`: while the close handler
waits, its request is on its way or the session is gone.  `FirstInv`: before the
second connect every object was made once, so a pointer a thread has read is the
current one.

`Process_proofs` proves `StartsFromLatestAlways` and `ProcessAlways`, for any
instances, connections, volumes, keys and plans.  `FileFollows`: undisturbed there is
one save under way at most, of the latest record, and with none the file is that
record.  `Tables`: the loop's and the system's table agree, and every message on its
way agrees with them.  `Order`: how far the unwinding has come by each step.

Of `Updater`, `Programs_proofs` proves `UpdaterAlways` and `UnnoticedAlways`, for any files,
versions, failures and releases.  `Disk` says what lies in the temporary directory
at each step and how much of it the handler knows; `Archives`, that an archive lies there
from another run only after a kill; `Copied`, that what is no longer to be copied is
there.

Assumptions.  The theorems rest on the ASSUMEs of the modules alone:
`ConstantsAssumption`, `PlansAssumption`, `NumbersAssumption` and `ReleasesAssumption`
(bounds are naturals, `Boot >= Timeout`, plans are plans, and the like),
`FreeAssumption`, `SettingsAssumption`, `FilesAssumption`, `HotkeysAssumption` and
`ProcessAssumption` (the marks for "none" are no values).  TLC evaluates each of them
in the runs.

Every safety, action and refinement property of a run is stated by a theorem.  Only
model-checked:

* liveness: `DeletedLeaves`, `CallsReturn`, `StopTakesEffect`, `RoomsComeBack`,
  `EventuallyLatest`, `CommandsReturn`, `ConnectReturns`, `KeepsSending`,
  `UnwindEnds`; the prover does no fairness;
* that `Erased` is `SelectSeq`, which is defined by recursion: for vectors of up to 4
  entries.  The proofs use `Erased` alone.

## Not modelled

The web framework and the base TCP server (external), audio and video data, the
contents of names and passwords, data races as such (an unlocked read sees the
old or the new value; `getClients` during a reallocation has no behaviour worth
modelling), the wording of what is printed.  In detail:

* the server's `main` and `Ping`: configuration of the framework, and a probe
  without state;
* volumes: a number that scales samples, and no other state depends on it but the
  settings, where `Settings` has it;
* a failing encoder, which throws on the thread that called it, as a failing `send`
  does, which `Audio` has;
* capture and viewer windows of `c_api.cpp`: calls of the operating system between
  the frames of `VideoFrames` and the threads of `VideoStreaming`;
* `DiscordCloneClientResources`: sounds as generated arrays, and an accessor;
* the NVIDIA SDK: vendored.

Of the repository's 40 000 lines some 33 000 are those generated arrays, and others
are vendored headers and build files; the map covers most of what is left.

## Plan

Done: all modules and proofs above.  What could come next:

1. The steps towards the liveness properties that are safety: what a waiting thread
   waits for is always under way (`RoomsComeBack`, `CommandsReturn`, `UnwindEnds`).
2. `RoomMembership` and `NotificationHub` with what they promise of their own, as
   theorems that a room could cite.
3. Two rooms over one process in `Descriptors`.
