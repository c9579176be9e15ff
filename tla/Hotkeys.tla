------------------------------- MODULE Hotkeys -------------------------------
(***************************************************************************)
(* The hotkeys of a client on Windows: the message loop, which has a       *)
(* thread of its own, and the detached threads which ask it for a hotkey   *)
(* five seconds after main did.  On Linux the class does nothing.          *)
(*                                                                         *)
(* A message posted to a thread that has no queue yet, or is gone, is      *)
(* lost, and nobody looks.  Whatever posts finds the thread's number in    *)
(* the Implementation object, which main destroys.                         *)
(***************************************************************************)
EXTENDS Naturals, Sequences

CONSTANTS
  Keys,           \* the combinations main registers, each with its own callback
  NoKey

ASSUME HotkeysAssumption == NoKey \notin Keys

Kinds == {"register", "hotkey", "quit"}
Message == [kind : Kinds, key : Keys \cup {NoKey}, id : Nat]

VARIABLES
  loop,           \* the loop's thread: "none", "window" (its number is stored, it makes its
                  \* window and with it its queue), "get", "callback", "over"
  queue,          \* messages posted to it
  hotkeys,        \* id -> the key whose callback it is
  system,         \* id -> the key the system sends it for
  nextId,         \* currentHotkeyIndex
  pressed, runs,  \* the key that was pressed, and whose callback runs
  asked,          \* keys main has registered
  sleeping,       \* keys whose thread has not posted yet
  lost,           \* history: keys whose message was lost
  quit,           \* "no", "posted", "lost"
  gone            \* the Implementation is destroyed

handling == <<loop, queue, hotkeys, system, nextId, pressed, runs>>
asking == <<asked, sleeping, lost>>
hotkeyVars == <<handling, asking, quit, gone>>

HotkeysTypeOK ==
  /\ loop \in {"none", "window", "get", "callback", "over"}
  /\ queue \in Seq(Message)
  /\ nextId \in Nat
  /\ DOMAIN hotkeys \subseteq 0 .. nextId-1 /\ DOMAIN system \subseteq 0 .. nextId-1
  /\ \A n \in DOMAIN hotkeys : hotkeys[n] \in Keys
  /\ \A n \in DOMAIN system : system[n] \in Keys
  /\ pressed \in Keys \cup {NoKey} /\ runs \in Keys \cup {NoKey}
  /\ asked \subseteq Keys /\ sleeping \subseteq asked /\ lost \subseteq asked
  /\ quit \in {"no", "posted", "lost"} /\ gone \in BOOLEAN

HotkeysInit ==
  /\ loop = "none" /\ queue = <<>> /\ hotkeys = <<>> /\ system = <<>> /\ nextId = 0
  /\ pressed = NoKey /\ runs = NoKey
  /\ asked = {} /\ sleeping = {} /\ lost = {}
  /\ quit = "no" /\ gone = FALSE

\* Another life of the process.
HotkeysReset ==
  /\ loop' = "none" /\ queue' = <<>> /\ hotkeys' = <<>> /\ system' = <<>> /\ nextId' = 0
  /\ pressed' = NoKey /\ runs' = NoKey
  /\ asked' = {} /\ sleeping' = {} /\ lost' = {}
  /\ quit' = "no" /\ gone' = FALSE

HasQueue == loop \in {"get", "callback"}

-----------------------------------------------------------------------------
(* The threads that ask.                                                   *)

Register(k) ==
  /\ asked' = asked \cup {k} /\ sleeping' = sleeping \cup {k}
  /\ UNCHANGED <<handling, lost, quit, gone>>

\* While the Implementation is there.
Wakes(k) ==
  /\ k \in sleeping /\ ~gone
  /\ sleeping' = sleeping \ {k}
  /\ IF HasQueue
       THEN /\ queue' = Append(queue, [kind |-> "register", key |-> k, id |-> 0])
            /\ UNCHANGED lost
       ELSE lost' = lost \cup {k} /\ UNCHANGED queue
  /\ UNCHANGED <<loop, hotkeys, system, nextId, pressed, runs, asked, quit, gone>>

-----------------------------------------------------------------------------
(* The message loop.                                                       *)

ThreadStarts ==
  /\ loop = "none"
  /\ loop' = "window"
  /\ UNCHANGED <<queue, hotkeys, system, nextId, pressed, runs, asking, quit, gone>>

CreateHotkeyWindow ==
  /\ loop = "window"
  /\ loop' = "get"
  /\ UNCHANGED <<queue, hotkeys, system, nextId, pressed, runs, asking, quit, gone>>

GetMessage(kind) ==
  loop = "get" /\ queue # <<>> /\ Head(queue).kind = kind /\ queue' = Tail(queue)

\* Mutant: the index is not incremented.
SameId == nextId

FollowingId == nextId + 1

\* What RegisterHotKey answers nobody looks at: another program, or another instance of
\* this one, may have the combination.  emplace keeps what is there.
TakesRegister ==
  /\ GetMessage("register")
  /\ LET k == Head(queue).key
         n == nextId
     IN /\ hotkeys' = [i \in DOMAIN hotkeys \cup {n} |->
                         IF i \in DOMAIN hotkeys THEN hotkeys[i] ELSE k]
        /\ \/ system' = [i \in DOMAIN system \cup {n} |-> IF i = n THEN k ELSE system[i]]
           \/ UNCHANGED system
  /\ nextId' = FollowingId
  /\ UNCHANGED <<loop, pressed, runs, asking, quit, gone>>

Press(k) ==
  /\ HasQueue
  /\ \E n \in DOMAIN system :
       /\ system[n] = k
       /\ queue' = Append(queue, [kind |-> "hotkey", key |-> k, id |-> n])
  /\ UNCHANGED <<loop, hotkeys, system, nextId, pressed, runs, asking, quit, gone>>

TakesPress ==
  /\ GetMessage("hotkey")
  /\ loop' = "callback" /\ pressed' = Head(queue).key /\ runs' = hotkeys[Head(queue).id]
  /\ UNCHANGED <<hotkeys, system, nextId, asking, quit, gone>>

\* An exception leaves the loop, and is kept in a future that nobody asks.
CallbackEnds ==
  /\ loop = "callback"
  /\ loop' \in {"get", "over"} /\ pressed' = NoKey /\ runs' = NoKey
  /\ UNCHANGED <<queue, hotkeys, system, nextId, asking, quit, gone>>

TakesQuit ==
  /\ GetMessage("quit")
  /\ loop' = "over"
  /\ UNCHANGED <<hotkeys, system, nextId, pressed, runs, asking, quit, gone>>

-----------------------------------------------------------------------------
(* ~Implementation.                                                        *)

PostQuit ==
  /\ quit = "no"
  /\ IF HasQueue
       THEN /\ queue' = Append(queue, [kind |-> "quit", key |-> NoKey, id |-> 0])
            /\ quit' = "posted"
       ELSE quit' = "lost" /\ UNCHANGED queue
  /\ UNCHANGED <<loop, hotkeys, system, nextId, pressed, runs, asking, gone>>

\* Mutant: the future is not waited for.
Anyway == TRUE

LoopOver == loop = "over"

Waited ==
  /\ quit # "no" /\ LoopOver
  /\ gone' = TRUE
  /\ UNCHANGED <<handling, asking, quit>>

-----------------------------------------------------------------------------
(* Properties.                                                             *)

\* The two tables of ids, the system's and the loop's, which are filled by threads in any
\* order: a combination runs the callback it was registered with.
OwnCallback == runs = pressed
=============================================================================
