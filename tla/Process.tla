------------------------------- MODULE Process -------------------------------
(***************************************************************************)
(* The client's process from its start to its end, and again: main with    *)
(* the settings it reads and saves, the hotkeys' loop, the notification    *)
(* thread and the stream thread, which an exception that reaches main      *)
(* waits for before it is shown, and which exit does not wait for.         *)
(*                                                                         *)
(* One instance, self, is modelled whole; of the others, which share the   *)
(* settings file, only that.  What the connection and its messages do is   *)
(* in Client, and a connect over a connection with it: here an instance    *)
(* connects once in its life.  The audio threads are in Audio.             *)
(***************************************************************************)
EXTENDS Settings, Hotkeys, FiniteSets

CONSTANTS
  self,
  Plans   \* the platform, and bounds on the starts, the presses of hotkeys, the changes users
          \* make and the starts of the others; any one of them may be met

ASSUME ProcessAssumption ==
  /\ self \in Instances
  /\ Plans \subseteq [platform : {"Windows", "Linux"}, starts : Nat, presses : Nat,
                      changes : Nat, loads : Nat]

VARIABLES
  at,             \* where main is
  devices,        \* microphone and speaker: "none", "live", "destroyed"
  connected,      \* the notification socket is there
  notifier,       \* the notification thread: "none", "look", "receive", "use", "over"
  stream,         \* the stream thread: "none", "sends", "captures", "views"
  stopping,       \* threads asked to stop
  undefined,      \* something was used before it was there, or after
  plan            \* the platform and what is left of the bounds

main == <<at, undefined>>
threads == <<devices, connected, notifier, stream, stopping>>
vars == <<main, threads, settings, hotkeyVars, plan>>

Starting == {"initialize", "load", "reconnect", "restore", "register"}
Unwinding == {"hotkeys", "wait", "stream", "notifier"}

TypeOK ==
  /\ SettingsTypeOK /\ HotkeysTypeOK
  /\ at \in {"off", "saving", "idle", "key", "exit"} \cup Starting \cup Unwinding
  /\ devices \in {"none", "live", "destroyed"} /\ connected \in BOOLEAN
  /\ notifier \in {"none", "look", "receive", "use", "over"}
  /\ stream \in {"none", "sends", "captures", "views"}
  /\ stopping \subseteq {"notifier", "stream"}
  /\ undefined \in BOOLEAN
  /\ plan \in [platform : {"Windows", "Linux"}, starts : Nat, presses : Nat,
               changes : Nat, loads : Nat]

Init ==
  /\ SettingsInit /\ HotkeysInit
  /\ at = "off" /\ undefined = FALSE /\ plan \in Plans
  /\ devices = "none" /\ connected = FALSE
  /\ notifier = "none" /\ stream = "none" /\ stopping = {}

Windows == plan.platform = "Windows"

Counts(what) == plan[what] > 0 /\ plan' = [plan EXCEPT ![what] = @ - 1]

Main(step) == ~undefined /\ at = step
Goes(step) == at' = step /\ UNCHANGED undefined

\* What a thread does while the process is there.
Lives == ~undefined /\ at # "off"

-----------------------------------------------------------------------------
(* Start-up.                                                               *)

Start ==
  /\ Main("off") /\ Counts("starts")
  /\ Goes("initialize")
  /\ notifier' = "look"
  /\ UNCHANGED <<devices, connected, stream, stopping, settings, hotkeyVars>>

Initialize ==
  /\ Main("initialize")
  /\ Goes("load") \/ Goes("hotkeys")
  /\ UNCHANGED <<threads, plan, settings, hotkeyVars>>

LoadSettings ==
  /\ Main("load")
  /\ \/ /\ Load(self)
        /\ Goes(IF memory'[self].connection # NoConnection THEN "reconnect" ELSE "register")
     \/ LoadThrows /\ Goes("hotkeys")
  /\ UNCHANGED <<threads, plan, hotkeyVars>>

\* Connect::run, from start-up or as a command: it succeeds and saves where, or returns
\* false with or without a notification socket, or throws, with whatever it has made.
Connects(c) ==
  \/ /\ Connected(self, c) /\ Goes(IF at = "idle" THEN "saving" ELSE "restore")
     /\ devices' = "live" /\ connected' = TRUE
  \/ /\ at = "idle" /\ Goes("idle") /\ UNCHANGED settings
     /\ UNCHANGED devices /\ connected' \in {connected, TRUE}
  \/ /\ at = "reconnect" /\ Forget(self) /\ Goes("restore")
     /\ UNCHANGED devices /\ connected' \in BOOLEAN
  \/ /\ Goes("hotkeys") /\ UNCHANGED settings
     /\ devices' \in {"none", "live"} /\ connected' \in {connected, TRUE}
     /\ devices' = "live" => connected'

Reconnect ==
  /\ Main("reconnect")
  /\ Connects(memory[self].connection)
  /\ UNCHANGED <<notifier, stream, stopping, plan, hotkeyVars>>

\* saveSettings; what its path may throw, loading has thrown before.
Save ==
  /\ Main("saving") \/ Main("restore")
  /\ Open(self) \/ Write(self)
  /\ UNCHANGED <<main, threads, plan, hotkeyVars>>

Saved ==
  /\ ~Saving(self)
  /\ \/ Main("saving") /\ Goes("idle")
     \/ Main("restore") /\ Goes("register")
  /\ UNCHANGED <<threads, plan, settings, hotkeyVars>>

RegisterHotkeys ==
  /\ Main("register")
  /\ \/ /\ Windows /\ \E k \in Keys \ asked : Register(k)
        /\ UNCHANGED main
     \/ (Windows => asked = Keys) /\ Goes("idle") /\ UNCHANGED hotkeyVars
     \/ asked = {} /\ Goes("hotkeys") /\ UNCHANGED hotkeyVars      \* printDeviceInfo
  /\ UNCHANGED <<threads, plan, settings>>

-----------------------------------------------------------------------------
(* Commands.                                                               *)

ConnectCommand(c) ==
  /\ Main("idle") /\ devices = "none"
  /\ Counts("changes") /\ Connects(c)
  /\ UNCHANGED <<notifier, stream, stopping, hotkeyVars>>

VolumeCommand(v) ==
  /\ Main("idle") /\ devices = "live"
  /\ Counts("changes") /\ SetVolume(self, v) /\ Goes("saving")
  /\ UNCHANGED <<threads, hotkeyVars>>

\* start_stream and join_stream, and stop_stream, of which VideoStreaming has the steps.
StreamCommand ==
  /\ Main("idle") /\ devices = "live"
  /\ \/ stream = "none" /\ stream' \in {"sends", "views"} /\ stopping' = stopping \ {"stream"}
     \/ stream # "none" /\ stopping' = stopping \cup {"stream"} /\ UNCHANGED stream
  /\ UNCHANGED <<main, devices, connected, notifier, plan, settings, hotkeyVars>>

\* Any command may throw.
CommandThrows ==
  /\ Main("idle")
  /\ Goes("hotkeys")
  /\ UNCHANGED <<threads, plan, settings, hotkeyVars>>

\* exit(0), which ends with the statics of main.cpp and leaves its locals alone.
ExitCommand ==
  /\ Main("idle")
  /\ Goes("exit")
  /\ UNCHANGED <<threads, plan, settings, hotkeyVars>>

-----------------------------------------------------------------------------
(* An exception reaches main, whose locals go one by one, the last first.  *)

QuitHotkeys ==
  /\ Main("hotkeys")
  /\ IF Windows THEN PostQuit ELSE UNCHANGED hotkeyVars
  /\ Goes("wait")
  /\ UNCHANGED <<threads, plan, settings>>

WaitForHotkeys ==
  /\ Main("wait")
  /\ IF Windows THEN Waited ELSE UNCHANGED hotkeyVars
  /\ Goes("stream") /\ stopping' = stopping \cup {"stream"}
  /\ UNCHANGED <<devices, connected, notifier, stream, plan, settings>>

\* Mutant: a thread is joined and not asked to stop.
JoinedOnly(t) == stopping

StopRequested(t) == stopping \cup {t}

JoinStream ==
  /\ Main("stream") /\ stream = "none"
  /\ Goes("notifier") /\ stopping' = StopRequested("notifier")
  /\ UNCHANGED <<devices, connected, notifier, stream, plan, settings, hotkeyVars>>

\* The sockets go, and what was thrown is shown.
JoinNotifier ==
  /\ Main("notifier") /\ notifier = "over"
  /\ Goes("key") /\ connected' = FALSE
  /\ UNCHANGED <<devices, notifier, stream, stopping, plan, settings, hotkeyVars>>

PressAnyButton ==
  /\ Main("key")
  /\ Goes("exit")
  /\ UNCHANGED <<threads, plan, settings, hotkeyVars>>

-----------------------------------------------------------------------------
(* The end.                                                                *)

\* The statics are destroyed while the other threads still run.
DestroyStatics ==
  /\ Main("exit") /\ devices = "live"
  /\ devices' = "destroyed"
  /\ UNCHANGED <<main, connected, notifier, stream, stopping, plan, settings, hotkeyVars>>

Over ==
  /\ Goes("off")
  /\ Ends(self) /\ HotkeysReset
  /\ devices' = "none" /\ connected' = FALSE
  /\ notifier' = "none" /\ stream' = "none" /\ stopping' = {}
  /\ UNCHANGED plan

ExitEnds == Main("exit") /\ devices # "live" /\ Over

\* The window is closed, or std::terminate ends the process for a thread that threw, as the
\* stream thread does after an error of its socket, the encoder or the decoder.
Killed == Lives /\ Over

-----------------------------------------------------------------------------
(* Other threads.                                                          *)

\* processFrame captures until there is a picture, as there never is on Linux, and does not
\* look at the stop token meanwhile.
Captures ==
  /\ Lives
  /\ \/ stream = "sends" /\ "stream" \notin stopping /\ stream' = "captures"
     \/ stream = "captures" /\ Windows /\ stream' = "sends"
  /\ UNCHANGED <<main, devices, connected, notifier, stopping, plan, settings, hotkeyVars>>

\* The stop token is tested before each frame.  No receive waits for one.  A viewer is then
\* deleted as though it were a capturer.  (The race with stop_stream is in VideoStreaming.)
StreamStops ==
  /\ Lives /\ "stream" \in stopping /\ stream \in {"sends", "views"}
  /\ \/ stream' = "none" /\ UNCHANGED undefined
     \/ stream = "views" /\ undefined' = TRUE /\ UNCHANGED stream
  /\ UNCHANGED <<at, devices, connected, notifier, stopping, plan, settings, hotkeyVars>>

NotifierLooks ==
  /\ Lives /\ notifier = "look"
  /\ \/ "notifier" \in stopping /\ notifier' = "over"
     \/ "notifier" \notin stopping /\ connected /\ notifier' = "receive"
  /\ UNCHANGED <<main, devices, connected, stream, stopping, plan, settings, hotkeyVars>>

\* A text comes, which is or is not a request to fix the delay.
NotifierReceives ==
  /\ Lives /\ notifier = "receive"
  /\ notifier' \in {"look", "use"}
  /\ UNCHANGED <<main, devices, connected, stream, stopping, plan, settings, hotkeyVars>>

Uses == undefined' = (devices # "live") /\ UNCHANGED at

NotifierUses ==
  /\ Lives /\ notifier = "use"
  /\ Uses /\ notifier' = "look"
  /\ UNCHANGED <<devices, connected, stream, stopping, plan, settings, hotkeyVars>>

HotkeysLoop ==
  /\ Lives /\ Windows
  /\ ThreadStarts \/ CreateHotkeyWindow \/ TakesRegister \/ TakesPress \/ TakesQuit
  /\ UNCHANGED <<main, threads, plan, settings>>

Callback ==
  /\ Lives /\ CallbackEnds
  /\ Uses
  /\ UNCHANGED <<threads, plan, settings>>

PressKey(k) ==
  /\ Lives /\ Press(k) /\ Counts("presses")
  /\ UNCHANGED <<main, threads, settings>>

\* A thread that sleeps on finds no Implementation.
Registers(k) ==
  /\ Lives
  /\ \/ Wakes(k) /\ UNCHANGED main
     \/ k \in sleeping /\ gone /\ undefined' = TRUE /\ UNCHANGED <<at, hotkeyVars>>
  /\ UNCHANGED <<threads, plan, settings>>

-----------------------------------------------------------------------------
(* The other instances.                                                    *)

Others == Instances \ {self}

OtherLoads(p) == p \notin on /\ Load(p) /\ Counts("loads")

OtherChanges(p) ==
  /\ p \in on /\ ~Saving(p) /\ Counts("changes")
  /\ Forget(p) \/ (\E v \in Volumes : SetVolume(p, v)) \/ (\E c \in Connections : Connected(p, c))

OtherSaves(p) == (Open(p) \/ Write(p)) /\ UNCHANGED plan

OtherEnds(p) == p \in on /\ Ends(p) /\ UNCHANGED plan

Other(p) ==
  /\ ~undefined
  /\ OtherLoads(p) \/ OtherChanges(p) \/ OtherSaves(p) \/ OtherEnds(p)
  /\ UNCHANGED <<main, threads, hotkeyVars>>

-----------------------------------------------------------------------------
Proceeds ==
  \/ Initialize \/ LoadSettings \/ Reconnect \/ Save \/ Saved \/ RegisterHotkeys
  \/ QuitHotkeys \/ WaitForHotkeys \/ JoinStream \/ JoinNotifier
  \/ DestroyStatics \/ ExitEnds

Commands ==
  \/ \E c \in Connections : ConnectCommand(c)
  \/ \E v \in Volumes : VolumeCommand(v)
  \/ StreamCommand \/ CommandThrows \/ ExitCommand

Next ==
  \/ Start \/ Proceeds \/ Commands \/ PressAnyButton \/ Killed
  \/ Captures \/ StreamStops \/ NotifierLooks \/ NotifierReceives \/ NotifierUses
  \/ HotkeysLoop \/ Callback
  \/ \E k \in Keys : PressKey(k) \/ Registers(k)
  \/ \E p \in Others : Other(p)

\* Threads go on; nobody need type, press, send a notification or show a picture.
Fairness ==
  /\ WF_vars(Proceeds) /\ WF_vars(NotifierLooks) /\ WF_vars(NotifierUses)
  /\ WF_vars(StreamStops)
  /\ WF_vars(HotkeysLoop) /\ WF_vars(Callback)
  /\ \A k \in Keys : WF_vars(Registers(k))

Spec == Init /\ [][Next]_vars

FairSpec == Spec /\ Fairness

-----------------------------------------------------------------------------
(* Properties.                                                             *)

\* ~Hotkeys and the jthreads: the Implementation outlives its loop, and by the time an
\* exception is shown nothing runs that used main's locals.
EndsInOrder ==
  /\ gone => loop = "over"
  /\ at = "key" => (Windows => gone) /\ stream = "none" /\ notifier = "over"

\* Callbacks, notifications and late registrations against connect, exit and unwinding:
\* what is used is there, but for a hotkey or a notification before the connect, or
\* while exit destroys the statics, a thread that sleeps longer than the Hotkeys it
\* registers with, and a viewer that was told to stop.
UndefinedWhere ==
  undefined =>
    \/ devices = "none"
    \/ devices = "destroyed" /\ ~gone
    \/ gone /\ sleeping # {}
    \/ stream = "views" /\ "stream" \in stopping

\* What holds of the process's threads, the hotkeys' two tables and the settings file
\* throughout the lives of the process.
ProcessInv == TypeOK /\ OwnCallback /\ EndsInOrder /\ UndefinedWhere

\* Unwinding main: an exception is shown in the end, or the process ends or does what is
\* undefined, provided captures end, unless the hotkeys' loop had no queue for the message
\* that ends it, or the notification thread waits for a text.
UnwindEnds ==
  []<>(stream # "captures") =>
    ((at \in Unwinding) ~>
       \/ at \in {"key", "off"} \/ undefined
       \/ at = "wait" /\ quit = "lost"
       \/ at = "notifier" /\ notifier = "receive")
==============================================================================
