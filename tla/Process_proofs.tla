---------------------------- MODULE Process_proofs ----------------------------
(***************************************************************************)
(* Theorems about Process, for any instances, settings, hotkeys and plans. *)
(*                                                                         *)
(* StartsFromLatest is an action property: what a start reads depends on   *)
(* how far the saves before it came.  FileFollows says that while nothing  *)
(* disturbed them there is at most one save under way, of the latest       *)
(* record, and that otherwise the file is that record.                     *)
(*                                                                         *)
(* Of ProcessInv, OwnCallback rests on Tables, what the two tables of ids  *)
(* and the messages in flight say of one another, and what is used and     *)
(* shown in time on Order, the order in which main's locals go.            *)
(***************************************************************************)
EXTENDS Process, TLAPS

\* The settings file against the instances' memories.
FileFollows ==
  ~disturbed =>
    /\ \A p, q \in Instances : Saving(p) /\ Saving(q) => p = q
    /\ \A p \in Instances : Saving(p) => memory[p] = latest
    /\ \A p \in Instances : save[p] = "write" => file = Empty
    /\ (\A p \in Instances : ~Saving(p)) => file = latest \/ (file = NoFile /\ latest = Defaults)

SettingsInv == SettingsTypeOK /\ FileFollows

-----------------------------------------------------------------------------
(* The settings.                                                           *)

LEMMA InDefaults == Defaults \in Records
BY SettingsAssumption DEF Defaults, Records

LEMMA InitSettings == SettingsInit => SettingsInv
<1> SUFFICES ASSUME SettingsInit PROVE SettingsInv
  OBVIOUS
<1>1. SettingsTypeOK
  BY InDefaults DEF SettingsInit, SettingsTypeOK, Whole
<1>2. FileFollows
  BY FilesAssumption DEF SettingsInit, FileFollows, Saving, Whole
<1> QED BY <1>1, <1>2 DEF SettingsInv

\* What a whole file is read as.
LEMMA ParsedWhole ==
  ASSUME file \in Records \cup {NoFile}
  PROVE  Parsed = {IF file = NoFile THEN Defaults ELSE file}
BY FilesAssumption, InDefaults DEF Parsed

LEMMA LoadInv ==
  ASSUME SettingsInv, NEW p \in Instances, Load(p)
  PROVE  SettingsInv'
<1> USE DEF SettingsInv, Load
<1>1. PICK r \in Parsed : memory' = [memory EXCEPT ![p] = r]
  OBVIOUS
<1>2. r \in Records /\ latest' = r
  BY <1>1 DEF Parsed, SettingsTypeOK
<1>3. SettingsTypeOK'
  BY <1>1, <1>2 DEF SettingsTypeOK
<1>4. FileFollows'
  <2> SUFFICES ASSUME ~disturbed' PROVE FileFollows'
    BY DEF FileFollows
  <2>1. Whole /\ \A q \in Instances : ~Saving(q)
    OBVIOUS
  <2>2. file \in Records \cup {NoFile}
    BY <2>1 DEF Whole, SettingsTypeOK
  <2>3. file' = latest' \/ (file' = NoFile /\ latest' = Defaults)
    BY <1>1, <1>2, <2>2, ParsedWhole
  <2> QED BY <2>1, <2>3 DEF FileFollows, Saving
<1> QED BY <1>3, <1>4

LEMMA ModifyInv ==
  ASSUME SettingsInv, NEW p \in Instances, NEW r \in Records, Modify(p, r)
  PROVE  SettingsInv'
<1> USE DEF SettingsInv, Modify, Changed
<1>1. SettingsTypeOK'
  BY DEF SettingsTypeOK
<1>2. FileFollows'
  <2> SUFFICES ASSUME ~disturbed' PROVE FileFollows'
    BY DEF FileFollows
  <2>1. \A q \in Instances : ~Saving(q)
    OBVIOUS
  <2>2. \A q \in Instances : Saving(q)' => q = p
    BY <2>1 DEF Saving, SettingsTypeOK
  <2>3. memory'[p] = latest' /\ save'[p] = "open"
    BY DEF SettingsTypeOK
  <2> QED BY <2>2, <2>3 DEF FileFollows, Saving
<1> QED BY <1>1, <1>2

LEMMA OpenInv ==
  ASSUME SettingsInv, NEW p \in Instances, Open(p)
  PROVE  SettingsInv'
<1> USE DEF SettingsInv, Open
<1>1. SettingsTypeOK'
  BY DEF SettingsTypeOK
<1>2. FileFollows'
  BY DEF SettingsTypeOK, FileFollows, Saving
<1> QED BY <1>1, <1>2

LEMMA WriteInv ==
  ASSUME SettingsInv, NEW p \in Instances, Write(p)
  PROVE  SettingsInv'
<1> USE DEF SettingsInv, Write
<1>1. SettingsTypeOK'
  BY DEF SettingsTypeOK
<1>2. FileFollows'
  BY DEF SettingsTypeOK, FileFollows, Saving
<1> QED BY <1>1, <1>2

LEMMA EndsInv ==
  ASSUME SettingsInv, NEW p \in Instances, Ends(p)
  PROVE  SettingsInv'
<1> USE DEF SettingsInv, Ends
<1>1. SettingsTypeOK'
  BY InDefaults DEF SettingsTypeOK
<1>2. FileFollows'
  BY DEF SettingsTypeOK, FileFollows, Saving
<1> QED BY <1>1, <1>2

\* What the changes write.
LEMMA ChangesModify ==
  ASSUME SettingsInv, NEW p \in Instances,
         \/ Forget(p)
         \/ \E v \in Volumes : SetVolume(p, v)
         \/ \E c \in Connections \cup {NoConnection} : Connected(p, c)
  PROVE  \E r \in Records : Modify(p, r)
<1>1. memory[p] \in Records
  BY DEF SettingsInv, SettingsTypeOK
<1> QED BY <1>1 DEF Forget, SetVolume, Connected, Records

\* Whatever the process and the other instances do, to the settings it is one of these.
LEMMA SettingsStep ==
  ASSUME SettingsInv, Next
  PROVE  \/ UNCHANGED settings
         \/ \E p \in Instances : \/ Load(p) \/ Open(p) \/ Write(p) \/ Ends(p)
                                \/ \E r \in Records : Modify(p, r)
<1> USE ProcessAssumption
<1>1. CASE Start \/ PressAnyButton \/ Captures \/ StreamStops \/ NotifierLooks \/ NotifierReceives
           \/ NotifierUses \/ HotkeysLoop \/ Callback
           \/ \E k \in Keys : PressKey(k) \/ Registers(k)
  BY <1>1 DEF Start, PressAnyButton, Captures, StreamStops, NotifierLooks, NotifierReceives,
              NotifierUses, HotkeysLoop, Callback, PressKey, Registers
<1>2. CASE Killed
  BY <1>2 DEF Killed, Over
<1>3. CASE Proceeds
  <2>1. CASE Initialize \/ Saved \/ RegisterHotkeys \/ QuitHotkeys \/ WaitForHotkeys
             \/ JoinStream \/ JoinNotifier \/ DestroyStatics
    BY <2>1 DEF Initialize, Saved, RegisterHotkeys, QuitHotkeys, WaitForHotkeys,
                JoinStream, JoinNotifier, DestroyStatics
  <2>2. CASE LoadSettings
    BY <2>2 DEF LoadSettings, LoadThrows
  <2>3. CASE Reconnect
    <3>1. memory[self].connection \in Connections \cup {NoConnection}
      BY DEF SettingsInv, SettingsTypeOK, Records
    <3>2. UNCHANGED settings \/ Forget(self)
          \/ Connected(self, memory[self].connection)
      BY <2>3 DEF Reconnect, Connects
    <3> QED BY <3>1, <3>2, ChangesModify
  <2>4. CASE Save
    BY <2>4 DEF Save
  <2>5. CASE ExitEnds
    BY <2>5 DEF ExitEnds, Over
  <2> QED BY <1>3, <2>1, <2>2, <2>3, <2>4, <2>5 DEF Proceeds
<1>4. CASE Commands
  <2>1. CASE StreamCommand \/ CommandThrows \/ ExitCommand
    BY <2>1 DEF StreamCommand, CommandThrows, ExitCommand
  <2>2. ASSUME NEW c \in Connections, ConnectCommand(c)
        PROVE  UNCHANGED settings \/ Forget(self) \/ Connected(self, c)
    BY <2>2 DEF ConnectCommand, Connects
  <2>3. ASSUME NEW v \in Volumes, VolumeCommand(v)
        PROVE  SetVolume(self, v)
    BY <2>3 DEF VolumeCommand
  <2> QED BY <1>4, <2>1, <2>2, <2>3, ChangesModify DEF Commands
<1>5. ASSUME NEW p \in Others, Other(p)
      PROVE  \/ Load(p) \/ Open(p) \/ Write(p) \/ Ends(p)
             \/ \E r \in Records : Modify(p, r)
  <2>1. p \in Instances
    BY DEF Others
  <2> QED
    BY <1>5, <2>1, ChangesModify
    DEF Other, OtherLoads, OtherChanges, OtherSaves, OtherEnds
<1>6. Others \subseteq Instances
  BY DEF Others
<1> QED BY <1>1, <1>2, <1>3, <1>4, <1>5, <1>6 DEF Next

LEMMA NextSettings == SettingsInv /\ [Next]_vars => SettingsInv'
<1> SUFFICES ASSUME SettingsInv, [Next]_vars PROVE SettingsInv'
  OBVIOUS
<1>1. CASE UNCHANGED vars \/ UNCHANGED settings
  BY <1>1 DEF vars, settings, SettingsInv, SettingsTypeOK, FileFollows, Saving
<1>2. CASE Next /\ ~UNCHANGED settings
  BY <1>2, SettingsStep, LoadInv, OpenInv, WriteInv, EndsInv, ModifyInv
<1> QED BY <1>1, <1>2

\* Modify, Open and Write of any number of instances, and their Ends in between: a start
\* reads what was changed last, unless a save was disturbed.
THEOREM StartsFromLatestAlways == Spec => StartsFromLatest
<1>1. SettingsInv /\ [Next]_vars =>
        [\A p \in on' \ on :
           disturbed \/ (\E q \in Instances : Saving(q)) \/ memory'[p] = latest]_settings
  <2> SUFFICES ASSUME SettingsInv, Next, ~UNCHANGED settings, NEW p \in on' \ on, ~disturbed,
                      \A q \in Instances : ~Saving(q)
               PROVE  memory'[p] = latest
    BY DEF vars, settings
  <2>1. p \in Instances /\ Load(p)
    BY SettingsStep DEF Load, Open, Write, Ends, Modify, SettingsInv, SettingsTypeOK
  <2>2. file = latest \/ (file = NoFile /\ latest = Defaults)
    BY DEF SettingsInv, FileFollows
  <2>3. memory'[p] \in Parsed
    BY <2>1 DEF Load, SettingsInv, SettingsTypeOK
  <2> QED BY <2>2, <2>3 DEF Parsed, SettingsInv, SettingsTypeOK
<1>2. Init => SettingsInv
  BY InitSettings DEF Init
<1> QED BY <1>1, <1>2, NextSettings, PTL DEF Spec, StartsFromLatest

-----------------------------------------------------------------------------
(* The hotkeys.                                                            *)

\* The loop's table has every id below the next, the system's agrees with it, and so
\* does every press on its way.
Tables ==
  /\ DOMAIN hotkeys = 0 .. nextId-1
  /\ \A n \in DOMAIN system : system[n] = hotkeys[n]
  /\ \A i \in 1 .. Len(queue) :
       /\ queue[i].kind = "register" => queue[i].key \in Keys
       /\ queue[i].kind = "hotkey" =>
            /\ queue[i].id \in DOMAIN hotkeys /\ queue[i].key = hotkeys[queue[i].id]
  /\ loop # "callback" => runs = NoKey /\ pressed = NoKey
  /\ OwnCallback

HotkeysInv == HotkeysTypeOK /\ Tables

LEMMA InitHotkeys == HotkeysInit => HotkeysInv
<1> SUFFICES ASSUME HotkeysInit PROVE HotkeysInv
  OBVIOUS
<1>1. queue \in Seq(Message) /\ Len(queue) = 0
  BY DEF HotkeysInit
<1>2. DOMAIN hotkeys = {} /\ DOMAIN system = {} /\ 0 .. nextId-1 = {} /\ nextId \in Nat
  BY DEF HotkeysInit
<1>3. HotkeysTypeOK
  BY <1>1, <1>2 DEF HotkeysInit, HotkeysTypeOK
<1>4. Tables
  BY <1>1, <1>2 DEF HotkeysInit, Tables, OwnCallback
<1> QED BY <1>3, <1>4 DEF HotkeysInv

LEMMA ResetHotkeys == HotkeysReset => HotkeysInv'
<1> SUFFICES ASSUME HotkeysReset PROVE HotkeysInv'
  OBVIOUS
<1>1. queue' \in Seq(Message) /\ Len(queue') = 0
  BY DEF HotkeysReset
<1>2. DOMAIN hotkeys' = {} /\ DOMAIN system' = {} /\ 0 .. nextId'-1 = {} /\ nextId' \in Nat
  BY DEF HotkeysReset
<1>3. HotkeysTypeOK'
  BY <1>1, <1>2 DEF HotkeysReset, HotkeysTypeOK
<1>4. Tables'
  BY <1>1, <1>2 DEF HotkeysReset, Tables, OwnCallback
<1> QED BY <1>3, <1>4 DEF HotkeysInv

\* A message is added to the queue.
LEMMA AppendInv ==
  ASSUME queue \in Seq(Message), NEW m \in Message, queue' = Append(queue, m)
  PROVE  /\ queue' \in Seq(Message)
         /\ \A i \in 1 .. Len(queue') : (i \in 1 .. Len(queue) /\ queue'[i] = queue[i]) \/ queue'[i] = m
OBVIOUS

\* The first message is taken.
LEMMA TailInv ==
  ASSUME queue \in Seq(Message), queue # <<>>, queue' = Tail(queue)
  PROVE  /\ queue' \in Seq(Message)
         /\ Head(queue) = queue[1] /\ 1 \in 1 .. Len(queue) /\ queue[1] \in Message
         /\ \A i \in 1 .. Len(queue') : i+1 \in 1 .. Len(queue) /\ queue'[i] = queue[i+1]
OBVIOUS

LEMMA AskingInv ==
  ASSUME HotkeysInv,
         \/ \E k \in Keys : Register(k) \/ Wakes(k)
         \/ PostQuit \/ Waited
  PROVE  HotkeysInv'
<1> USE DEF HotkeysInv
<1>1. ASSUME NEW k \in Keys, Register(k) PROVE HotkeysInv'
  BY <1>1 DEF Register, HotkeysTypeOK, Tables, OwnCallback, handling
<1>2. CASE Waited
  BY <1>2 DEF Waited, HotkeysTypeOK, Tables, OwnCallback, handling, asking
<1>3. ASSUME NEW k \in Keys, Wakes(k) PROVE HotkeysInv'
  <2>1. CASE HasQueue
    <3> DEFINE m == [kind |-> "register", key |-> k, id |-> 0]
    <3>1. m \in Message /\ queue' = Append(queue, m)
      BY <1>3, <2>1 DEF Wakes, Message, Kinds
    <3>2. queue \in Seq(Message)
      BY DEF HotkeysTypeOK
    <3>3. m.kind = "register" /\ m.key = k
      OBVIOUS
    <3> HIDE DEF m
    <3>4. /\ queue' \in Seq(Message)
          /\ \A i \in 1 .. Len(queue') : (i \in 1 .. Len(queue) /\ queue'[i] = queue[i]) \/ queue'[i] = m
      BY <3>1, <3>2, AppendInv
    <3>5. HotkeysTypeOK'
      BY <1>3, <3>4, <2>1 DEF Wakes, HotkeysTypeOK
    <3>6. Tables'
      BY <1>3, <3>3, <3>4 DEF Wakes, Tables, OwnCallback
    <3> QED BY <3>5, <3>6
  <2>2. CASE ~HasQueue
    BY <1>3, <2>2 DEF Wakes, HotkeysTypeOK, Tables, OwnCallback
  <2> QED BY <2>1, <2>2
<1>4. CASE PostQuit
  <2>1. CASE HasQueue
    <3> DEFINE m == [kind |-> "quit", key |-> NoKey, id |-> 0]
    <3>1. m \in Message /\ queue' = Append(queue, m)
      BY <1>4, <2>1 DEF PostQuit, Message, Kinds
    <3>2. queue \in Seq(Message)
      BY DEF HotkeysTypeOK
    <3>3. m.kind = "quit"
      OBVIOUS
    <3> HIDE DEF m
    <3>4. /\ queue' \in Seq(Message)
          /\ \A i \in 1 .. Len(queue') : (i \in 1 .. Len(queue) /\ queue'[i] = queue[i]) \/ queue'[i] = m
      BY <3>1, <3>2, AppendInv
    <3>5. HotkeysTypeOK'
      BY <1>4, <3>4, <2>1 DEF PostQuit, HotkeysTypeOK, asking
    <3>6. Tables'
      BY <1>4, <3>3, <3>4 DEF PostQuit, Tables, OwnCallback
    <3> QED BY <3>5, <3>6
  <2>2. CASE ~HasQueue
    BY <1>4, <2>2 DEF PostQuit, HotkeysTypeOK, Tables, OwnCallback, asking
  <2> QED BY <2>1, <2>2
<1> QED BY <1>1, <1>2, <1>3, <1>4

LEMMA LoopInv ==
  ASSUME HotkeysInv,
         \/ ThreadStarts \/ CreateHotkeyWindow
         \/ TakesRegister \/ TakesPress \/ TakesQuit \/ CallbackEnds
         \/ \E k \in Keys : Press(k)
  PROVE  HotkeysInv'
<1> USE DEF HotkeysInv
<1>1. CASE ThreadStarts \/ CreateHotkeyWindow \/ CallbackEnds
  BY <1>1 DEF ThreadStarts, CreateHotkeyWindow, CallbackEnds, HotkeysTypeOK, Tables,
              OwnCallback, asking
<1>2. queue \in Seq(Message)
  BY DEF HotkeysTypeOK
<1>3. CASE TakesRegister
  <2>1. /\ queue # <<>> /\ queue' = Tail(queue) /\ loop = "get" /\ Head(queue).kind = "register"
    BY <1>3 DEF TakesRegister, GetMessage
  <2>2. /\ queue' \in Seq(Message)
        /\ Head(queue) = queue[1] /\ 1 \in 1 .. Len(queue) /\ queue[1] \in Message
        /\ \A i \in 1 .. Len(queue') : i+1 \in 1 .. Len(queue) /\ queue'[i] = queue[i+1]
    BY <1>2, <2>1, TailInv
  <2> DEFINE k == Head(queue).key
  <2>3. k \in Keys
    BY <2>1, <2>2 DEF Tables
  <2> HIDE DEF k
  <2>4. /\ nextId \in Nat /\ nextId' = nextId + 1
        /\ UNCHANGED <<loop, pressed, runs, asked, sleeping, lost, quit, gone>>
    BY <1>3 DEF TakesRegister, FollowingId, HotkeysTypeOK, asking
  <2>5. /\ hotkeys' = [i \in DOMAIN hotkeys \cup {nextId} |->
                        IF i \in DOMAIN hotkeys THEN hotkeys[i] ELSE k]
        /\ \/ system' = [i \in DOMAIN system \cup {nextId} |-> IF i = nextId THEN k ELSE system[i]]
           \/ UNCHANGED system
    BY <1>3 DEF TakesRegister, k
  <2>6. /\ DOMAIN hotkeys' = 0 .. nextId'-1
        /\ \A i \in DOMAIN hotkeys : hotkeys'[i] = hotkeys[i]
        /\ hotkeys'[nextId] = k
    BY <2>4, <2>5 DEF Tables
  <2>7. /\ DOMAIN system' \subseteq DOMAIN system \cup {nextId}
        /\ \A i \in DOMAIN system' : IF i = nextId THEN system'[i] = k
                                     ELSE i \in DOMAIN system /\ system'[i] = system[i]
    BY <2>4, <2>5 DEF HotkeysTypeOK
  <2>8. HotkeysTypeOK'
    <3>1. \A n \in DOMAIN hotkeys' : hotkeys'[n] \in Keys
      BY <2>3, <2>5 DEF HotkeysTypeOK
    <3>2. DOMAIN system' \subseteq 0 .. nextId'-1 /\ \A n \in DOMAIN system' : system'[n] \in Keys
      BY <2>3, <2>4, <2>7 DEF HotkeysTypeOK
    <3> QED BY <2>2, <2>4, <2>6, <3>1, <3>2 DEF HotkeysTypeOK
  <2>9. Tables'
    <3>1. \A n \in DOMAIN system' : system'[n] = hotkeys'[n]
      BY <2>4, <2>6, <2>7 DEF Tables, HotkeysTypeOK
    <3>2. ASSUME NEW i \in 1 .. Len(queue')
          PROVE  /\ queue'[i].kind = "register" => queue'[i].key \in Keys
                 /\ queue'[i].kind = "hotkey" =>
                      /\ queue'[i].id \in DOMAIN hotkeys' /\ queue'[i].key = hotkeys'[queue'[i].id]
      BY <2>2, <2>4, <2>6 DEF Tables
    <3> QED BY <2>4, <2>6, <3>1, <3>2 DEF Tables, OwnCallback
  <2> QED BY <2>8, <2>9
<1>4. CASE TakesPress \/ TakesQuit
  <2>1. queue # <<>> /\ queue' = Tail(queue) /\ loop = "get"
    BY <1>4 DEF TakesPress, TakesQuit, GetMessage
  <2>2. /\ queue' \in Seq(Message)
        /\ Head(queue) = queue[1] /\ 1 \in 1 .. Len(queue) /\ queue[1] \in Message
        /\ \A i \in 1 .. Len(queue') : i+1 \in 1 .. Len(queue) /\ queue'[i] = queue[i+1]
    BY <1>2, <2>1, TailInv
  <2>3. TakesPress => /\ Head(queue).key = hotkeys[Head(queue).id]
                      /\ Head(queue).key \in Keys
    BY <2>2 DEF TakesPress, GetMessage, Tables, HotkeysTypeOK
  <2>4. HotkeysTypeOK'
    BY <1>4, <2>1, <2>2, <2>3 DEF TakesPress, TakesQuit, HotkeysTypeOK, asking
  <2>5. \A i \in 1 .. Len(queue') :
          /\ queue'[i].kind = "register" => queue'[i].key \in Keys
          /\ queue'[i].kind = "hotkey" =>
               /\ queue'[i].id \in DOMAIN hotkeys /\ queue'[i].key = hotkeys[queue'[i].id]
    BY <2>2 DEF Tables
  <2>6. Tables'
    BY <1>4, <2>1, <2>3, <2>5 DEF TakesPress, TakesQuit, Tables, OwnCallback
  <2> QED BY <2>4, <2>6
<1>5. ASSUME NEW k \in Keys, Press(k) PROVE HotkeysInv'
  <2>1. PICK n \in DOMAIN system :
          /\ system[n] = k
          /\ queue' = Append(queue, [kind |-> "hotkey", key |-> k, id |-> n])
    BY <1>5 DEF Press
  <2>2. n \in Nat /\ n \in DOMAIN hotkeys /\ hotkeys[n] = k
    BY <2>1 DEF HotkeysTypeOK, Tables
  <2> DEFINE m == [kind |-> "hotkey", key |-> k, id |-> n]
  <2>3. m \in Message /\ queue' = Append(queue, m)
    BY <2>1, <2>2 DEF Message, Kinds
  <2>4. m.kind = "hotkey" /\ m.key = k /\ m.id = n
    OBVIOUS
  <2> HIDE DEF m
  <2>5. /\ queue' \in Seq(Message)
        /\ \A i \in 1 .. Len(queue') : (i \in 1 .. Len(queue) /\ queue'[i] = queue[i]) \/ queue'[i] = m
    BY <1>2, <2>3, AppendInv
  <2>6. HotkeysTypeOK'
    BY <1>5, <2>5 DEF Press, HotkeysTypeOK, asking
  <2>7. Tables'
    BY <1>5, <2>2, <2>4, <2>5 DEF Press, Tables, OwnCallback
  <2> QED BY <2>6, <2>7
<1> QED BY <1>1, <1>3, <1>4, <1>5


\* Whatever the process does, to the hotkeys it is one of these.
LEMMA HotkeysStep ==
  ASSUME Next
  PROVE  \/ UNCHANGED hotkeyVars
         \/ HotkeysReset \/ PostQuit \/ Waited
         \/ \E k \in Keys : Register(k) \/ Wakes(k) \/ Press(k)
         \/ ThreadStarts \/ CreateHotkeyWindow
         \/ TakesRegister \/ TakesPress \/ TakesQuit \/ CallbackEnds
<1>1. CASE Start \/ PressAnyButton \/ Killed \/ Captures \/ StreamStops \/ NotifierLooks
           \/ NotifierReceives \/ NotifierUses
  BY <1>1 DEF Start, PressAnyButton, Killed, Over, Captures, StreamStops, NotifierLooks,
              NotifierReceives, NotifierUses
<1>2. CASE HotkeysLoop \/ Callback \/ \E k \in Keys : PressKey(k) \/ Registers(k)
  BY <1>2 DEF HotkeysLoop, Callback, PressKey, Registers
<1>3. CASE Commands
  BY <1>3 DEF Commands, ConnectCommand, VolumeCommand, StreamCommand, CommandThrows, ExitCommand
<1>4. CASE \E p \in Others : Other(p)
  BY <1>4 DEF Other
<1>5. CASE Initialize \/ LoadSettings \/ Reconnect \/ Save \/ Saved
  BY <1>5 DEF Initialize, LoadSettings, Reconnect, Save, Saved
<1>6. CASE QuitHotkeys \/ WaitForHotkeys \/ JoinStream \/ JoinNotifier
           \/ DestroyStatics \/ ExitEnds
  BY <1>6 DEF QuitHotkeys, WaitForHotkeys, JoinStream, JoinNotifier, DestroyStatics,
              ExitEnds, Over
<1>7. CASE RegisterHotkeys
  BY <1>7 DEF RegisterHotkeys
<1> QED BY <1>1, <1>2, <1>3, <1>4, <1>5, <1>6, <1>7 DEF Next, Proceeds

LEMMA NextHotkeys == HotkeysInv /\ [Next]_vars => HotkeysInv'
<1> SUFFICES ASSUME HotkeysInv, [Next]_vars PROVE HotkeysInv'
  OBVIOUS
<1>1. CASE UNCHANGED vars \/ UNCHANGED hotkeyVars
  BY <1>1 DEF vars, hotkeyVars, handling, asking, HotkeysInv, HotkeysTypeOK, Tables, OwnCallback
<1>2. CASE Next /\ ~UNCHANGED hotkeyVars
  BY <1>2, HotkeysStep, AskingInv, LoopInv, ResetHotkeys
<1> QED BY <1>1, <1>2

-----------------------------------------------------------------------------
(* The threads and the order they end in.                                  *)

Bounds == [platform : {"Windows", "Linux"}, starts : Nat, presses : Nat,
           changes : Nat, loads : Nat]

ThreadsTypeOK ==
  /\ at \in {"off", "saving", "idle", "key", "exit"} \cup Starting \cup Unwinding
  /\ devices \in {"none", "live", "destroyed"} /\ connected \in BOOLEAN
  /\ notifier \in {"none", "look", "receive", "use", "over"}
  /\ stream \in {"none", "sends", "captures", "views"}
  /\ stopping \subseteq {"notifier", "stream"}
  /\ undefined \in BOOLEAN
  /\ plan \in Bounds

\* How far the unwinding has come, and what exit may find.
Order ==
  /\ gone => /\ loop = "over"
             /\ at \in {"stream", "notifier", "key", "exit"}
             /\ at \in {"key", "exit"} => stream = "none" /\ notifier = "over"
  /\ at \in {"stream", "notifier", "key"} => (Windows => gone)
  /\ at \in {"notifier", "key"} => stream = "none"
  /\ at = "key" => notifier = "over"
  /\ devices = "destroyed" => at = "exit"
  /\ UndefinedWhere

ProcessIInv == ThreadsTypeOK /\ SettingsInv /\ HotkeysInv /\ Order

\* A count goes down to none.
LEMMA CountsBounds ==
  ASSUME plan \in Bounds, NEW what \in {"starts", "presses", "changes", "loads"}, Counts(what)
  PROVE  plan' \in Bounds /\ plan'.platform = plan.platform
BY DEF Counts, Bounds

\* What a connect does to the threads, however it goes.
LEMMA ConnectsThreads ==
  ASSUME ThreadsTypeOK, NEW c, Connects(c)
  PROVE  /\ at' \in {"saving", "restore", "idle", "hotkeys"} /\ undefined' = undefined
         /\ devices' \in {devices, "none", "live"} /\ connected' \in BOOLEAN
BY DEF Connects, Goes, ThreadsTypeOK

LEMMA MainOrder ==
  ASSUME ProcessIInv, Start \/ Proceeds \/ PressAnyButton \/ Killed
  PROVE  ThreadsTypeOK' /\ Order'
<1> USE DEF ProcessIInv, Main, Goes, Starting, Unwinding, Windows, UndefinedWhere
<1>1. CASE Start
  <2>1. plan' \in Bounds /\ plan'.platform = plan.platform
    BY <1>1, CountsBounds DEF Start, ThreadsTypeOK
  <2> QED BY <1>1, <2>1 DEF Start, ThreadsTypeOK, Order, hotkeyVars, handling, asking
<1>2. CASE Initialize
  BY <1>2 DEF Initialize, ThreadsTypeOK, Order, threads, hotkeyVars, handling, asking
<1>3. CASE LoadSettings
  BY <1>3 DEF LoadSettings, ThreadsTypeOK, Order, threads, hotkeyVars, handling, asking
<1>4. CASE Reconnect
  <2>1. /\ at' \in {"saving", "restore", "idle", "hotkeys"} /\ undefined' = undefined
        /\ devices' \in {devices, "none", "live"} /\ connected' \in BOOLEAN
    BY <1>4, ConnectsThreads DEF Reconnect
  <2> QED BY <1>4, <2>1 DEF Reconnect, ThreadsTypeOK, Order, hotkeyVars, handling, asking
<1>5. CASE Save \/ Saved
  <2>1. ThreadsTypeOK'
    BY <1>5 DEF Save, Saved, ThreadsTypeOK, main, threads, hotkeyVars, handling, asking
  <2>2. Order'
    BY <1>5 DEF Save, Saved, ThreadsTypeOK, Order, main, threads, hotkeyVars, handling,
        asking
  <2> QED BY <2>1, <2>2
<1>6. CASE RegisterHotkeys
  BY <1>6 DEF RegisterHotkeys, Register, ThreadsTypeOK, Order, main, threads,
              hotkeyVars, handling, asking
<1>7. CASE QuitHotkeys
  BY <1>7 DEF QuitHotkeys, PostQuit, ThreadsTypeOK, Order, threads, hotkeyVars, handling, asking
<1>8. CASE WaitForHotkeys
  BY <1>8 DEF WaitForHotkeys, Waited, LoopOver, ThreadsTypeOK, Order, hotkeyVars, handling, asking
<1>9. CASE JoinStream \/ JoinNotifier \/ PressAnyButton \/ DestroyStatics
  <2>1. ThreadsTypeOK'
    BY <1>9 DEF JoinStream, StopRequested, JoinNotifier, PressAnyButton, DestroyStatics,
        ThreadsTypeOK, threads, main, hotkeyVars, handling, asking
  <2>2. Order'
    BY <1>9 DEF JoinStream, StopRequested, JoinNotifier, PressAnyButton, DestroyStatics,
        ThreadsTypeOK, Order, threads, main, hotkeyVars, handling, asking
  <2> QED BY <2>1, <2>2
<1>10. CASE ExitEnds \/ Killed
  BY <1>10 DEF ExitEnds, Killed, Over, HotkeysReset, Lives, ThreadsTypeOK, Order
<1> QED BY <1>1, <1>2, <1>3, <1>4, <1>5, <1>6, <1>7, <1>8, <1>9, <1>10 DEF Proceeds

LEMMA CommandsOrder ==
  ASSUME ProcessIInv, Commands
  PROVE  ThreadsTypeOK' /\ Order'
<1> USE DEF ProcessIInv, Main, Goes, Starting, Unwinding, Windows, UndefinedWhere
<1>1. ASSUME NEW c \in Connections, ConnectCommand(c) PROVE ThreadsTypeOK' /\ Order'
  <2>1. plan' \in Bounds /\ plan'.platform = plan.platform
    BY <1>1, CountsBounds DEF ConnectCommand, ThreadsTypeOK
  <2>2. /\ at' \in {"saving", "restore", "idle", "hotkeys"} /\ undefined' = undefined
        /\ devices' \in {devices, "none", "live"} /\ connected' \in BOOLEAN
    BY <1>1, ConnectsThreads DEF ConnectCommand
  <2> QED BY <1>1, <2>1, <2>2 DEF ConnectCommand, ThreadsTypeOK, Order, hotkeyVars, handling, asking
<1>2. ASSUME NEW v \in Volumes, VolumeCommand(v) PROVE ThreadsTypeOK' /\ Order'
  <2>1. plan' \in Bounds /\ plan'.platform = plan.platform
    BY <1>2, CountsBounds DEF VolumeCommand, ThreadsTypeOK
  <2> QED BY <1>2, <2>1 DEF VolumeCommand, ThreadsTypeOK, Order, threads,
                             hotkeyVars, handling, asking
<1>3. CASE StreamCommand \/ CommandThrows \/ ExitCommand
  <2>1. ThreadsTypeOK'
    BY <1>3 DEF StreamCommand, CommandThrows, ExitCommand, ThreadsTypeOK, main, threads,
        hotkeyVars, handling, asking
  <2>2. Order'
    BY <1>3 DEF StreamCommand, CommandThrows, ExitCommand, ThreadsTypeOK, Order, main,
        threads, hotkeyVars, handling, asking
  <2> QED BY <2>1, <2>2
<1> QED BY <1>1, <1>2, <1>3 DEF Commands

LEMMA ThreadsOrder ==
  ASSUME ProcessIInv,
         \/ Captures \/ StreamStops \/ NotifierLooks \/ NotifierReceives \/ NotifierUses
         \/ HotkeysLoop \/ Callback
         \/ \E k \in Keys : PressKey(k) \/ Registers(k)
         \/ \E p \in Others : Other(p)
  PROVE  ThreadsTypeOK' /\ Order'
<1> USE DEF ProcessIInv, Lives, Starting, Unwinding, Windows, UndefinedWhere
<1>1. CASE Captures \/ StreamStops \/ NotifierLooks \/ NotifierReceives
  <2>1. ThreadsTypeOK'
    BY <1>1 DEF Captures, StreamStops, NotifierLooks, NotifierReceives, ThreadsTypeOK, main,
        hotkeyVars, handling, asking
  <2>2. Order'
    BY <1>1 DEF Captures, StreamStops, NotifierLooks, NotifierReceives, ThreadsTypeOK, Order, main,
        hotkeyVars, handling, asking
  <2> QED BY <2>1, <2>2
<1>2. CASE NotifierUses
  BY <1>2 DEF NotifierUses, Uses, ThreadsTypeOK, Order, hotkeyVars, handling, asking
<1>3. CASE HotkeysLoop
  <2>1. loop # "over" /\ UNCHANGED <<sleeping, gone, quit>>
    BY <1>3 DEF HotkeysLoop, ThreadStarts, CreateHotkeyWindow, TakesRegister, TakesPress,
                TakesQuit, GetMessage, asking
  <2> QED BY <1>3, <2>1 DEF HotkeysLoop, ThreadsTypeOK, Order, main, threads
<1>4. CASE Callback
  BY <1>4 DEF Callback, CallbackEnds, Uses, ThreadsTypeOK, Order, threads, asking
<1>5. ASSUME NEW k \in Keys, PressKey(k) PROVE ThreadsTypeOK' /\ Order'
  <2>1. plan' \in Bounds /\ plan'.platform = plan.platform
    BY <1>5, CountsBounds DEF PressKey, ThreadsTypeOK
  <2> QED BY <1>5, <2>1 DEF PressKey, Press, ThreadsTypeOK, Order, main, threads, asking
<1>6. ASSUME NEW k \in Keys, Registers(k) PROVE ThreadsTypeOK' /\ Order'
  <2>1. ThreadsTypeOK'
    BY <1>6 DEF Registers, Wakes, ThreadsTypeOK, main, threads, hotkeyVars, handling, asking
  <2>2. Order'
    BY <1>6 DEF Registers, Wakes, ThreadsTypeOK, Order, main, threads, hotkeyVars, handling,
        asking
  <2> QED BY <2>1, <2>2
<1>7. ASSUME NEW p \in Others, Other(p) PROVE ThreadsTypeOK' /\ Order'
  <2>1. plan' \in Bounds /\ plan'.platform = plan.platform
    BY <1>7, CountsBounds DEF Other, OtherLoads, OtherChanges, OtherSaves, OtherEnds, ThreadsTypeOK
  <2> QED BY <1>7, <2>1 DEF Other, ThreadsTypeOK, Order, main, threads, hotkeyVars,
                             handling, asking
<1> QED BY <1>1, <1>2, <1>3, <1>4, <1>5, <1>6, <1>7

\* The process's threads, the hotkeys' two tables and the settings file, throughout the
\* lives of the process and beside any other instances: a callback is the one its keys
\* were registered with, main's locals outlive what uses them, and what is used before
\* or after its life is used in one of the three ways named.
THEOREM ProcessAlways == Spec => []ProcessInv
<1>1. Init => ProcessIInv
  <2> SUFFICES ASSUME Init PROVE ProcessIInv
    OBVIOUS
  <2>1. SettingsInv /\ HotkeysInv
    BY InitSettings, InitHotkeys DEF Init
  <2>2. ThreadsTypeOK
    BY ProcessAssumption DEF Init, ThreadsTypeOK, Bounds
  <2>3. Order
    BY DEF Init, HotkeysInit, Order, UndefinedWhere
  <2> QED BY <2>1, <2>2, <2>3 DEF ProcessIInv
<1>2. ProcessIInv /\ [Next]_vars => ProcessIInv'
  <2> SUFFICES ASSUME ProcessIInv, [Next]_vars PROVE ProcessIInv'
    OBVIOUS
  <2>1. SettingsInv' /\ HotkeysInv'
    BY NextSettings, NextHotkeys DEF ProcessIInv
  <2>2. CASE UNCHANGED vars
    BY <2>1, <2>2 DEF vars, main, threads, hotkeyVars, handling, asking, ProcessIInv,
                      ThreadsTypeOK, Order, UndefinedWhere, Windows
  <2>3. CASE Next
    BY <2>1, <2>3, MainOrder, CommandsOrder, ThreadsOrder DEF Next, ProcessIInv
  <2> QED BY <2>2, <2>3
<1>3. ProcessIInv => ProcessInv
  BY DEF ProcessIInv, ProcessInv, TypeOK, ThreadsTypeOK, Bounds, SettingsInv, HotkeysInv,
         Tables, Order, EndsInOrder
<1> QED BY <1>1, <1>2, <1>3, PTL DEF Spec

===============================================================================
