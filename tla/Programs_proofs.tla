---------------------------- MODULE Programs_proofs ----------------------------
(***************************************************************************)
(* Theorems about Client and Updater, the two programs a user runs, for    *)
(* any rooms, retries, files, versions, failures and bounds.               *)
(*                                                                         *)
(* Client.  None of its properties is inductive.  The invariant is in      *)
(* seven parts, each of which needs those before it:                       *)
(*   TypesInv     types, and what a connect has by the step it is at;      *)
(*   ExchangeInv  while nothing was disturbed, all that is on the control  *)
(*                stream is the one reader's;                              *)
(*   SessionsInv  a session on its way to a connect, or with it, is held   *)
(*                by the server and nobody asks for its end: so an answer  *)
(*                to its hello says that the server has heard it;          *)
(*   BuiltInv     the objects a connect has made by the step it is at;     *)
(*   RoomsInv     one room from the request to the settings;               *)
(*   ClosingInv   while the close handler waits, its request is on its way *)
(*                or the session is gone;                                  *)
(*   FirstInv     before a second connect each object was made once, and   *)
(*                what a thread holds is it.                               *)
(*                                                                         *)
(* Updater.  That nothing is left, and that a mixture goes unnoticed only  *)
(* after an interruption, are no invariants by themselves.  Disk says at   *)
(* each step what lies in the temporary directory and how much of it the   *)
(* handler knows; Copied, that what is not still to be copied is there.    *)
(***************************************************************************)
EXTENDS Client, Updater, TLAPS


Steps == {"idle", "open", "post", "read", "socket", "notify", "hello", "wait",
          "microphone", "speaker", "save", "failed", "asked"}
ConsoleRec == [at : Steps, room : Rooms \cup {NoRoom}, attempts : 0..Retries, tries : 0..Retries,
               id : {0} \cup Sessions]

Trying == console.at \notin {"idle", "asked", "failed"}
HasId == console.at \in {"socket", "notify", "hello", "wait", "microphone", "speaker", "save"}
HasSocket == HasId /\ console.at # "socket"

\* What a connect has by the step it is at.
Stage ==
  /\ Trying => console.attempts >= 1
  /\ HasId => console.id \in Sessions
  /\ HasSocket => socket \in Attempts

IdsAnswered ==
  \A i \in DOMAIN answers : answers[i].kind = "post" => answers[i].session \in Sessions

TypesInv == TypeOK /\ Stage /\ IdsAnswered

LEMMA Numbers ==
  /\ MaxConnects * Retries \in Nat /\ Retries \in Nat /\ Retries >= 1
  /\ Attempts = 1 .. MaxConnects * Retries /\ Sessions = Attempts /\ Attempts \subseteq Nat \ {0}
BY ConstantsAssumption DEF ConstantsAssumption, Attempts, Sessions

LEMMA Zeros ==
  /\ 0 \in 0..MaxTimeouts /\ 0 \in 0..MaxNotices
  /\ 0 \in 0..MaxConnects /\ 0 \in 0..MaxPresses /\ 0 \in 0..MaxAsks
BY ConstantsAssumption DEF ConstantsAssumption

\* The console's record with one field changed.
LEMMA ConsoleAt ==
  ASSUME NEW w \in ConsoleRec, NEW v \in Steps
  PROVE  /\ [w EXCEPT !.at = v] \in ConsoleRec /\ [w EXCEPT !.at = v].at = v
         /\ [w EXCEPT !.at = v].room = w.room /\ [w EXCEPT !.at = v].id = w.id
         /\ [w EXCEPT !.at = v].attempts = w.attempts
BY DEF ConsoleRec

LEMMA ConsoleTries ==
  ASSUME NEW w \in ConsoleRec, NEW n \in 0..Retries
  PROVE  /\ [w EXCEPT !.tries = n] \in ConsoleRec /\ [w EXCEPT !.tries = n].at = w.at
         /\ [w EXCEPT !.tries = n].room = w.room /\ [w EXCEPT !.tries = n].id = w.id
         /\ [w EXCEPT !.tries = n].attempts = w.attempts
BY DEF ConsoleRec

LEMMA ConsoleAttempts ==
  ASSUME NEW w \in ConsoleRec, NEW n \in 0..Retries
  PROVE  /\ [w EXCEPT !.attempts = n] \in ConsoleRec /\ [w EXCEPT !.attempts = n].at = w.at
         /\ [w EXCEPT !.attempts = n].room = w.room /\ [w EXCEPT !.attempts = n].id = w.id
         /\ [w EXCEPT !.attempts = n].attempts = n
BY DEF ConsoleRec

\* Goes.
LEMMA GoesTo ==
  ASSUME console \in ConsoleRec, NEW v \in Steps, Goes(v)
  PROVE  /\ console' \in ConsoleRec /\ console'.at = v
         /\ console'.room = console.room /\ console'.id = console.id
         /\ console'.attempts = console.attempts
BY ConsoleAt DEF Goes

\* An attempt that fails is followed by another one, or was the last.
LEMMA AttemptFailsTo ==
  ASSUME console \in ConsoleRec, console.attempts >= 1, AttemptFails
  PROVE  /\ console' \in ConsoleRec /\ console'.at \in {"open", "failed"}
         /\ console'.room = console.room /\ console'.id = console.id
         /\ console'.at = "open" => console'.attempts >= 1
<1> DEFINE w == [console EXCEPT !.attempts = console.attempts - 1]
<1> DEFINE v == IF MoreAttempts THEN "open" ELSE "failed"
<1>1. console.attempts \in 0..Retries /\ console.attempts - 1 \in 0..Retries
  BY Numbers DEF ConsoleRec
<1>2. /\ w \in ConsoleRec /\ w.room = console.room /\ w.id = console.id
      /\ w.attempts = console.attempts - 1
  BY <1>1, ConsoleAttempts
<1>3. console' = [w EXCEPT !.at = v]
  BY DEF AttemptFails
<1>4. v \in Steps /\ v \in {"open", "failed"} /\ (v = "open" => console.attempts > 1)
  BY DEF Steps, MoreAttempts
<1> HIDE DEF w, v
<1> QED BY <1>1, <1>2, <1>3, <1>4, ConsoleAt

-----------------------------------------------------------------------------
(* The messages.                                                           *)

LEMMA RequestTypes ==
  ASSUME requests \in Seq(Message), answers \in Seq(Message), timeouts \in 0..MaxTimeouts,
         NEW t \in {"console", "keys", "closer"}, NEW k \in Kinds,
         NEW r \in Rooms \cup {NoRoom}, NEW s \in {0} \cup Sessions, Request(t, k, r, s)
  PROVE  /\ requests' \in Seq(Message) /\ Len(requests') = Len(requests) + 1
         /\ UNCHANGED <<control, answers, timeouts>> /\ control = "open" /\ overlapped' \in BOOLEAN
         /\ overlapped' = (overlapped \/ Readers # {})
         /\ \A i \in DOMAIN requests' :
              \/ i \in DOMAIN requests /\ requests'[i] = requests[i]
              \/ /\ requests'[i] \in Message
                 /\ requests'[i].by = t /\ requests'[i].kind = k
                 /\ requests'[i].room = r /\ requests'[i].session = s
<1> DEFINE m == [by |-> t, kind |-> k, room |-> r, session |-> s]
<1>1. m \in Message /\ m.by = t /\ m.kind = k /\ m.room = r /\ m.session = s
  BY DEF Message
<1>2. /\ requests' = Append(requests, m) /\ UNCHANGED <<control, answers, timeouts>>
      /\ control = "open" /\ overlapped' = (overlapped \/ Readers # {})
  BY DEF Request
<1> HIDE DEF m
<1>3. /\ requests' \in Seq(Message) /\ Len(requests') = Len(requests) + 1
      /\ \A i \in DOMAIN requests' :
           (i \in DOMAIN requests /\ requests'[i] = requests[i]) \/ requests'[i] = m
  BY <1>1, <1>2
<1> QED BY <1>1, <1>2, <1>3

LEMMA AnsweredTypes ==
  ASSUME requests \in Seq(Message), answers \in Seq(Message), Answered
  PROVE  /\ answers' \in Seq(Message) /\ Len(answers') = Len(answers) - 1
         /\ UNCHANGED <<control, requests, overlapped, timeouts>>
         /\ 1 \in DOMAIN answers /\ Head(answers) = answers[1] /\ answers[1] \in Message
         /\ \A i \in DOMAIN answers' : i + 1 \in DOMAIN answers /\ answers'[i] = answers[i+1]
BY DEF Answered

LEMMA TimesOutTypes ==
  ASSUME requests \in Seq(Message), answers \in Seq(Message), timeouts \in 0..MaxTimeouts,
         TimesOut, control \in {"none", "open", "broken"}
  PROVE  /\ UNCHANGED <<requests, answers, overlapped>>
         /\ timeouts' \in 0..MaxTimeouts /\ control' \in {"none", "open", "broken"}
         /\ timeouts' > 0 \/ (control = "broken" /\ UNCHANGED exchange)
         /\ control' = "broken" => timeouts' > 0 \/ UNCHANGED exchange
BY ConstantsAssumption DEF TimesOut, exchange, ConstantsAssumption

\* What Serve adds to the answers.
LEMMA ServeTypes ==
  ASSUME TypeOK, Serve
  PROVE  /\ requests' \in Seq(Message) /\ answers' \in Seq(Message)
         /\ Len(requests') = Len(requests) - 1 /\ Len(answers') = Len(answers) + 1
         /\ requests[1] \in Message /\ 1 \in DOMAIN requests
         /\ \A i \in DOMAIN requests' : i + 1 \in DOMAIN requests /\ requests'[i] = requests[i+1]
         /\ \E m \in Message :
              /\ m.by = requests[1].by /\ m.room = requests[1].room
              /\ \A i \in DOMAIN answers' :
                   (i \in DOMAIN answers /\ answers'[i] = answers[i]) \/ (i = Len(answers) + 1 /\ answers'[i] = m)
              /\ \/ /\ requests[1].kind = "post" /\ m.kind = "post"
                    /\ m.session \in Sessions /\ roomOf[m.session] = NoRoom
                    /\ roomOf' = [roomOf EXCEPT ![m.session] = m.room]
                    /\ held' = held \cup {m.session}
                 \/ /\ requests[1].kind = "post" /\ m.kind = "refused"
                    /\ UNCHANGED <<roomOf, held>>
                 \/ /\ requests[1].kind # "post" /\ m = requests[1] /\ UNCHANGED roomOf
                    /\ held' = {n \in held : ~(m.kind = "delete" /\ n = m.session /\ roomOf[n] = m.room)}
<1> DEFINE q == Head(requests)
<1>1. /\ requests # <<>> /\ requests' = Tail(requests)
      /\ requests \in Seq(Message) /\ answers \in Seq(Message)
  BY DEF Serve, TypeOK
<1>2. /\ q = requests[1] /\ q \in Message /\ 1 \in DOMAIN requests
      /\ requests' \in Seq(Message) /\ Len(requests') = Len(requests) - 1
      /\ \A i \in DOMAIN requests' : i + 1 \in DOMAIN requests /\ requests'[i] = requests[i+1]
  BY <1>1
<1>3. ASSUME NEW m \in Message, answers' = Append(answers, m)
      PROVE  /\ answers' \in Seq(Message) /\ Len(answers') = Len(answers) + 1
             /\ \A i \in DOMAIN answers' :
                  (i \in DOMAIN answers /\ answers'[i] = answers[i]) \/ (i = Len(answers) + 1 /\ answers'[i] = m)
  BY <1>1, <1>3
<1> HIDE DEF q
<1>4. CASE /\ q.kind = "post"
           /\ \E s \in Sessions :
                /\ roomOf[s] = NoRoom
                /\ roomOf' = [roomOf EXCEPT ![s] = q.room] /\ held' = held \cup {s}
                /\ answers' = Append(answers, [q EXCEPT !.session = s])
  <2>1. PICK s \in Sessions :
          /\ roomOf[s] = NoRoom
          /\ roomOf' = [roomOf EXCEPT ![s] = q.room] /\ held' = held \cup {s}
          /\ answers' = Append(answers, [q EXCEPT !.session = s])
    BY <1>4
  <2> DEFINE m == [q EXCEPT !.session = s]
  <2>2. /\ m \in Message /\ m.by = q.by /\ m.room = q.room /\ m.kind = q.kind /\ m.session = s
    BY <1>2 DEF Message
  <2>3. answers' = Append(answers, m)
    BY <2>1
  <2> HIDE DEF m
  <2> QED BY <1>2, <1>3, <1>4, <2>1, <2>2, <2>3
<1>5. CASE /\ q.kind = "post" /\ answers' = Append(answers, [q EXCEPT !.kind = "refused"])
           /\ UNCHANGED <<roomOf, held>>
  <2> DEFINE m == [q EXCEPT !.kind = "refused"]
  <2>1. m \in Message /\ m.by = q.by /\ m.room = q.room /\ m.kind = "refused"
    BY <1>2 DEF Message, Kinds
  <2>2. answers' = Append(answers, m)
    BY <1>5
  <2> HIDE DEF m
  <2> QED BY <1>2, <1>3, <1>5, <2>1, <2>2
<1>6. CASE /\ q.kind # "post"
           /\ held' = held \ {n \in held : q.kind = "delete" /\ n = q.session /\ roomOf[n] = q.room}
           /\ answers' = Append(answers, q) /\ UNCHANGED roomOf
  <2>1. held' = {n \in held : ~(q.kind = "delete" /\ n = q.session /\ roomOf[n] = q.room)}
    BY <1>6
  <2>2. /\ answers' \in Seq(Message) /\ Len(answers') = Len(answers) + 1
        /\ \A i \in DOMAIN answers' :
             (i \in DOMAIN answers /\ answers'[i] = answers[i]) \/ (i = Len(answers) + 1 /\ answers'[i] = q)
    BY <1>2, <1>3, <1>6
  <2> QED BY <1>2, <1>6, <2>1, <2>2
<1> QED BY <1>4, <1>5, <1>6 DEF Serve, q

-----------------------------------------------------------------------------
(* Types.                                                                  *)

\* TypeOK, by groups of variables.
MainType == status \in {"running", "ended", "closed", "undefined"} /\ registered \in BOOLEAN
NotifierType ==
  notifier \in [at : {"look", "receive", "take", "use"}, held : {0} \cup Attempts]
KeysType == keys \in [at : {"idle", "use", "send", "read"}, held : {0} \cup Attempts]
CloserType ==
  closer \in [at : {"none", "send", "read"}, room : Rooms \cup {NoRoom},
              session : {0} \cup Sessions, calm : BOOLEAN]
ExchangeType ==
  /\ control \in {"none", "open", "broken"} /\ requests \in Seq(Message) /\ answers \in Seq(Message)
  /\ overlapped \in BOOLEAN /\ timeouts \in 0..MaxTimeouts
ObjectsType ==
  /\ socket \in {0} \cup Attempts /\ notification \in {0} \cup Attempts
  /\ microphone \in {0} \cup Attempts /\ speaker \in {0} \cup Attempts
  /\ made \in {0} \cup Attempts
SessionType == id \in {0} \cup Sessions /\ room \in Rooms \cup {NoRoom} /\ connected \in BOOLEAN
ServerType ==
  /\ roomOf \in [Sessions -> Rooms \cup {NoRoom}] /\ held \subseteq Sessions
  /\ heard \subseteq Attempts \X Sessions
DatagramsType == network \subseteq Attempts \X Sessions /\ inbox \subseteq Attempts \X Sessions
NotifyingType == listening \in BOOLEAN /\ notices \in 0..MaxNotices
CountersType ==
  connects \in 0..MaxConnects /\ presses \in 0..MaxPresses /\ asks \in 0..MaxAsks

Types ==
  /\ MainType /\ console \in ConsoleRec /\ NotifierType /\ KeysType /\ CloserType
  /\ ExchangeType /\ ObjectsType /\ SessionType /\ ServerType /\ DatagramsType
  /\ NotifyingType /\ CountersType

LEMMA TypesAre == TypeOK <=> Types
BY DEF TypeOK, Types, MainType, ConsoleRec, Steps, NotifierType, KeysType, CloserType,
       ExchangeType, ObjectsType, SessionType, ServerType, DatagramsType, NotifyingType,
       CountersType

LEMMA TypesAreNext == TypeOK' <=> Types'
BY DEF TypeOK, Types, MainType, ConsoleRec, Steps, NotifierType, KeysType, CloserType,
       ExchangeType, ObjectsType, SessionType, ServerType, DatagramsType, NotifyingType,
       CountersType

\* What a step does not touch keeps its type.
LEMMA Untouched ==
  /\ MainType /\ UNCHANGED main => MainType'
  /\ NotifierType /\ UNCHANGED notifier => NotifierType'
  /\ KeysType /\ UNCHANGED keys => KeysType'
  /\ CloserType /\ UNCHANGED closer => CloserType'
  /\ ExchangeType /\ UNCHANGED exchange => ExchangeType'
  /\ ObjectsType /\ UNCHANGED objects => ObjectsType'
  /\ SessionType /\ UNCHANGED session => SessionType'
  /\ ServerType /\ UNCHANGED server => ServerType'
  /\ DatagramsType /\ UNCHANGED datagrams => DatagramsType'
  /\ NotifyingType /\ UNCHANGED notifying => NotifyingType'
  /\ CountersType /\ UNCHANGED counters => CountersType'
BY DEF MainType, NotifierType, KeysType, CloserType, ExchangeType, ObjectsType, SessionType,
       ServerType, DatagramsType, NotifyingType, CountersType, main, exchange, objects,
       session, server, datagrams, notifying, counters

LEMMA InitTypes == Init => TypesInv
<1> SUFFICES ASSUME Init PROVE TypesInv
  OBVIOUS
<1>1. console \in ConsoleRec /\ console.at = "idle"
  BY Numbers DEF Init, ConsoleRec, Steps
<1>2. MainType /\ NotifierType /\ KeysType /\ CloserType
  BY DEF Init, MainType, NotifierType, KeysType, CloserType
<1>3. ExchangeType
  <2>1. requests \in Seq(Message) /\ answers \in Seq(Message)
    BY DEF Init
  <2> QED BY <2>1, Zeros DEF Init, ExchangeType
<1>4. ObjectsType /\ SessionType /\ ServerType /\ DatagramsType
  BY DEF Init, ObjectsType, SessionType, ServerType, DatagramsType
<1>5. NotifyingType /\ CountersType
  BY Zeros DEF Init, NotifyingType, CountersType
<1>6. TypeOK
  BY <1>1, <1>2, <1>3, <1>4, <1>5, TypesAre DEF Types
<1> QED BY <1>1, <1>6 DEF Init, TypesInv, Stage, IdsAnswered, Trying, HasId, HasSocket

\* What an answer that was taken leaves.
LEMMA AnsweredIds ==
  ASSUME ExchangeType, IdsAnswered, Answered
  PROVE  /\ ExchangeType' /\ IdsAnswered' /\ Head(answers) \in Message
         /\ Head(answers).kind = "post" => Head(answers).session \in Sessions
BY AnsweredTypes DEF ExchangeType, IdsAnswered

LEMMA TimesOutIds ==
  ASSUME ExchangeType, IdsAnswered, TimesOut
  PROVE  ExchangeType' /\ IdsAnswered'
BY TimesOutTypes DEF ExchangeType, IdsAnswered

LEMMA RequestIds ==
  ASSUME ExchangeType, IdsAnswered, NEW t \in {"console", "keys", "closer"}, NEW k \in Kinds,
         NEW r \in Rooms \cup {NoRoom}, NEW s \in {0} \cup Sessions, Request(t, k, r, s)
  PROVE  ExchangeType' /\ IdsAnswered'
<1>1. /\ requests' \in Seq(Message) /\ UNCHANGED <<control, answers, timeouts>>
      /\ overlapped' \in BOOLEAN
  BY RequestTypes DEF ExchangeType
<1> QED BY <1>1 DEF ExchangeType, IdsAnswered

LEMMA SameIds == IdsAnswered /\ UNCHANGED exchange => IdsAnswered'
BY DEF IdsAnswered, exchange

LEMMA TypesConnecting ==
  ASSUME TypesInv, Connecting
  PROVE  TypesInv'
<1>1. Types
  BY TypesAre DEF TypesInv
<1>2. console \in ConsoleRec /\ Stage /\ IdsAnswered
  BY <1>1 DEF Types, TypesInv
<1> SUFFICES Types' /\ Stage' /\ IdsAnswered'
  BY TypesAreNext DEF TypesInv
<1> USE DEF Types
<1>3. CASE OpenControl
  <2>1. console' \in ConsoleRec /\ Stage'
    BY <1>2, <1>3, GoesTo, AttemptFailsTo
    DEF OpenControl, At, Steps, Stage, Trying, HasId, HasSocket
  <2>2. ExchangeType' /\ IdsAnswered'
    BY <1>1, <1>2, <1>3 DEF OpenControl, ExchangeType, IdsAnswered
  <2> QED BY <1>1, <1>3, <2>1, <2>2, Untouched DEF OpenControl
<1>4. CASE PostVoice
  <2>1. console' \in ConsoleRec /\ Stage'
    BY <1>2, <1>4, GoesTo, AttemptFailsTo
    DEF PostVoice, At, Steps, Stage, Trying, HasId, HasSocket
  <2>2. console.room \in Rooms \cup {NoRoom}
    BY <1>2 DEF ConsoleRec
  <2>3. ExchangeType' /\ IdsAnswered'
    <3>1. CASE Request("console", "post", console.room, 0)
      BY <1>1, <1>2, <2>2, <3>1, RequestIds DEF Kinds
    <3>2. CASE UNCHANGED exchange
      BY <1>1, <1>2, <3>2, Untouched, SameIds
    <3> QED BY <1>4, <3>1, <3>2 DEF PostVoice
  <2> QED BY <1>1, <1>4, <2>1, <2>3, Untouched DEF PostVoice
<1>5. CASE ReadId
  <2>1. ExchangeType' /\ IdsAnswered'
    BY <1>1, <1>2, <1>5, AnsweredIds, TimesOutIds DEF ReadId
  <2>2. console' \in ConsoleRec /\ Stage'
    <3>1. CASE AttemptFails
      BY <1>2, <1>5, <3>1, AttemptFailsTo DEF ReadId, At, Stage, Trying, HasId, HasSocket
    <3>2. CASE /\ Answered /\ Head(answers).kind = "post"
               /\ console' = [console EXCEPT !.id = Head(answers).session, !.at = "socket"]
      <4> DEFINE w == [console EXCEPT !.id = Head(answers).session]
      <4>1. Head(answers).session \in Sessions
        BY <1>1, <1>2, <3>2, AnsweredIds
      <4>2. /\ w \in ConsoleRec /\ w.attempts = console.attempts
            /\ w.id = Head(answers).session
        BY <1>2, <4>1 DEF ConsoleRec
      <4>3. console' = [w EXCEPT !.at = "socket"]
        BY <3>2
      <4> HIDE DEF w
      <4>4. "socket" \in Steps
        BY DEF Steps
      <4>5. /\ console' \in ConsoleRec /\ console'.at = "socket" /\ console'.id \in Sessions
            /\ console'.attempts = console.attempts
        BY <4>1, <4>2, <4>3, <4>4, ConsoleAt
      <4> QED BY <1>2, <1>5, <4>5 DEF ReadId, At, Stage, Trying, HasId, HasSocket
    <3> QED BY <1>5, <3>1, <3>2 DEF ReadId
  <2> QED BY <1>1, <1>5, <2>1, <2>2, Untouched DEF ReadId
<1>6. CASE MakeSocket
  <2>1. made \in Nat /\ made + 1 \in Attempts
    BY <1>1, <1>6, Numbers DEF MakeSocket, ObjectsType
  <2>2. console' \in ConsoleRec /\ Stage'
    <3>1. CASE socket' = made + 1 /\ Goes("notify")
      BY <1>2, <1>6, <2>1, <3>1, GoesTo
      DEF MakeSocket, At, Steps, Stage, Trying, HasId, HasSocket
    <3>2. CASE AttemptFails
      BY <1>2, <1>6, <3>2, AttemptFailsTo DEF MakeSocket, At, Stage, Trying, HasId, HasSocket
    <3> QED BY <1>6, <3>1, <3>2 DEF MakeSocket
  <2>3. ObjectsType'
    BY <1>1, <1>6, <2>1 DEF MakeSocket, ObjectsType
  <2> QED BY <1>1, <1>2, <1>6, <2>2, <2>3, Untouched, SameIds DEF MakeSocket
<1>7. CASE MakeNotification
  <2>1. console' \in ConsoleRec /\ Stage'
    BY <1>2, <1>7, GoesTo, AttemptFailsTo
    DEF MakeNotification, At, Steps, Stage, Trying, HasId, HasSocket
  <2>2. ObjectsType'
    BY <1>1, <1>7 DEF MakeNotification, ObjectsType
  <2>3. NotifyingType'
    BY <1>1, <1>7, Zeros DEF MakeNotification, NotifyingType
  <2> QED BY <1>1, <1>2, <1>7, <2>1, <2>2, <2>3, Untouched, SameIds DEF MakeNotification
<1>8. CASE SendHello
  <2>1. console' \in ConsoleRec /\ Stage' /\ <<socket, console.id>> \in Attempts \X Sessions
    <3> DEFINE w == [console EXCEPT !.at = "wait"]
    <3>1. w \in ConsoleRec /\ w.at = "wait" /\ w.attempts = console.attempts /\ w.id = console.id
      BY <1>2, ConsoleAt DEF Steps
    <3>2. console' = [w EXCEPT !.tries = Retries] /\ Retries \in 0..Retries
      BY <1>8, Numbers DEF SendHello
    <3> HIDE DEF w
    <3>3. /\ console' \in ConsoleRec /\ console'.at = "wait"
          /\ console'.attempts = console.attempts /\ console'.id = console.id
      BY <3>1, <3>2, ConsoleTries
    <3> QED BY <1>2, <1>8, <3>3 DEF SendHello, At, objects, Stage, Trying, HasId, HasSocket
  <2>2. DatagramsType' /\ NotifyingType'
    BY <1>1, <1>8, <2>1 DEF SendHello, DatagramsType, NotifyingType
  <2> QED BY <1>1, <1>2, <1>8, <2>1, <2>2, Untouched, SameIds DEF SendHello
<1>9. CASE ReceiveHello
  <2>1. console' \in ConsoleRec /\ Stage'
    <3>1. CASE Goes("microphone")
      BY <1>2, <1>9, <3>1, GoesTo
      DEF ReceiveHello, At, objects, Steps, Stage, Trying, HasId, HasSocket
    <3>2. CASE console' = [console EXCEPT !.tries = console.tries - 1]
      <4>1. console.tries - 1 \in 0..Retries
        BY <1>2, <1>9, Numbers DEF ReceiveHello, ConsoleRec
      <4>2. /\ console' \in ConsoleRec /\ console'.at = console.at
            /\ console'.attempts = console.attempts /\ console'.id = console.id
        BY <1>2, <3>2, <4>1, ConsoleTries
      <4> QED BY <1>2, <1>9, <4>2 DEF ReceiveHello, At, objects, Stage, Trying, HasId, HasSocket
    <3> QED BY <1>9, <3>1, <3>2 DEF ReceiveHello, Counted
  <2>2. DatagramsType'
    BY <1>1, <1>9 DEF ReceiveHello, DatagramsType
  <2> QED BY <1>1, <1>2, <1>9, <2>1, <2>2, Untouched, SameIds DEF ReceiveHello
<1>10. CASE NoHello
  <2>1. console' \in ConsoleRec /\ Stage'
    BY <1>2, <1>10, GoesTo DEF NoHello, At, Steps, Stage, Trying, HasId, HasSocket
  <2> QED BY <1>1, <1>2, <1>10, <2>1, Untouched, SameIds DEF NoHello
<1>11. CASE MakeMicrophone
  <2>1. console' \in ConsoleRec /\ Stage'
    BY <1>2, <1>11, GoesTo DEF MakeMicrophone, At, Steps, Stage, Trying, HasId, HasSocket
  <2>2. ObjectsType' /\ SessionType'
    BY <1>1, <1>2, <1>11 DEF MakeMicrophone, NewId, ObjectsType, SessionType, ConsoleRec
  <2> QED BY <1>1, <1>2, <1>11, <2>1, <2>2, Untouched, SameIds DEF MakeMicrophone
<1>12. CASE MakeSpeaker
  <2>1. console' \in ConsoleRec /\ Stage'
    BY <1>2, <1>12, GoesTo DEF MakeSpeaker, At, Steps, Stage, Trying, HasId, HasSocket
  <2>2. ObjectsType'
    BY <1>1, <1>12 DEF MakeSpeaker, ObjectsType
  <2> QED BY <1>1, <1>2, <1>12, <2>1, <2>2, Untouched, SameIds DEF MakeSpeaker
<1>13. CASE Save
  <2>1. console' \in ConsoleRec /\ Stage'
    BY <1>2, <1>13, GoesTo DEF Save, At, Steps, Stage, Trying, HasId, HasSocket
  <2>2. SessionType'
    BY <1>1, <1>2, <1>13 DEF Save, SavedRoom, SessionType, ConsoleRec
  <2> QED BY <1>1, <1>2, <1>13, <2>1, <2>2, Untouched, SameIds DEF Save
<1>14. CASE Failed
  <2>1. console' \in ConsoleRec /\ Stage'
    BY <1>2, <1>14, GoesTo DEF Failed, At, Steps, Stage, Trying, HasId, HasSocket
  <2>2. SessionType'
    BY <1>1, <1>14 DEF Failed, SessionType
  <2> QED BY <1>1, <1>2, <1>14, <2>1, <2>2, Untouched, SameIds DEF Failed
<1> QED BY <1>3, <1>4, <1>5, <1>6, <1>7, <1>8, <1>9, <1>10, <1>11, <1>12, <1>13, <1>14 DEF Connecting

LEMMA TypesElsewhere ==
  ASSUME TypesInv,
         \/ \E r \in Rooms : Connect(r)
         \/ Register \/ AudioThrows \/ Ask \/ ReadUsers \/ Exit
         \/ Press \/ KeysFix \/ KeysPatch \/ KeysRead
         \/ NotifierLooks \/ NotifierReceives \/ NotifierThrown \/ NotifierTakes \/ NotifierFixes
         \/ AudioRuns \/ Close \/ CloserDeletes \/ CloserReads
  PROVE  TypesInv'
<1>1. Types
  BY TypesAre DEF TypesInv
<1>2. console \in ConsoleRec /\ Stage /\ IdsAnswered
  BY <1>1 DEF Types, TypesInv
<1> SUFFICES Types' /\ Stage' /\ IdsAnswered'
  BY TypesAreNext DEF TypesInv
<1> USE DEF Types
<1>3. UNCHANGED <<console, socket>> => console' \in ConsoleRec /\ Stage'
  BY <1>2 DEF Stage, Trying, HasId, HasSocket
<1>4. ASSUME NEW r \in Rooms, Connect(r) PROVE Types' /\ Stage' /\ IdsAnswered'
  <2>1. console' \in ConsoleRec /\ Stage'
    BY <1>4, Numbers DEF Connect, ConsoleRec, Steps, Stage, Trying, HasId, HasSocket
  <2>2. SessionType'
    BY <1>1, <1>4 DEF Connect, SessionType
  <2>3. CountersType'
    BY <1>1, <1>4, ConstantsAssumption DEF Connect, CountersType, ConstantsAssumption
  <2> QED BY <1>1, <1>2, <1>4, <2>1, <2>2, <2>3, Untouched, SameIds DEF Connect
<1>5. CASE Register \/ AudioThrows \/ Exit \/ NotifierThrown \/ AudioRuns
  <2>1. MainType'
    BY <1>1, <1>5 DEF Register, AudioThrows, Exit, NotifierThrown, AudioRuns, MainType
  <2> QED BY <1>1, <1>2, <1>3, <1>5, <2>1, Untouched, SameIds
          DEF Register, AudioThrows, Exit, NotifierThrown, AudioRuns, objects
<1>6. CASE Ask
  <2>1. MainType' /\ console' \in ConsoleRec /\ Stage'
    BY <1>1, <1>2, <1>6, GoesTo
    DEF Ask, MainType, At, Steps, Stage, Trying, HasId, HasSocket
  <2>2. CountersType'
    BY <1>1, <1>6, ConstantsAssumption DEF Ask, CountersType, ConstantsAssumption
  <2>3. ExchangeType' /\ IdsAnswered'
    <3>1. CASE Request("console", "ask", room, 0)
      BY <1>1, <1>2, <3>1, RequestIds DEF SessionType, Kinds
    <3>2. CASE UNCHANGED exchange
      BY <1>1, <1>2, <3>2, Untouched, SameIds
    <3> QED BY <1>6, <3>1, <3>2 DEF Ask
  <2> QED BY <1>1, <1>6, <2>1, <2>2, <2>3, Untouched DEF Ask
<1>7. CASE ReadUsers
  <2>1. MainType' /\ console' \in ConsoleRec /\ Stage'
    BY <1>1, <1>2, <1>7, GoesTo
    DEF ReadUsers, MainType, At, Running, Steps, Stage, Trying, HasId, HasSocket
  <2>2. ExchangeType' /\ IdsAnswered'
    BY <1>1, <1>2, <1>7, AnsweredIds, TimesOutIds DEF ReadUsers
  <2> QED BY <1>1, <1>7, <2>1, <2>2, Untouched DEF ReadUsers
<1>8. CASE Press
  <2>1. KeysType' /\ MainType'
    BY <1>1, <1>8 DEF Press, KeysType, MainType, ObjectsType
  <2>2. CountersType'
    BY <1>1, <1>8, ConstantsAssumption DEF Press, CountersType, ConstantsAssumption
  <2> QED BY <1>1, <1>2, <1>3, <1>8, <2>1, <2>2, Untouched, SameIds DEF Press, objects
<1>9. CASE KeysFix
  <2>1. KeysType' /\ MainType'
    BY <1>1, <1>9 DEF KeysFix, KeysType, MainType
  <2> QED BY <1>1, <1>2, <1>3, <1>9, <2>1, Untouched, SameIds DEF KeysFix, objects
<1>10. CASE KeysPatch
  <2>1. KeysType'
    BY <1>1, <1>10 DEF KeysPatch, Waits, KeysType
  <2>2. ExchangeType' /\ IdsAnswered'
    <3>1. CASE Request("keys", "patch", room, id)
      BY <1>1, <1>2, <3>1, RequestIds DEF SessionType, Kinds
    <3>2. CASE UNCHANGED exchange
      BY <1>1, <1>2, <3>2, Untouched, SameIds
    <3> QED BY <1>10, <3>1, <3>2 DEF KeysPatch
  <2> QED BY <1>1, <1>3, <1>10, <2>1, <2>2, Untouched DEF KeysPatch, objects
<1>11. CASE KeysRead
  <2>1. KeysType'
    BY <1>1, <1>11 DEF KeysRead, KeysType
  <2>2. ExchangeType' /\ IdsAnswered'
    BY <1>1, <1>2, <1>11, AnsweredIds, TimesOutIds DEF KeysRead
  <2> QED BY <1>1, <1>3, <1>11, <2>1, <2>2, Untouched DEF KeysRead, objects
<1>12. CASE NotifierLooks
  <2>1. NotifierType'
    BY <1>1, <1>12 DEF NotifierLooks, NotifierType, ObjectsType
  <2> QED BY <1>1, <1>2, <1>3, <1>12, <2>1, Untouched, SameIds DEF NotifierLooks, objects
<1>13. CASE NotifierReceives
  <2>1. NotifierType' /\ NotifyingType'
    BY <1>1, <1>13, ConstantsAssumption
    DEF NotifierReceives, NotifierType, NotifyingType, ConstantsAssumption
  <2> QED BY <1>1, <1>2, <1>3, <1>13, <2>1, Untouched, SameIds DEF NotifierReceives, objects
<1>14. CASE NotifierTakes \/ NotifierFixes
  <2>1. NotifierType' /\ MainType'
    BY <1>1, <1>14 DEF NotifierTakes, NotifierFixes, NotifierType, MainType, ObjectsType
  <2> QED BY <1>1, <1>2, <1>3, <1>14, <2>1, Untouched, SameIds
          DEF NotifierTakes, NotifierFixes, objects
<1>15. CASE Close
  <2>1. CloserType' /\ MainType'
    BY <1>1, <1>15 DEF Close, DeletedRoom, CloserType, MainType, SessionType
  <2> QED BY <1>1, <1>2, <1>3, <1>15, <2>1, Untouched, SameIds DEF Close, objects
<1>16. CASE CloserDeletes
  <2>1. CloserType' /\ MainType'
    BY <1>1, <1>16 DEF CloserDeletes, CloserType, MainType
  <2>2. ExchangeType' /\ IdsAnswered'
    <3>1. CASE Request("closer", "delete", closer.room, closer.session)
      BY <1>1, <1>2, <3>1, RequestIds DEF CloserType, Kinds
    <3>2. CASE UNCHANGED exchange
      BY <1>1, <1>2, <3>2, Untouched, SameIds
    <3> QED BY <1>16, <3>1, <3>2 DEF CloserDeletes
  <2> QED BY <1>1, <1>3, <1>16, <2>1, <2>2, Untouched DEF CloserDeletes, objects
<1>17. CASE CloserReads
  <2>1. MainType'
    BY <1>1, <1>17 DEF CloserReads, MainType
  <2>2. ExchangeType' /\ IdsAnswered'
    BY <1>1, <1>2, <1>17, AnsweredIds, TimesOutIds DEF CloserReads
  <2> QED BY <1>1, <1>3, <1>17, <2>1, <2>2, Untouched DEF CloserReads, objects
<1> QED BY <1>4, <1>5, <1>6, <1>7, <1>8, <1>9, <1>10, <1>11, <1>12, <1>13, <1>14, <1>15,
           <1>16, <1>17

LEMMA TypesServer ==
  ASSUME TypesInv,
         \/ Serve \/ Notice
         \/ \E hello \in network : AnswerHello(hello) \/ LoseHello(hello)
  PROVE  TypesInv'
<1>1. Types
  BY TypesAre DEF TypesInv
<1>2. console \in ConsoleRec /\ Stage /\ IdsAnswered
  BY <1>1 DEF Types, TypesInv
<1> SUFFICES Types' /\ Stage' /\ IdsAnswered'
  BY TypesAreNext DEF TypesInv
<1> USE DEF Types
<1>3. UNCHANGED <<console, socket>> => console' \in ConsoleRec /\ Stage'
  BY <1>2 DEF Stage, Trying, HasId, HasSocket
<1>4. CASE Serve
  <2>1. requests' \in Seq(Message) /\ answers' \in Seq(Message)
    BY <1>4, ServeTypes DEF TypesInv
  <2>2. UNCHANGED <<control, overlapped, timeouts, heard, console, objects>>
    BY <1>4 DEF Serve
  <2>3. ExchangeType'
    BY <1>1, <2>1, <2>2 DEF ExchangeType
  <2>4. PICK m \in Message :
          /\ m.by = requests[1].by /\ m.room = requests[1].room
          /\ \A i \in DOMAIN answers' :
               (i \in DOMAIN answers /\ answers'[i] = answers[i]) \/ (i = Len(answers) + 1 /\ answers'[i] = m)
          /\ \/ /\ requests[1].kind = "post" /\ m.kind = "post"
                /\ m.session \in Sessions /\ roomOf[m.session] = NoRoom
                /\ roomOf' = [roomOf EXCEPT ![m.session] = m.room]
                /\ held' = held \cup {m.session}
             \/ /\ requests[1].kind = "post" /\ m.kind = "refused"
                /\ UNCHANGED <<roomOf, held>>
             \/ /\ requests[1].kind # "post" /\ m = requests[1] /\ UNCHANGED roomOf
                /\ held' = {n \in held : ~(m.kind = "delete" /\ n = m.session /\ roomOf[n] = m.room)}
    BY <1>4, ServeTypes DEF TypesInv
  <2>5. m.kind = "post" => m.session \in Sessions
    BY <2>4
  <2>6. IdsAnswered'
    BY <1>2, <2>4, <2>5 DEF IdsAnswered
  <2>7. m.room \in Rooms \cup {NoRoom}
    BY <2>4 DEF Message
  <2>8. ServerType'
    BY <1>1, <2>2, <2>4, <2>7 DEF ServerType
  <2> QED BY <1>1, <1>3, <1>4, <2>2, <2>3, <2>6, <2>8, Untouched DEF Serve, objects
<1>5. CASE Notice
  <2>1. NotifyingType'
    BY <1>1, <1>5, ConstantsAssumption DEF Notice, NotifyingType, ConstantsAssumption
  <2> QED BY <1>1, <1>2, <1>3, <1>5, <2>1, Untouched, SameIds DEF Notice, objects
<1>6. ASSUME NEW hello \in network, AnswerHello(hello) \/ LoseHello(hello)
      PROVE  Types' /\ Stage' /\ IdsAnswered'
  <2>1. DatagramsType' /\ ServerType'
    BY <1>1, <1>6 DEF AnswerHello, LoseHello, DatagramsType, ServerType, server
  <2> QED BY <1>1, <1>2, <1>3, <1>6, <2>1, Untouched, SameIds DEF AnswerHello, LoseHello, objects
<1> QED BY <1>4, <1>5, <1>6

LEMMA NextTypes == TypesInv /\ [Next]_vars => TypesInv'
<1> SUFFICES ASSUME TypesInv, [Next]_vars PROVE TypesInv'
  OBVIOUS
<1>1. CASE UNCHANGED vars
  <2>1. Types'
    BY <1>1, TypesAre, Untouched DEF vars, TypesInv, Types
  <2>2. Stage' /\ IdsAnswered'
    BY <1>1, SameIds DEF vars, objects, TypesInv, Stage, Trying, HasId, HasSocket
  <2> QED BY <2>1, <2>2, TypesAreNext DEF TypesInv
<1>2. CASE Next
  BY <1>2, TypesConnecting, TypesElsewhere, TypesServer DEF Next
<1> QED BY <1>1, <1>2

-----------------------------------------------------------------------------
(* The control stream.                                                     *)

\* What is on its way, while nothing was disturbed, is the one reader's.
ExchangeInv ==
  /\ control = "broken" => timeouts > 0
  /\ Undisturbed =>
       /\ \A t, u \in Readers : t = u
       /\ \A i \in DOMAIN answers : answers[i].by \in Readers
       /\ \A i \in DOMAIN requests : requests[i].by \in Readers
       /\ Len(requests) + Len(answers) <= 1

Threads == {"console", "keys", "closer"}

\* Whatever the client does, to the stream and its readers it is one of these.
LEMMA ExchangeSteps ==
  ASSUME TypesInv, Next
  PROVE  \/ UNCHANGED <<requests, answers, overlapped, timeouts>> /\ Readers' = Readers
            /\ (control' = control \/ control' = "open")
         \/ \E t \in Threads, k \in Kinds, r \in Rooms \cup {NoRoom}, s \in {0} \cup Sessions :
              Request(t, k, r, s) /\ t \in Readers' /\ Readers' \subseteq Readers \cup {t}
         \/ Answered /\ Readers' \subseteq Readers
         \/ TimesOut
         \/ Serve
<1>1. Types
  BY TypesAre DEF TypesInv
<1>2. console \in ConsoleRec
  BY <1>1 DEF Types
<1>3. console.room \in Rooms \cup {NoRoom}
  BY <1>2 DEF ConsoleRec
<1> USE DEF Threads, Kinds
<1>4. CASE OpenControl
  <2>1. console'.at \in {"post", "open", "failed"}
    <3>1. CASE AttemptFails
      BY <1>2, <1>4, <3>1, AttemptFailsTo DEF OpenControl, At, TypesInv, Stage, Trying
    <3>2. CASE Goes("post")
      BY <1>2, <3>2, GoesTo DEF Steps
    <3> QED BY <1>4, <3>1, <3>2 DEF OpenControl
  <2> QED BY <1>4, <2>1 DEF OpenControl, At, Readers
<1>5. CASE PostVoice
  <2>1. CASE Request("console", "post", console.room, 0) /\ Goes("read")
    <3>1. console'.at = "read"
      BY <1>2, <2>1, GoesTo DEF Steps
    <3>2. "console" \in Readers' /\ Readers' \subseteq Readers \cup {"console"}
      BY <1>5, <3>1 DEF PostVoice, Readers
    <3> QED BY <1>3, <2>1, <3>2
  <2>2. CASE UNCHANGED exchange /\ AttemptFails
    <3>1. console'.at \in {"open", "failed"}
      BY <1>2, <1>5, <2>2, AttemptFailsTo DEF PostVoice, At, TypesInv, Stage, Trying
    <3> QED BY <1>5, <2>2, <3>1 DEF PostVoice, At, Readers, exchange
  <2> QED BY <1>5, <2>1, <2>2 DEF PostVoice
<1>6. CASE ReadId
  <2>1. CASE Answered
    <3>1. Readers' \subseteq Readers
      BY <1>6 DEF ReadId, At, Readers
    <3> QED BY <2>1, <3>1
  <2> QED BY <1>6, <2>1 DEF ReadId
<1>7. CASE MakeSocket \/ MakeNotification \/ SendHello \/ ReceiveHello \/ NoHello
           \/ MakeMicrophone \/ MakeSpeaker \/ Save \/ Failed
  <2>1. console.at \notin {"read", "asked"}
    BY <1>7 DEF MakeSocket, MakeNotification, SendHello, ReceiveHello, NoHello,
                MakeMicrophone, MakeSpeaker, Save, Failed, At
  <2>2. console'.at \notin {"read", "asked"}
    <3>1. CASE AttemptFails /\ (MakeSocket \/ MakeNotification)
      BY <1>2, <3>1, AttemptFailsTo DEF MakeSocket, MakeNotification, At, TypesInv, Stage, Trying
    <3>2. CASE \E v \in {"notify", "hello", "failed", "microphone", "speaker", "save", "idle"} : Goes(v)
      BY <1>2, <3>2, GoesTo DEF Steps
    <3>3. CASE SendHello
      <4> DEFINE w == [console EXCEPT !.at = "wait"]
      <4>1. w \in ConsoleRec /\ w.at = "wait"
        BY <1>2, ConsoleAt DEF Steps
      <4>2. console' = [w EXCEPT !.tries = Retries] /\ Retries \in 0..Retries
        BY <3>3, Numbers DEF SendHello
      <4> HIDE DEF w
      <4> QED BY <4>1, <4>2, ConsoleTries
    <3>4. CASE ReceiveHello /\ console' = [console EXCEPT !.tries = console.tries - 1]
      BY <1>2, <3>4 DEF ReceiveHello, At, ConsoleRec
    <3> QED BY <1>7, <3>1, <3>2, <3>3, <3>4
            DEF MakeSocket, MakeNotification, ReceiveHello, Counted, NoHello, MakeMicrophone,
                MakeSpeaker, Save, Failed
  <2>3. UNCHANGED <<exchange, keys, closer>>
    BY <1>7 DEF MakeSocket, MakeNotification, SendHello, ReceiveHello, NoHello,
                MakeMicrophone, MakeSpeaker, Save, Failed
  <2> QED BY <2>1, <2>2, <2>3 DEF Readers, exchange
<1>8. ASSUME NEW r \in Rooms, Connect(r) PROVE UNCHANGED exchange /\ Readers' = Readers
  BY <1>8 DEF Connect, At, Readers
<1>9. CASE \/ Register \/ AudioThrows \/ Exit \/ Press \/ KeysFix
           \/ NotifierLooks \/ NotifierReceives \/ NotifierThrown \/ NotifierTakes \/ NotifierFixes
           \/ AudioRuns \/ Notice
           \/ \E hello \in network : AnswerHello(hello) \/ LoseHello(hello)
  <2>1. UNCHANGED <<exchange, console, closer>>
    BY <1>9 DEF Register, AudioThrows, Exit, Press, KeysFix, NotifierLooks, NotifierReceives,
                NotifierThrown, NotifierTakes, NotifierFixes, AudioRuns, Notice,
                AnswerHello, LoseHello
  <2>2. keys'.at = "read" <=> keys.at = "read"
    BY <1>1, <1>9 DEF Register, AudioThrows, Exit, Press, KeysFix, NotifierLooks,
         NotifierReceives, NotifierThrown, NotifierTakes, NotifierFixes, AudioRuns, Notice,
         AnswerHello, LoseHello, Types, KeysType
  <2> QED BY <2>1, <2>2 DEF Readers, exchange
<1>10. CASE Ask
  <2>1. CASE Request("console", "ask", room, 0) /\ Goes("asked")
    <3>1. console'.at = "asked"
      BY <1>2, <2>1, GoesTo DEF Steps
    <3>2. "console" \in Readers' /\ Readers' \subseteq Readers \cup {"console"}
      BY <1>10, <3>1 DEF Ask, Readers
    <3>3. room \in Rooms \cup {NoRoom}
      BY <1>1 DEF Types, SessionType
    <3> QED BY <2>1, <3>2, <3>3
  <2>2. CASE UNCHANGED <<console, exchange>>
    BY <1>10, <2>2 DEF Ask, Readers, exchange
  <2> QED BY <1>10, <2>1, <2>2 DEF Ask
<1>11. CASE ReadUsers
  <2>1. CASE Answered
    <3>1. Readers' \subseteq Readers
      BY <1>11 DEF ReadUsers, At, Readers
    <3> QED BY <2>1, <3>1
  <2> QED BY <1>11, <2>1 DEF ReadUsers
<1>12. CASE KeysPatch
  <2>1. CASE Request("keys", "patch", room, id) /\ keys' = [at |-> Waits, held |-> 0]
    <3>1. "keys" \in Readers' /\ Readers' \subseteq Readers \cup {"keys"}
      BY <1>12, <2>1 DEF KeysPatch, Waits, Readers
    <3>2. room \in Rooms \cup {NoRoom} /\ id \in {0} \cup Sessions
      BY <1>1 DEF Types, SessionType
    <3> QED BY <2>1, <3>1, <3>2
  <2>2. CASE UNCHANGED exchange /\ keys' = [at |-> "idle", held |-> 0]
    BY <1>12, <2>2 DEF KeysPatch, Readers, exchange
  <2> QED BY <1>12, <2>1, <2>2 DEF KeysPatch
<1>13. CASE KeysRead \/ CloserReads
  <2>1. CASE Answered
    <3>1. Readers' \subseteq Readers
      BY <1>13 DEF KeysRead, CloserReads, Readers
    <3> QED BY <2>1, <3>1
  <2> QED BY <1>13, <2>1 DEF KeysRead, CloserReads
<1>14. CASE Close
  BY <1>14 DEF Close, Readers, exchange
<1>15. CASE CloserDeletes
  <2>1. CASE /\ Request("closer", "delete", closer.room, closer.session)
             /\ closer' = [closer EXCEPT !.at = "read"]
    <3>1. closer'.at = "read"
      BY <1>1, <2>1 DEF Types, CloserType
    <3>2. "closer" \in Readers' /\ Readers' \subseteq Readers \cup {"closer"}
      BY <1>15, <3>1 DEF CloserDeletes, Readers
    <3>3. closer.room \in Rooms \cup {NoRoom} /\ closer.session \in {0} \cup Sessions
      BY <1>1 DEF Types, CloserType
    <3> QED BY <2>1, <3>2, <3>3
  <2>2. CASE UNCHANGED <<exchange, closer>>
    BY <1>15, <2>2 DEF CloserDeletes, Readers, exchange
  <2> QED BY <1>15, <2>1, <2>2 DEF CloserDeletes
<1>16. UNCHANGED exchange => UNCHANGED <<control, requests, answers, overlapped, timeouts>>
  BY DEF exchange
<1> QED BY <1>4, <1>5, <1>6, <1>7, <1>8, <1>9, <1>10, <1>11, <1>12, <1>13, <1>14, <1>15, <1>16
        DEF Next, Connecting

LEMMA NextExchange == TypesInv /\ ExchangeInv /\ [Next]_vars => ExchangeInv'
<1> SUFFICES ASSUME TypesInv, ExchangeInv, [Next]_vars PROVE ExchangeInv'
  OBVIOUS
<1>1. ExchangeType
  BY TypesAre DEF TypesInv, Types
<1>2. timeouts \in Nat
  BY <1>1, ConstantsAssumption DEF ExchangeType, ConstantsAssumption
<1>3. CASE UNCHANGED vars
  BY <1>3 DEF vars, exchange, ExchangeInv, Undisturbed, Readers
<1>4. CASE /\ UNCHANGED <<requests, answers, overlapped, timeouts>> /\ Readers' = Readers
           /\ (control' = control \/ control' = "open")
  BY <1>4 DEF ExchangeInv, Undisturbed
<1>5. ASSUME NEW t \in Threads, NEW k \in Kinds, NEW r \in Rooms \cup {NoRoom},
             NEW s \in {0} \cup Sessions,
             Request(t, k, r, s), t \in Readers', Readers' \subseteq Readers \cup {t}
      PROVE  ExchangeInv'
  <2>1. /\ requests' \in Seq(Message) /\ Len(requests') = Len(requests) + 1
        /\ UNCHANGED <<control, answers, timeouts>> /\ control = "open"
        /\ overlapped' = (overlapped \/ Readers # {})
        /\ \A i \in DOMAIN requests' :
             \/ i \in DOMAIN requests /\ requests'[i] = requests[i]
             \/ requests'[i].by = t
    <3>1. t \in {"console", "keys", "closer"}
      BY DEF Threads
    <3>2. requests \in Seq(Message) /\ answers \in Seq(Message) /\ timeouts \in 0..MaxTimeouts
      BY <1>1 DEF ExchangeType
    <3>3. Request(t, k, r, s)
      BY <1>5
    <3>4. /\ requests' \in Seq(Message) /\ Len(requests') = Len(requests) + 1
          /\ UNCHANGED <<control, answers, timeouts>> /\ control = "open"
      BY <1>5, <3>1, <3>2, <3>3, RequestTypes
    <3>5. overlapped' = (overlapped \/ Readers # {})
      BY <1>5 DEF Request
    <3>6. \A i \in DOMAIN requests' :
            \/ i \in DOMAIN requests /\ requests'[i] = requests[i]
            \/ requests'[i].by = t
      <4> DEFINE m == [by |-> t, kind |-> k, room |-> r, session |-> s]
      <4>1. m.by = t /\ m \in Message /\ requests' = Append(requests, m)
        BY <1>5, <3>1 DEF Request, Message
      <4> HIDE DEF m
      <4> QED BY <3>2, <4>1
    <3> QED BY <3>4, <3>5, <3>6
  <2>2. CASE ~Undisturbed'
    BY <2>1, <2>2 DEF ExchangeInv
  <2>3. CASE Undisturbed'
    <3>1. Readers = {} /\ Undisturbed
      BY <2>1, <2>3 DEF Undisturbed
    <3>2. requests = <<>> /\ answers = <<>>
      BY <1>1, <3>1 DEF ExchangeInv, ExchangeType
    <3> QED BY <1>5, <2>1, <3>1, <3>2 DEF ExchangeInv
  <2> QED BY <2>2, <2>3
<1>6. CASE Answered /\ Readers' \subseteq Readers
  <2>1. /\ answers' \in Seq(Message) /\ Len(answers') = Len(answers) - 1
        /\ UNCHANGED <<control, requests, overlapped, timeouts>> /\ 1 \in DOMAIN answers
    BY <1>1, <1>6, AnsweredTypes DEF ExchangeType
  <2>2. CASE ~Undisturbed'
    BY <2>1, <2>2 DEF ExchangeInv
  <2>3. CASE Undisturbed'
    <3>1. Len(requests) + Len(answers) <= 1 /\ Undisturbed
      BY <2>1, <2>3 DEF ExchangeInv, Undisturbed
    <3>2. requests = <<>> /\ answers' = <<>> /\ Len(requests) = 0 /\ Len(answers') = 0
      BY <1>1, <2>1, <3>1 DEF ExchangeType
    <3> QED BY <1>6, <2>1, <3>1, <3>2 DEF ExchangeInv
  <2> QED BY <2>2, <2>3
<1>7. CASE TimesOut
  <2>1. timeouts' > 0 /\ timeouts' \in Nat
    BY <1>1, <1>2, <1>7 DEF TimesOut, ExchangeInv, exchange
  <2> QED BY <2>1 DEF ExchangeInv, Undisturbed
<1>8. CASE Serve
  <2>1. /\ UNCHANGED <<control, overlapped, timeouts>> /\ Readers' = Readers
    BY <1>8 DEF Serve, Readers
  <2>2. /\ Len(requests') = Len(requests) - 1 /\ Len(answers') = Len(answers) + 1
        /\ 1 \in DOMAIN requests
        /\ \A i \in DOMAIN requests' : i + 1 \in DOMAIN requests /\ requests'[i] = requests[i+1]
        /\ \E m \in Message :
             /\ m.by = requests[1].by
             /\ \A i \in DOMAIN answers' :
                  (i \in DOMAIN answers /\ answers'[i] = answers[i]) \/ answers'[i] = m
    BY <1>8, ServeTypes DEF TypesInv
  <2> QED BY <1>1, <2>1, <2>2 DEF ExchangeInv, Undisturbed, ExchangeType
<1> QED BY <1>3, <1>4, <1>5, <1>6, <1>7, <1>8, ExchangeSteps

\* connect, get_users, ping, the hotkey and the close handler on one stream, without a
\* lock: while nothing overlapped and nobody gave up waiting, a thread that waits is the
\* only one, and the next answer is its own.
THEOREM OwnAnswerAlways == Spec => []OwnAnswer
<1>1. Init => ExchangeInv
  BY DEF Init, ExchangeInv, Readers
<1>2. ExchangeInv => OwnAnswer
  BY DEF ExchangeInv, OwnAnswer
<1> QED BY <1>1, <1>2, InitTypes, NextTypes, NextExchange, PTL DEF Spec

-----------------------------------------------------------------------------
(* The steps, as the rest of the invariant sees them.                      *)

SameConnect == console'.room = console.room /\ console'.id = console.id

LEMMA Failing ==
  ASSUME console \in ConsoleRec, Stage, Trying, AttemptFails
  PROVE  SameConnect /\ console'.at \in {"open", "failed"}
BY AttemptFailsTo DEF Stage, SameConnect

\* Where each step of a connect leaves the console thread.
LEMMA ConsoleSteps ==
  ASSUME TypesInv
  PROVE  /\ OpenControl => SameConnect /\ console'.at \in {"post", "open", "failed"}
         /\ PostVoice =>
              /\ SameConnect
              /\ \/ Request("console", "post", console.room, 0) /\ console'.at = "read"
                 \/ UNCHANGED exchange /\ console'.at \in {"open", "failed"}
         /\ ReadId =>
              \/ /\ Answered /\ Head(answers).kind = "post" /\ console'.at = "socket"
                 /\ console'.room = console.room /\ console'.id = Head(answers).session
              \/ (Answered \/ TimesOut) /\ SameConnect /\ console'.at \in {"open", "failed"}
         /\ MakeSocket =>
              /\ SameConnect
              /\ \/ console'.at = "notify"
                 \/ console'.at \in {"open", "failed"} /\ UNCHANGED socket
         /\ MakeNotification =>
              /\ SameConnect
              /\ \/ console'.at = "hello" /\ notification' = socket
                 \/ console'.at \in {"open", "failed"} /\ UNCHANGED notification
         /\ SendHello => SameConnect /\ console'.at = "wait"
         /\ ReceiveHello =>
              /\ SameConnect /\ inbox' \subseteq inbox
              /\ \/ console'.at = "wait"
                 \/ console'.at = "microphone" /\ <<socket, console.id>> \in inbox
         /\ NoHello => SameConnect /\ console'.at = "failed"
         /\ MakeMicrophone => SameConnect /\ console'.at = "speaker"
         /\ MakeSpeaker => SameConnect /\ console'.at = "save"
         /\ Save => SameConnect /\ console'.at = "idle"
         /\ Failed => SameConnect /\ console'.at = "idle"
<1>1. Types
  BY TypesAre DEF TypesInv
<1>2. console \in ConsoleRec /\ Stage /\ IdsAnswered
  BY <1>1 DEF Types, TypesInv
<1>3. OpenControl => SameConnect /\ console'.at \in {"post", "open", "failed"}
  BY <1>2, GoesTo, Failing DEF OpenControl, At, Steps, Trying, SameConnect
<1>4. ASSUME PostVoice
      PROVE  /\ SameConnect
             /\ \/ Request("console", "post", console.room, 0) /\ console'.at = "read"
                \/ UNCHANGED exchange /\ console'.at \in {"open", "failed"}
  <2>1. CASE Request("console", "post", console.room, 0) /\ Goes("read")
    BY <1>2, <2>1, GoesTo DEF Steps, SameConnect
  <2>2. CASE UNCHANGED exchange /\ AttemptFails
    BY <1>2, <1>4, <2>2, Failing DEF PostVoice, At, Trying
  <2> QED BY <1>4, <2>1, <2>2 DEF PostVoice
<1>5. ASSUME ReadId
      PROVE  \/ /\ Answered /\ Head(answers).kind = "post" /\ console'.at = "socket"
                /\ console'.room = console.room /\ console'.id = Head(answers).session
             \/ (Answered \/ TimesOut) /\ SameConnect /\ console'.at \in {"open", "failed"}
  <2>1. CASE /\ Answered /\ Head(answers).kind = "post"
             /\ console' = [console EXCEPT !.id = Head(answers).session, !.at = "socket"]
    <3> DEFINE w == [console EXCEPT !.id = Head(answers).session]
    <3>1. Head(answers).session \in Sessions
      BY <1>1, <1>2, <2>1, AnsweredIds DEF Types
    <3>2. w \in ConsoleRec /\ w.room = console.room /\ w.id = Head(answers).session
      BY <1>2, <3>1 DEF ConsoleRec
    <3>3. console' = [w EXCEPT !.at = "socket"] /\ "socket" \in Steps
      BY <2>1 DEF Steps
    <3> HIDE DEF w
    <3> QED BY <2>1, <3>2, <3>3, ConsoleAt
  <2>2. CASE AttemptFails /\ (Answered \/ TimesOut)
    BY <1>2, <1>5, <2>2, Failing DEF ReadId, At, Trying
  <2> QED BY <1>5, <2>1, <2>2 DEF ReadId
<1>6. ASSUME MakeSocket
      PROVE  /\ SameConnect
             /\ \/ console'.at = "notify"
                \/ console'.at \in {"open", "failed"} /\ UNCHANGED socket
  <2>1. CASE Goes("notify")
    BY <1>2, <2>1, GoesTo DEF Steps, SameConnect
  <2>2. CASE UNCHANGED socket /\ AttemptFails
    BY <1>2, <1>6, <2>2, Failing DEF MakeSocket, At, Trying
  <2> QED BY <1>6, <2>1, <2>2 DEF MakeSocket
<1>7. ASSUME MakeNotification
      PROVE  /\ SameConnect
             /\ \/ console'.at = "hello" /\ notification' = socket
                \/ console'.at \in {"open", "failed"} /\ UNCHANGED notification
  <2>1. CASE notification' = socket /\ Goes("hello")
    BY <1>2, <2>1, GoesTo DEF Steps, SameConnect
  <2>2. CASE UNCHANGED notification /\ AttemptFails
    BY <1>2, <1>7, <2>2, Failing DEF MakeNotification, At, Trying
  <2> QED BY <1>7, <2>1, <2>2 DEF MakeNotification
<1>8. ASSUME SendHello PROVE SameConnect /\ console'.at = "wait"
  <2> DEFINE w == [console EXCEPT !.at = "wait"]
  <2>1. w \in ConsoleRec /\ w.at = "wait" /\ w.room = console.room /\ w.id = console.id
    BY <1>2, ConsoleAt DEF Steps
  <2>2. console' = [w EXCEPT !.tries = Retries] /\ Retries \in 0..Retries
    BY <1>8, Numbers DEF SendHello
  <2> HIDE DEF w
  <2> QED BY <2>1, <2>2, ConsoleTries DEF SameConnect
<1>9. ASSUME ReceiveHello
      PROVE  /\ SameConnect /\ inbox' \subseteq inbox
             /\ \/ console'.at = "wait"
                \/ console'.at = "microphone" /\ <<socket, console.id>> \in inbox
  <2>1. inbox' \subseteq inbox
    BY <1>9 DEF ReceiveHello
  <2>2. CASE /\ Goes("microphone")
             /\ \E answer \in inbox : answer[1] = socket /\ answer[2] = console.id
    <3>1. <<socket, console.id>> \in inbox
      BY <1>1, <2>2 DEF Types, DatagramsType
    <3> QED BY <1>2, <2>1, <2>2, <3>1, GoesTo DEF Steps, SameConnect
  <2>3. CASE console' = [console EXCEPT !.tries = console.tries - 1]
    <3>1. console.tries - 1 \in 0..Retries /\ console.at = "wait"
      BY <1>2, <1>9, Numbers DEF ReceiveHello, At, ConsoleRec
    <3> QED BY <1>2, <2>1, <2>3, <3>1, ConsoleTries DEF SameConnect
  <2> QED BY <1>9, <2>2, <2>3 DEF ReceiveHello, Counted
<1>10. /\ NoHello => SameConnect /\ console'.at = "failed"
       /\ MakeMicrophone => SameConnect /\ console'.at = "speaker"
       /\ MakeSpeaker => SameConnect /\ console'.at = "save"
       /\ Save => SameConnect /\ console'.at = "idle"
       /\ Failed => SameConnect /\ console'.at = "idle"
  BY <1>2, GoesTo DEF NoHello, MakeMicrophone, MakeSpeaker, Save, Failed, Steps, SameConnect
<1> QED BY <1>3, <1>4, <1>5, <1>6, <1>7, <1>8, <1>9, <1>10

\* The commands of the console thread that are no connects.
LEMMA CommandSteps ==
  ASSUME TypesInv
  PROVE  /\ Ask => /\ SameConnect
                   /\ \/ Request("console", "ask", room, 0) /\ console'.at = "asked"
                      \/ UNCHANGED <<console, exchange>>
         /\ ReadUsers => /\ SameConnect /\ console'.at \in {"idle", "asked"}
                         /\ Answered \/ TimesOut
<1>1. console \in ConsoleRec
  BY TypesAre DEF TypesInv, Types
<1>2. Ask => /\ SameConnect
             /\ \/ Request("console", "ask", room, 0) /\ console'.at = "asked"
                \/ UNCHANGED <<console, exchange>>
  BY <1>1, GoesTo DEF Ask, Steps, SameConnect
<1>3. ReadUsers => /\ SameConnect /\ console'.at \in {"idle", "asked"}
                   /\ Answered \/ TimesOut
  BY <1>1, GoesTo DEF ReadUsers, At, Steps, SameConnect
<1> QED BY <1>2, <1>3

\* What the close handler does to its record.
LEMMA CloserSteps ==
  ASSUME TypesInv
  PROVE  /\ Close => /\ closer.at = "none" /\ closer'.at = "send" /\ closer'.room = room
                     /\ closer'.session = id /\ closer'.calm = (console.at = "idle")
         /\ CloserDeletes =>
              /\ closer.at = "send" /\ closer'.room = closer.room
              /\ closer'.session = closer.session /\ closer'.calm = closer.calm
              /\ \/ /\ Request("closer", "delete", closer.room, closer.session)
                    /\ closer'.at = "read" /\ UNCHANGED status
                 \/ control # "open" /\ UNCHANGED <<exchange, closer>>
<1>1. CloserType
  BY TypesAre DEF TypesInv, Types
<1>2. Close => /\ closer.at = "none" /\ closer'.at = "send" /\ closer'.room = room
               /\ closer'.session = id /\ closer'.calm = (console.at = "idle")
  BY DEF Close, DeletedRoom
<1>3. CloserDeletes =>
        /\ closer.at = "send" /\ closer'.room = closer.room
        /\ closer'.session = closer.session /\ closer'.calm = closer.calm
        /\ \/ /\ Request("closer", "delete", closer.room, closer.session)
              /\ closer'.at = "read" /\ UNCHANGED status
           \/ control # "open" /\ UNCHANGED <<exchange, closer>>
  BY <1>1 DEF CloserDeletes, CloserType
<1> QED BY <1>2, <1>3

\* The steps of the other threads, which touch nothing of what follows.
Quiet ==
  \/ AudioThrows \/ Exit \/ Press \/ KeysFix
  \/ NotifierLooks \/ NotifierReceives \/ NotifierThrown \/ NotifierTakes \/ NotifierFixes
  \/ AudioRuns \/ Notice

LEMMA QuietSteps ==
  ASSUME TypesInv, Quiet
  PROVE  /\ UNCHANGED <<registered, console, closer, exchange, objects, session, server,
                        datagrams, connects>>
         /\ status' # "closed"
BY DEF Quiet, AudioThrows, Exit, Press, KeysFix, NotifierLooks, NotifierReceives,
       NotifierThrown, NotifierTakes, NotifierFixes, AudioRuns, Notice, Running, At, main,
       counters, notifying

-----------------------------------------------------------------------------
(* The sessions the server made for this client.                           *)

\* A connect has a session, which is not the client's yet.
Opening == console.at \in {"socket", "notify", "hello", "wait", "microphone"}

\* Nobody asks for its end.
Fresh(s) == s \in held /\ s \notin {id, closer.session}

\* What has a name once was made in a room; and an answer to a hello means that the
\* server has heard it, unless the session is gone.
Alive ==
  /\ \A s \in held : roomOf[s] # NoRoom
  /\ id # 0 => roomOf[id] # NoRoom
  /\ closer.session # 0 => roomOf[closer.session] # NoRoom
  /\ \A h \in network : roomOf[h[2]] # NoRoom
  /\ \A h \in inbox : roomOf[h[2]] # NoRoom /\ (h \in heard \/ h[2] \notin held)

\* The only session anybody asks to end is the closer's.
Asked ==
  /\ console.at \notin {"idle", "asked"} => console.room \in Rooms
  /\ \A i \in DOMAIN requests :
       /\ requests[i].kind = "post" => requests[i].room \in Rooms
       /\ requests[i].kind = "delete" =>
            /\ closer.at = "read"
            /\ requests[i].session = closer.session /\ requests[i].room = closer.room

\* Every session that is on its way to a connect, or there, is another one, and fresh.
Promised ==
  /\ \A i \in DOMAIN answers :
       answers[i].kind = "post" =>
         /\ Fresh(answers[i].session) /\ roomOf[answers[i].session] = answers[i].room
         /\ Opening => answers[i].session # console.id
         /\ \A j \in DOMAIN answers :
              answers[j].kind = "post" /\ j # i => answers[j].session # answers[i].session
  /\ Opening => Fresh(console.id)

SessionsInv == Alive /\ Asked /\ Promised

LEMMA SameAlive ==
  ASSUME Alive, UNCHANGED <<roomOf, held, heard, id>>, closer'.session = closer.session,
         network' \subseteq network, inbox' \subseteq inbox
  PROVE  Alive'
BY DEF Alive

LEMMA SameAsked ==
  ASSUME Asked, UNCHANGED requests, SameConnect,
         closer'.session = closer.session, closer'.room = closer.room,
         closer.at = "read" => closer'.at = "read",
         console'.at \notin {"idle", "asked"} => console.at \notin {"idle", "asked"}
  PROVE  Asked'
BY DEF Asked, SameConnect

LEMMA MoreAsked ==
  ASSUME ExchangeType, Asked, NEW t \in Threads, NEW k \in Kinds,
         NEW r \in Rooms \cup {NoRoom}, NEW s \in {0} \cup Sessions, Request(t, k, r, s),
         k = "post" => r \in Rooms,
         k = "delete" => closer'.at = "read" /\ s = closer.session /\ r = closer.room,
         SameConnect, closer'.session = closer.session, closer'.room = closer.room,
         closer.at = "read" => closer'.at = "read",
         console'.at \notin {"idle", "asked"} => console.at \notin {"idle", "asked"}
  PROVE  Asked'
<1> DEFINE m == [by |-> t, kind |-> k, room |-> r, session |-> s]
<1>1. m.kind = k /\ m.room = r /\ m.session = s /\ m \in Message
  BY DEF Message, Threads
<1>2. requests' = Append(requests, m) /\ requests \in Seq(Message)
  BY DEF Request, ExchangeType
<1> HIDE DEF m
<1>3. \A i \in DOMAIN requests' :
        (i \in DOMAIN requests /\ requests'[i] = requests[i]) \/ requests'[i] = m
  BY <1>1, <1>2
<1> QED BY <1>1, <1>3 DEF Asked, SameConnect

LEMMA SamePromised ==
  ASSUME Promised, UNCHANGED <<answers, roomOf, held, id>>, closer'.session = closer.session,
         Opening' => Opening /\ console'.id = console.id
  PROVE  Promised'
BY DEF Promised, Fresh

LEMMA FewerPromised ==
  ASSUME ExchangeType, Promised, Answered, UNCHANGED <<roomOf, held, id>>,
         closer'.session = closer.session,
         Opening' => Opening /\ console'.id = console.id
  PROVE  Promised'
<1>1. \A i \in DOMAIN answers' : i + 1 \in DOMAIN answers /\ answers'[i] = answers[i+1]
  BY AnsweredTypes DEF ExchangeType
<1>2. DOMAIN answers' \subseteq Nat
  BY AnsweredTypes DEF ExchangeType
<1> QED BY <1>1, <1>2 DEF Promised, Fresh

LEMMA NextAlive ==
  ASSUME TypesInv, SessionsInv, Next
  PROVE  Alive'
<1>1. Types
  BY TypesAre DEF TypesInv
<1>2. Alive /\ Asked /\ Promised
  BY DEF SessionsInv
<1>3. CASE SendHello
  <2>1. Opening
    BY <1>3 DEF SendHello, At, Opening
  <2>2. roomOf[console.id] # NoRoom
    BY <1>2, <2>1 DEF Promised, Fresh, Alive
  <2>3. /\ UNCHANGED <<roomOf, held, heard, id, closer, inbox>>
        /\ network' \subseteq network \cup {<<socket, console.id>>}
    BY <1>3 DEF SendHello, server, session
  <2> QED BY <1>2, <2>2, <2>3 DEF Alive
<1>4. CASE MakeMicrophone
  <2>1. Opening
    BY <1>4 DEF MakeMicrophone, At, Opening
  <2>2. roomOf[console.id] # NoRoom
    BY <1>2, <2>1 DEF Promised, Fresh, Alive
  <2>3. UNCHANGED <<roomOf, held, heard, closer, inbox, network>> /\ id' = console.id
    BY <1>4 DEF MakeMicrophone, NewId, server, datagrams
  <2> QED BY <1>2, <2>2, <2>3 DEF Alive
<1>5. CASE Close
  <2>1. UNCHANGED <<roomOf, held, heard, id, inbox, network>> /\ closer'.session = id
    BY <1>5, CloserSteps DEF Close, server, datagrams, session
  <2> QED BY <1>2, <2>1 DEF Alive
<1>6. CASE Serve
  <2>1. /\ UNCHANGED <<heard, id, closer, inbox, network>>
        /\ \/ UNCHANGED roomOf /\ held' \subseteq held
           \/ \E m \in Message :
                /\ m.session \in Sessions /\ roomOf[m.session] = NoRoom /\ m.room \in Rooms
                /\ roomOf' = [roomOf EXCEPT ![m.session] = m.room]
                /\ held' = held \cup {m.session}
    <3>1. UNCHANGED <<heard, id, closer, inbox, network>>
      BY <1>6 DEF Serve, datagrams, session
    <3>2. requests[1].kind = "post" => requests[1].room \in Rooms
      BY <1>2, <1>6, ServeTypes DEF Asked, TypesInv
    <3> QED BY <1>6, <3>1, <3>2, ServeTypes DEF TypesInv
  <2>2. CASE UNCHANGED roomOf /\ held' \subseteq held
    BY <1>2, <2>1, <2>2 DEF Alive
  <2>3. ASSUME NEW m \in Message, m.session \in Sessions, roomOf[m.session] = NoRoom,
               m.room \in Rooms, roomOf' = [roomOf EXCEPT ![m.session] = m.room],
               held' = held \cup {m.session}
        PROVE  Alive'
    <3>1. roomOf \in [Sessions -> Rooms \cup {NoRoom}] /\ NoRoom \notin Rooms
      BY <1>1, ConstantsAssumption DEF Types, ServerType, ConstantsAssumption
    <3>2. \A s \in Sessions : roomOf[s] # NoRoom => roomOf'[s] = roomOf[s] /\ s # m.session
      BY <2>3, <3>1
    <3>3. roomOf'[m.session] # NoRoom
      BY <2>3, <3>1
    <3>4. /\ held \subseteq Sessions /\ id \in {0} \cup Sessions
          /\ closer.session \in {0} \cup Sessions
          /\ \A h \in network \cup inbox : h[2] \in Sessions
      BY <1>1 DEF Types, ServerType, SessionType, CloserType, DatagramsType
    <3> QED BY <1>2, <2>1, <2>3, <3>2, <3>3, <3>4 DEF Alive
  <2> QED BY <2>1, <2>2, <2>3
<1>7. ASSUME NEW hello \in network, AnswerHello(hello) PROVE Alive'
  <2>1. /\ UNCHANGED <<roomOf, held, id, closer>> /\ network' \subseteq network
        /\ inbox' = inbox \cup {hello} /\ heard \subseteq heard'
        /\ hello[2] \in held => hello \in heard'
    BY <1>7 DEF AnswerHello, session
  <2> QED BY <1>2, <2>1 DEF Alive
<1>8. CASE CloserDeletes
  BY <1>2, <1>8, CloserSteps, SameAlive DEF CloserDeletes, server, datagrams, session
<1>9. ASSUME NEW r \in Rooms, Connect(r) PROVE Alive'
  BY <1>2, <1>9, SameAlive DEF Connect, server, datagrams
<1>10. ASSUME NEW hello \in network, LoseHello(hello) PROVE Alive'
  BY <1>2, <1>10, SameAlive DEF LoseHello, server, session
<1>11. CASE Quiet
  BY <1>2, <1>11, QuietSteps, SameAlive DEF server, datagrams, session
<1>12. CASE ReceiveHello
  BY <1>2, <1>12, ConsoleSteps, SameAlive DEF ReceiveHello, server, session
<1>13. CASE \/ Register \/ OpenControl \/ PostVoice \/ ReadId \/ MakeSocket \/ MakeNotification
            \/ NoHello \/ MakeSpeaker \/ Save \/ Failed \/ Ask \/ ReadUsers
            \/ KeysPatch \/ KeysRead \/ CloserReads
  <2>1. UNCHANGED <<roomOf, held, heard, id, closer, network, inbox>>
    BY <1>13 DEF Register, OpenControl, PostVoice, ReadId, MakeSocket, MakeNotification,
         NoHello, MakeSpeaker, Save, Failed, Ask, ReadUsers, KeysPatch, KeysRead, CloserReads,
         server, session, datagrams
  <2> QED BY <1>2, <2>1, SameAlive
<1> QED BY <1>3, <1>4, <1>5, <1>6, <1>7, <1>8, <1>9, <1>10, <1>11, <1>12, <1>13
        DEF Next, Connecting, Quiet

LEMMA NextAsked ==
  ASSUME TypesInv, SessionsInv, Next
  PROVE  Asked'
<1>1. Types
  BY TypesAre DEF TypesInv
<1>2. Asked /\ ExchangeType /\ closer.at \in {"none", "send", "read"}
  BY <1>1 DEF SessionsInv, Types, CloserType
<1>3. /\ console.room \in Rooms \cup {NoRoom} /\ room \in Rooms \cup {NoRoom}
      /\ id \in {0} \cup Sessions /\ closer.room \in Rooms \cup {NoRoom}
      /\ closer.session \in {0} \cup Sessions /\ 0 \in {0} \cup Sessions
  BY <1>1 DEF Types, ConsoleRec, SessionType, CloserType
<1>4. /\ {"post", "ask", "patch", "delete"} \subseteq Kinds
      /\ {"console", "keys", "closer"} \subseteq Threads
  BY DEF Kinds, Threads
<1>5. CASE PostVoice
  <2>1. UNCHANGED closer /\ SameConnect /\ console.at = "post" /\ console.room \in Rooms
    BY <1>2, <1>5, ConsoleSteps DEF PostVoice, At, Asked
  <2>2. CASE UNCHANGED exchange
    BY <1>2, <2>1, <2>2, SameAsked DEF exchange
  <2>3. CASE Request("console", "post", console.room, 0)
    BY <1>2, <1>3, <1>4, <2>1, <2>3, MoreAsked
  <2> QED BY <1>5, <2>2, <2>3, ConsoleSteps
<1>6. CASE Ask
  <2>1. UNCHANGED closer /\ SameConnect
    BY <1>6, CommandSteps DEF Ask
  <2>2. CASE UNCHANGED <<console, exchange>>
    BY <1>2, <2>1, <2>2, SameAsked DEF exchange
  <2>3. CASE Request("console", "ask", room, 0) /\ console'.at = "asked"
    BY <1>2, <1>3, <1>4, <2>1, <2>3, MoreAsked
  <2> QED BY <1>6, <2>2, <2>3, CommandSteps
<1>7. CASE KeysPatch
  <2>1. UNCHANGED <<closer, console>> /\ SameConnect
    BY <1>7 DEF KeysPatch, SameConnect
  <2>2. CASE UNCHANGED exchange
    BY <1>2, <2>1, <2>2, SameAsked DEF exchange
  <2>3. CASE Request("keys", "patch", room, id)
    BY <1>2, <1>3, <1>4, <2>1, <2>3, MoreAsked
  <2> QED BY <1>7, <2>2, <2>3 DEF KeysPatch
<1>8. CASE CloserDeletes
  <2>1. /\ UNCHANGED console /\ SameConnect /\ closer.at = "send"
        /\ closer'.session = closer.session /\ closer'.room = closer.room
    BY <1>8, CloserSteps DEF CloserDeletes, SameConnect
  <2>2. CASE UNCHANGED <<exchange, closer>>
    BY <1>2, <2>1, <2>2, SameAsked DEF exchange
  <2>3. CASE Request("closer", "delete", closer.room, closer.session) /\ closer'.at = "read"
    BY <1>2, <1>3, <1>4, <2>1, <2>3, MoreAsked
  <2> QED BY <1>8, <2>2, <2>3, CloserSteps
<1>9. ASSUME NEW r \in Rooms, Connect(r) PROVE Asked'
  <2>1. UNCHANGED <<requests, closer>> /\ console'.room \in Rooms
    BY <1>9 DEF Connect, exchange
  <2> QED BY <1>2, <2>1 DEF Asked
<1>10. CASE Close
  <2>1. UNCHANGED <<requests, console>> /\ closer.at = "none"
    BY <1>10, CloserSteps DEF Close, exchange
  <2> QED BY <1>2, <2>1 DEF Asked
<1>11. CASE Serve
  <2>1. UNCHANGED <<console, closer>>
    BY <1>11 DEF Serve
  <2>2. \A i \in DOMAIN requests' : i + 1 \in DOMAIN requests /\ requests'[i] = requests[i+1]
    BY <1>11, ServeTypes DEF TypesInv
  <2> QED BY <1>2, <2>1, <2>2 DEF Asked
<1>12. CASE ReadId
  <2>1. UNCHANGED <<requests, closer>> /\ console.at = "read"
    BY <1>12 DEF ReadId, At, Answered, TimesOut, exchange
  <2>2. console'.room = console.room
    BY <1>12, ConsoleSteps DEF SameConnect
  <2> QED BY <1>2, <2>1, <2>2 DEF Asked
<1>13. CASE ReadUsers
  <2>1. /\ UNCHANGED <<requests, closer>> /\ console.at = "asked" /\ SameConnect
        /\ console'.at \in {"idle", "asked"}
    BY <1>13, CommandSteps DEF ReadUsers, At, Answered, TimesOut, exchange
  <2> QED BY <1>2, <2>1, SameAsked
<1>14. CASE KeysRead \/ CloserReads
  <2>1. UNCHANGED <<requests, closer, console>> /\ SameConnect
    BY <1>14 DEF KeysRead, CloserReads, Answered, TimesOut, exchange, SameConnect
  <2> QED BY <1>2, <2>1, SameAsked
<1>15. CASE \/ OpenControl \/ MakeSocket \/ MakeNotification \/ SendHello \/ ReceiveHello
            \/ NoHello \/ MakeMicrophone \/ MakeSpeaker \/ Save \/ Failed
  <2>1. UNCHANGED <<requests, closer>> /\ console.at \notin {"idle", "asked"}
    BY <1>15 DEF OpenControl, MakeSocket, MakeNotification, SendHello, ReceiveHello, NoHello,
         MakeMicrophone, MakeSpeaker, Save, Failed, At, exchange
  <2>2. SameConnect
    BY <1>15, ConsoleSteps
  <2> QED BY <1>2, <2>1, <2>2, SameAsked
<1>16. CASE Quiet \/ Register \/ \E hello \in network : AnswerHello(hello) \/ LoseHello(hello)
  <2>1. UNCHANGED <<requests, closer, console>> /\ SameConnect
    BY <1>16, QuietSteps DEF Register, AnswerHello, LoseHello, exchange, SameConnect
  <2> QED BY <1>2, <2>1, SameAsked
<1> QED BY <1>5, <1>6, <1>7, <1>8, <1>9, <1>10, <1>11, <1>12, <1>13, <1>14, <1>15, <1>16
        DEF Next, Connecting, Quiet

StillFresh(s) == s \in held' /\ s \notin {id', closer'.session}

LEMMA NextPromised ==
  ASSUME TypesInv, SessionsInv, Next
  PROVE  Promised'
<1>1. Types
  BY TypesAre DEF TypesInv
<1>2. Alive /\ Asked /\ Promised /\ ExchangeType
  BY <1>1 DEF SessionsInv, Types
<1> USE DEF Opening
<1>3. CASE ReadId
  <2>1. /\ UNCHANGED <<roomOf, held, id, closer>> /\ console.at = "read"
    BY <1>3 DEF ReadId, At, server, session
  <2>2. CASE SameConnect /\ console'.at \in {"open", "failed"} /\ Answered
    BY <1>2, <2>1, <2>2, FewerPromised
  <2>3. CASE SameConnect /\ console'.at \in {"open", "failed"} /\ TimesOut
    <3>1. UNCHANGED answers
      BY <2>3 DEF TimesOut, exchange
    <3> QED BY <1>2, <2>1, <2>3, <3>1, SamePromised
  <2>4. CASE /\ Answered /\ Head(answers).kind = "post" /\ console'.at = "socket"
             /\ console'.id = Head(answers).session
    <3>1. /\ 1 \in DOMAIN answers /\ Head(answers) = answers[1]
          /\ answers' \in Seq(Message)
          /\ \A i \in DOMAIN answers' : i + 1 \in DOMAIN answers /\ answers'[i] = answers[i+1]
      BY <1>2, <2>4, AnsweredTypes DEF ExchangeType
    <3>2. \A i \in DOMAIN answers' : i + 1 # 1 /\ i \in Nat
      BY <3>1
    <3>3. StillFresh(console'.id) /\ console'.id = answers[1].session /\ answers[1].kind = "post"
      BY <1>2, <2>1, <2>4, <3>1 DEF Promised, Fresh, StillFresh
    <3>4. ASSUME NEW i \in DOMAIN answers', answers'[i].kind = "post"
          PROVE  /\ StillFresh(answers'[i].session)
                 /\ roomOf'[answers'[i].session] = answers'[i].room
                 /\ answers'[i].session # console'.id
                 /\ \A j \in DOMAIN answers' :
                      answers'[j].kind = "post" /\ j # i => answers'[j].session # answers'[i].session
      BY <1>2, <2>1, <3>1, <3>2, <3>3, <3>4 DEF Promised, Fresh, StillFresh
    <3> QED BY <3>3, <3>4 DEF Promised, Fresh, StillFresh
  <2> QED BY <1>3, <2>2, <2>3, <2>4, ConsoleSteps
<1>4. CASE ReadUsers \/ KeysRead \/ CloserReads
  <2>1. UNCHANGED <<roomOf, held, id, closer>>
    BY <1>4 DEF ReadUsers, KeysRead, CloserReads, server, session
  <2>2. Opening' => Opening /\ console'.id = console.id
    <3>1. CASE ReadUsers
      BY <3>1, CommandSteps
    <3> QED BY <1>4, <3>1 DEF KeysRead, CloserReads
  <2>3. CASE Answered
    BY <1>2, <2>1, <2>2, <2>3, FewerPromised
  <2>4. CASE TimesOut
    <3>1. UNCHANGED answers
      BY <2>4 DEF TimesOut, exchange
    <3> QED BY <1>2, <2>1, <2>2, <3>1, SamePromised
  <2> QED BY <1>4, <2>3, <2>4 DEF ReadUsers, KeysRead, CloserReads
<1>5. CASE MakeMicrophone
  <2>1. /\ UNCHANGED <<answers, roomOf, held, closer>> /\ id' = console.id
        /\ console.at = "microphone"
    BY <1>5 DEF MakeMicrophone, NewId, At, exchange, server
  <2>2. console'.at = "speaker"
    BY <1>5, ConsoleSteps
  <2> QED BY <1>2, <2>1, <2>2 DEF Promised, Fresh, StillFresh
<1>6. CASE Close
  <2>1. UNCHANGED <<answers, roomOf, held, id, console>> /\ closer'.session = id
    BY <1>6, CloserSteps DEF Close, exchange, server, session
  <2> QED BY <1>2, <2>1 DEF Promised, Fresh, StillFresh
<1>7. ASSUME NEW r \in Rooms, Connect(r) PROVE Promised'
  <2>1. UNCHANGED <<answers, roomOf, held, id, closer>> /\ console'.at = "open"
    BY <1>7 DEF Connect, exchange, server
  <2> QED BY <1>2, <2>1, SamePromised
<1>8. CASE Serve
  <2>1. UNCHANGED <<console, closer, id>>
    BY <1>8 DEF Serve, session
  <2>2. PICK m \in Message :
          /\ m.by = requests[1].by /\ m.room = requests[1].room
          /\ \A i \in DOMAIN answers' :
               (i \in DOMAIN answers /\ answers'[i] = answers[i]) \/ (i = Len(answers) + 1 /\ answers'[i] = m)
          /\ \/ /\ requests[1].kind = "post" /\ m.kind = "post"
                /\ m.session \in Sessions /\ roomOf[m.session] = NoRoom
                /\ roomOf' = [roomOf EXCEPT ![m.session] = m.room]
                /\ held' = held \cup {m.session}
             \/ /\ requests[1].kind = "post" /\ m.kind = "refused"
                /\ UNCHANGED <<roomOf, held>>
             \/ /\ requests[1].kind # "post" /\ m = requests[1] /\ UNCHANGED roomOf
                /\ held' = {n \in held : ~(m.kind = "delete" /\ n = m.session /\ roomOf[n] = m.room)}
    BY <1>8, ServeTypes DEF TypesInv
  <2>3. 1 \in DOMAIN requests
    BY <1>8, ServeTypes DEF TypesInv
  <2>4. CASE m.kind # "post" /\ UNCHANGED roomOf
    <3>1. \A i \in DOMAIN answers' : answers'[i].kind = "post" =>
            i \in DOMAIN answers /\ answers'[i] = answers[i]
      BY <2>2, <2>4
    <3>2. \A s \in held : s # closer.session => s \in held'
      BY <1>2, <2>2, <2>3, <2>4 DEF Asked
    <3>3. \A s : Fresh(s) => StillFresh(s)
      BY <2>1, <3>2 DEF Fresh, StillFresh
    <3> QED BY <1>2, <2>1, <2>4, <3>1, <3>3 DEF Promised, Fresh, StillFresh
  <2>5. CASE /\ requests[1].kind = "post" /\ m.kind = "post"
             /\ m.session \in Sessions /\ roomOf[m.session] = NoRoom
             /\ roomOf' = [roomOf EXCEPT ![m.session] = m.room] /\ held' = held \cup {m.session}
    <3>1. roomOf \in [Sessions -> Rooms \cup {NoRoom}] /\ held \subseteq Sessions
      BY <1>1 DEF Types, ServerType
    <3>2. /\ roomOf'[m.session] = m.room
          /\ \A s \in held : s # m.session /\ roomOf'[s] = roomOf[s]
      BY <1>2, <2>5, <3>1 DEF Alive
    <3>3. m.session # id /\ m.session # closer.session
      BY <1>2, <2>5, Numbers DEF Alive
    <3>4. StillFresh(m.session) /\ (\A s : Fresh(s) => StillFresh(s) /\ s \in held)
      BY <2>1, <2>5, <3>3 DEF Fresh, StillFresh
    <3>5. Opening => Fresh(console.id) /\ m.session # console.id
      BY <1>2, <3>2, <3>4 DEF Promised
    <3>6. \A i \in DOMAIN answers' :
            (i \in DOMAIN answers /\ answers'[i] = answers[i]) \/ (i = Len(answers) + 1 /\ answers'[i] = m)
      BY <2>2
    <3>7. \A i \in DOMAIN answers : answers[i].kind = "post" =>
            answers[i].session # m.session /\ StillFresh(answers[i].session)
      BY <1>2, <3>2, <3>4 DEF Promised
    <3>8. \A i \in DOMAIN answers : answers[i].kind = "post" =>
            roomOf'[answers[i].session] = answers[i].room
      BY <1>2, <3>2, <3>4 DEF Promised
    <3>9. ASSUME NEW i \in DOMAIN answers', answers'[i].kind = "post"
          PROVE  /\ StillFresh(answers'[i].session)
                 /\ roomOf'[answers'[i].session] = answers'[i].room
                 /\ Opening' => answers'[i].session # console'.id
                 /\ \A j \in DOMAIN answers' :
                      answers'[j].kind = "post" /\ j # i => answers'[j].session # answers'[i].session
      <4>1. CASE i \in DOMAIN answers /\ answers'[i] = answers[i]
        BY <1>2, <2>1, <3>6, <3>7, <3>8, <3>9, <4>1 DEF Promised
      <4>2. CASE i = Len(answers) + 1 /\ answers'[i] = m
        BY <2>1, <3>2, <3>4, <3>5, <3>6, <3>7, <4>2
      <4> QED BY <3>6, <4>1, <4>2
    <3>10. Opening' => StillFresh(console'.id)
      BY <2>1, <3>4, <3>5
    <3> QED BY <3>9, <3>10 DEF Promised, Fresh, StillFresh
  <2> QED BY <2>2, <2>4, <2>5
<1>9. CASE \/ OpenControl \/ PostVoice \/ MakeSocket \/ MakeNotification \/ SendHello
           \/ ReceiveHello \/ NoHello \/ MakeSpeaker \/ Save \/ Failed \/ Ask
  <2>1. UNCHANGED <<answers, roomOf, held, id, closer>>
    BY <1>9 DEF OpenControl, PostVoice, Request, MakeSocket, MakeNotification, SendHello,
         ReceiveHello, NoHello, MakeSpeaker, Save, Failed, Ask, exchange, server, session
  <2>2. Opening' => Opening
    BY <1>9, ConsoleSteps, CommandSteps
       DEF MakeSocket, MakeNotification, SendHello, ReceiveHello, At
  <2>3. SameConnect
    BY <1>9, ConsoleSteps, CommandSteps
  <2> QED BY <1>2, <2>1, <2>2, <2>3, SamePromised DEF SameConnect
<1>10. CASE KeysPatch \/ CloserDeletes \/ Register
            \/ \E hello \in network : AnswerHello(hello) \/ LoseHello(hello)
  <2>1. UNCHANGED <<answers, roomOf, held, id, console>> /\ closer'.session = closer.session
    BY <1>10, CloserSteps DEF KeysPatch, CloserDeletes, Request, Register, AnswerHello,
         LoseHello, exchange, server, session
  <2> QED BY <1>2, <2>1, SamePromised
<1>11. CASE Quiet
  BY <1>2, <1>11, QuietSteps, SamePromised DEF exchange, server, session
<1> QED BY <1>3, <1>4, <1>5, <1>6, <1>7, <1>8, <1>9, <1>10, <1>11 DEF Next, Connecting, Quiet

-----------------------------------------------------------------------------
(* What a connect makes.                                                   *)

\* What a connect has made by the step it is at, and what is left of it when it is done.
BuiltInv ==
  /\ console.at \in {"hello", "wait", "microphone", "speaker", "save"} => notification = socket
  /\ console.at \in {"microphone", "speaker", "save"} => <<socket, console.id>> \in heard
  /\ console.at \in {"speaker", "save"} => id = console.id /\ microphone = socket
  /\ console.at = "save" => speaker = socket
  /\ console.at \notin {"idle", "asked"} => ~connected
  /\ ConnectedWhole

LEMMA SameBuilt ==
  ASSUME BuiltInv, UNCHANGED <<socket, notification, microphone, speaker, id, connected>>,
         heard \subseteq heard',
         \/ console'.at = console.at /\ console'.id = console.id
         \/ console.at \notin {"idle", "asked"}
            /\ console'.at \in {"open", "post", "read", "socket", "notify", "failed", "idle"}
         \/ console'.at \in {"idle", "asked"}
  PROVE  BuiltInv'
BY DEF BuiltInv, ConnectedWhole

LEMMA NextBuilt ==
  ASSUME TypesInv, SessionsInv, BuiltInv, Next
  PROVE  BuiltInv'
<1>1. Types /\ Stage
  BY TypesAre DEF TypesInv
<1>2. Alive /\ Promised
  BY DEF SessionsInv
<1>3. CASE MakeSocket
  <2>1. /\ UNCHANGED <<notification, microphone, speaker, id, connected, heard>>
        /\ console.at = "socket"
    BY <1>3 DEF MakeSocket, At, session, server
  <2>2. CASE console'.at = "notify"
    BY <2>1, <2>2 DEF BuiltInv, ConnectedWhole
  <2>3. CASE console'.at \in {"open", "failed"} /\ UNCHANGED socket
    BY <2>1, <2>3, SameBuilt
  <2> QED BY <1>3, <2>2, <2>3, ConsoleSteps
<1>4. CASE MakeNotification
  <2>1. UNCHANGED <<socket, microphone, speaker, id, connected, heard>> /\ console.at = "notify"
    BY <1>4 DEF MakeNotification, At, session, server
  <2>2. CASE console'.at = "hello" /\ notification' = socket
    BY <2>1, <2>2 DEF BuiltInv, ConnectedWhole
  <2>3. CASE console'.at \in {"open", "failed"} /\ UNCHANGED notification
    BY <2>1, <2>3, SameBuilt
  <2> QED BY <1>4, <2>2, <2>3, ConsoleSteps
<1>5. CASE SendHello
  <2>1. /\ UNCHANGED <<socket, notification, microphone, speaker, id, connected, heard>>
        /\ console.at = "hello"
    BY <1>5 DEF SendHello, At, session, server, objects
  <2>2. console'.at = "wait" /\ SameConnect
    BY <1>5, ConsoleSteps
  <2> QED BY <2>1, <2>2 DEF BuiltInv, ConnectedWhole
<1>6. CASE ReceiveHello
  <2>1. /\ UNCHANGED <<socket, notification, microphone, speaker, id, connected, heard>>
        /\ console.at = "wait"
    BY <1>6 DEF ReceiveHello, At, session, server, objects
  <2>2. CASE console'.at = "wait" /\ SameConnect
    BY <2>1, <2>2, SameBuilt DEF SameConnect
  <2>3. CASE console'.at = "microphone" /\ SameConnect /\ <<socket, console.id>> \in inbox
    <3>1. console.id \in held
      BY <1>2, <2>1 DEF Promised, Opening, Fresh
    <3>2. <<socket, console.id>> \in heard
      BY <1>2, <2>3, <3>1 DEF Alive
    <3> QED BY <2>1, <2>3, <3>2 DEF BuiltInv, ConnectedWhole, SameConnect
  <2> QED BY <1>6, <2>2, <2>3, ConsoleSteps
<1>7. CASE MakeMicrophone
  <2>1. /\ UNCHANGED <<socket, notification, speaker, connected, heard>>
        /\ console.at = "microphone" /\ id' = console.id /\ microphone' = socket
    BY <1>7 DEF MakeMicrophone, NewId, At, server
  <2>2. console'.at = "speaker" /\ SameConnect
    BY <1>7, ConsoleSteps
  <2> QED BY <2>1, <2>2 DEF BuiltInv, ConnectedWhole, SameConnect
<1>8. CASE MakeSpeaker
  <2>1. /\ UNCHANGED <<socket, notification, microphone, id, connected, heard>>
        /\ console.at = "speaker" /\ speaker' = socket
    BY <1>8 DEF MakeSpeaker, At, session, server
  <2>2. console'.at = "save" /\ SameConnect
    BY <1>8, ConsoleSteps
  <2> QED BY <2>1, <2>2 DEF BuiltInv, ConnectedWhole, SameConnect
<1>9. CASE Save
  <2>1. /\ UNCHANGED <<socket, notification, microphone, speaker, id, heard>>
        /\ console.at = "save"
    BY <1>9 DEF Save, At, objects, server
  <2>2. console'.at = "idle" /\ SameConnect
    BY <1>9, ConsoleSteps
  <2>3. socket # 0
    BY <1>1, <2>1, Numbers DEF Stage, HasSocket, HasId
  <2> QED BY <2>1, <2>2, <2>3 DEF BuiltInv, ConnectedWhole
<1>10. ASSUME NEW r \in Rooms, Connect(r) PROVE BuiltInv'
  <2>1. console'.at = "open" /\ ~connected'
    BY <1>10 DEF Connect
  <2> QED BY <2>1 DEF BuiltInv, ConnectedWhole
<1>11. CASE \/ OpenControl \/ PostVoice \/ ReadId \/ NoHello \/ Failed
  <2>1. /\ UNCHANGED <<socket, notification, microphone, speaker, id, connected, heard>>
        /\ console.at \notin {"idle", "asked"}
    BY <1>11 DEF OpenControl, PostVoice, ReadId, NoHello, Failed, At, objects, session, server
  <2>2. console'.at \in {"open", "post", "read", "socket", "failed", "idle"}
    BY <1>11, ConsoleSteps
  <2> QED BY <2>1, <2>2, SameBuilt
<1>12. CASE Ask \/ ReadUsers
  <2>1. UNCHANGED <<socket, notification, microphone, speaker, id, connected, heard>>
    BY <1>12 DEF Ask, ReadUsers, objects, session, server
  <2>2. console'.at \in {"idle", "asked"} \/ UNCHANGED console
    BY <1>12, CommandSteps
  <2> QED BY <2>1, <2>2, SameBuilt
<1>13. CASE Register \/ KeysPatch \/ KeysRead \/ Close \/ CloserDeletes \/ CloserReads \/ Serve
            \/ \E hello \in network : AnswerHello(hello) \/ LoseHello(hello)
  <2>1. /\ UNCHANGED <<socket, notification, microphone, speaker, id, connected, console>>
        /\ heard \subseteq heard'
    BY <1>13 DEF Register, KeysPatch, KeysRead, Close, CloserDeletes, CloserReads, Serve,
         AnswerHello, LoseHello, objects, session, server
  <2> QED BY <2>1, SameBuilt
<1>14. CASE Quiet
  BY <1>14, QuietSteps, SameBuilt DEF objects, session, server
<1> QED BY <1>3, <1>4, <1>5, <1>6, <1>7, <1>8, <1>9, <1>10, <1>11, <1>12, <1>13, <1>14
        DEF Next, Connecting, Quiet

-----------------------------------------------------------------------------
(* The room of the session, and the close handler.                         *)

LEMMA StaysUndisturbed ==
  ASSUME TypesInv, Next, Undisturbed'
  PROVE  Undisturbed
<1>1. timeouts \in 0..MaxTimeouts /\ overlapped \in BOOLEAN
  BY TypesAre DEF TypesInv, Types, ExchangeType
<1>2. timeouts' = timeouts \/ timeouts' = timeouts + 1
  BY ExchangeSteps DEF Request, Answered, TimesOut, Serve, exchange
<1>3. overlapped => overlapped'
  BY <1>1, ExchangeSteps DEF Request, Answered, TimesOut, Serve, exchange
<1> QED BY <1>1, <1>2, <1>3, ConstantsAssumption DEF Undisturbed, ConstantsAssumption

LEMMA RequestAlone ==
  ASSUME NEW t \in Threads, NEW k \in Kinds, NEW r \in Rooms \cup {NoRoom},
         NEW s \in {0} \cup Sessions, Request(t, k, r, s), Undisturbed'
  PROVE  Readers = {}
BY DEF Request, Undisturbed

\* From the request of a connect to the settings it writes, one room; only between the new
\* id and the new name the two differ.
RoomsInv ==
  /\ connects = 0 => id = 0 /\ console.at \in {"idle", "asked"}
  /\ ~registered /\ console.at \notin {"idle", "speaker", "save"} => id = 0
  /\ Undisturbed =>
       /\ console.at = "read" =>
            /\ \A i \in DOMAIN requests : requests[i].room = console.room
            /\ \A i \in DOMAIN answers : answers[i].room = console.room
       /\ HasId => roomOf[console.id] = console.room
       /\ id # 0 /\ console.at \notin {"speaker", "save"} => roomOf[id] = room

\* Steps that add nothing to what is on its way.
LEMMA SameRooms ==
  ASSUME RoomsInv, UNCHANGED <<roomOf, id, room>>, SameConnect, Undisturbed' => Undisturbed,
         connects' = connects, registered => registered',
         console'.at = "read" =>
           /\ console.at = "read" /\ UNCHANGED requests
           /\ answers' = answers \/ (Answered /\ ExchangeType),
         HasId' => HasId,
         console.at \in {"speaker", "save"} => console'.at \in {"speaker", "save"},
         console'.at = console.at \/ console.at \notin {"idle", "asked"},
         console'.at = console.at \/ console.at \notin {"speaker", "save"}
                                  \/ console'.at \in {"speaker", "save"}
  PROVE  RoomsInv'
<1>1. Undisturbed' /\ console'.at = "read" =>
        /\ \A i \in DOMAIN requests' : requests'[i].room = console'.room
        /\ \A i \in DOMAIN answers' : answers'[i].room = console'.room
  BY AnsweredTypes DEF RoomsInv, SameConnect, ExchangeType
<1>2. Undisturbed' =>
        /\ HasId' => roomOf'[console'.id] = console'.room
        /\ id' # 0 /\ console'.at \notin {"speaker", "save"} => roomOf'[id'] = room'
  BY DEF RoomsInv, SameConnect
<1>3. /\ connects' = 0 => id' = 0 /\ console'.at \in {"idle", "asked"}
      /\ ~registered' /\ console'.at \notin {"idle", "speaker", "save"} => id' = 0
  BY DEF RoomsInv
<1> QED BY <1>1, <1>2, <1>3 DEF RoomsInv

LEMMA NextRooms ==
  ASSUME TypesInv, ExchangeInv, SessionsInv, BuiltInv, RoomsInv, Next
  PROVE  RoomsInv'
<1>1. Types /\ ExchangeType /\ connects \in Nat
  BY TypesAre, ConstantsAssumption
     DEF TypesInv, Types, CountersType, ConstantsAssumption
<1>2. Undisturbed' => Undisturbed
  BY StaysUndisturbed
<1>3. Alive /\ Asked /\ Promised
  BY DEF SessionsInv
<1>4. CASE PostVoice
  <2>1. /\ UNCHANGED <<roomOf, id, room, registered, connects>> /\ console.at = "post"
        /\ SameConnect
    BY <1>4, ConsoleSteps DEF PostVoice, At, server, session, main, counters
  <2>2. CASE UNCHANGED exchange /\ console'.at \in {"open", "failed"}
    BY <1>2, <2>1, <2>2, SameRooms DEF HasId
  <2>3. CASE Request("console", "post", console.room, 0) /\ console'.at = "read"
    <3>1. /\ "console" \in Threads /\ "post" \in Kinds /\ 0 \in {0} \cup Sessions
          /\ console.room \in Rooms \cup {NoRoom}
      BY <1>1 DEF Threads, Kinds, Types, ConsoleRec
    <3> DEFINE m == [by |-> "console", kind |-> "post", room |-> console.room, session |-> 0]
    <3>2. m \in Message /\ m.room = console.room
      BY <3>1 DEF Message, Threads
    <3>3. requests' = Append(requests, m) /\ UNCHANGED answers
      BY <2>3 DEF Request
    <3> HIDE DEF m
    <3>4. ASSUME Undisturbed'
          PROVE  /\ \A i \in DOMAIN requests' : requests'[i].room = console'.room
                 /\ \A i \in DOMAIN answers' : answers'[i].room = console'.room
      <4>1. Readers = {}
        BY <2>3, <3>1, <3>4, RequestAlone
      <4>2. requests = <<>> /\ answers = <<>>
        BY <1>1, <1>2, <3>4, <4>1 DEF ExchangeInv, ExchangeType
      <4>3. \A i \in DOMAIN requests' : requests'[i] = m
        BY <3>2, <3>3, <4>2
      <4> QED BY <2>1, <3>2, <3>3, <4>2, <4>3 DEF SameConnect
    <3> QED BY <1>2, <2>1, <2>3, <3>4 DEF RoomsInv, HasId
  <2> QED BY <1>4, <2>2, <2>3, ConsoleSteps
<1>5. CASE ReadId
  <2>1. /\ UNCHANGED <<roomOf, id, room, registered, connects>> /\ console.at = "read"
    BY <1>5 DEF ReadId, At, server, session, main, counters
  <2>2. CASE SameConnect /\ console'.at \in {"open", "failed"}
    BY <1>2, <2>1, <2>2, SameRooms DEF HasId
  <2>3. CASE /\ Answered /\ Head(answers).kind = "post" /\ console'.at = "socket"
             /\ console'.room = console.room /\ console'.id = Head(answers).session
    <3>1. 1 \in DOMAIN answers /\ Head(answers) = answers[1]
      BY <1>1, <2>3, AnsweredTypes DEF ExchangeType
    <3>2. roomOf[console'.id] = answers[1].room
      BY <1>3, <2>3, <3>1 DEF Promised
    <3>3. Undisturbed' => roomOf'[console'.id] = console'.room
      BY <1>2, <2>1, <2>3, <3>1, <3>2 DEF RoomsInv
    <3> QED BY <1>2, <2>1, <2>3, <3>3 DEF RoomsInv
  <2> QED BY <1>5, <2>2, <2>3, ConsoleSteps
<1>6. CASE MakeMicrophone
  <2>1. /\ UNCHANGED <<roomOf, registered, connects>> /\ console.at = "microphone"
    BY <1>6 DEF MakeMicrophone, At, server, main, counters
  <2>2. SameConnect /\ console'.at = "speaker"
    BY <1>6, ConsoleSteps
  <2> QED BY <1>2, <2>1, <2>2 DEF RoomsInv, SameConnect, HasId
<1>7. CASE Save
  <2>1. /\ UNCHANGED <<roomOf, registered, connects, id>> /\ console.at = "save"
        /\ room' = console.room
    BY <1>7 DEF Save, SavedRoom, At, server, main, counters
  <2>2. SameConnect /\ console'.at = "idle"
    BY <1>7, ConsoleSteps
  <2>3. id = console.id
    BY <2>1 DEF BuiltInv
  <2> QED BY <1>2, <2>1, <2>2, <2>3 DEF RoomsInv, HasId
<1>8. CASE Failed
  <2>1. /\ UNCHANGED <<roomOf, registered, connects, id>> /\ console.at = "failed"
        /\ room' = IF registered THEN room ELSE NoRoom
    BY <1>8 DEF Failed, At, server, main, counters
  <2>2. SameConnect /\ console'.at = "idle"
    BY <1>8, ConsoleSteps
  <2> QED BY <1>2, <2>1, <2>2 DEF RoomsInv, HasId
<1>9. ASSUME NEW r \in Rooms, Connect(r) PROVE RoomsInv'
  <2>1. /\ UNCHANGED <<roomOf, registered, id, room>> /\ console.at = "idle"
        /\ console'.at = "open" /\ (registered \/ connects = 0) /\ connects' # 0
    BY <1>1, <1>9 DEF Connect, At, server, main
  <2> QED BY <1>2, <2>1 DEF RoomsInv, HasId
<1>10. CASE Serve
  <2>1. UNCHANGED <<registered, console, id, room, connects>>
    BY <1>10 DEF Serve, main, session, counters
  <2>2. /\ \A i \in DOMAIN requests' : i + 1 \in DOMAIN requests /\ requests'[i] = requests[i+1]
        /\ 1 \in DOMAIN requests
        /\ \A i \in DOMAIN answers' :
             \/ i \in DOMAIN answers /\ answers'[i] = answers[i]
             \/ answers'[i].room = requests[1].room
    BY <1>10, ServeTypes DEF TypesInv
  <2>3. \A s \in Sessions : roomOf[s] # NoRoom => roomOf'[s] = roomOf[s]
    <3>1. roomOf \in [Sessions -> Rooms \cup {NoRoom}]
      BY <1>1 DEF Types, ServerType
    <3> QED BY <1>10, <3>1, ServeTypes DEF TypesInv
  <2>4. HasId => roomOf'[console.id] = roomOf[console.id] \/ roomOf[console.id] # console.room
    <3>1. HasId => console.room # NoRoom
      BY <1>3, ConstantsAssumption DEF Asked, HasId, ConstantsAssumption
    <3>2. HasId => console.id \in Sessions
      BY DEF TypesInv, Stage
    <3> QED BY <2>3, <3>1, <3>2
  <2>5. id # 0 => roomOf'[id] = roomOf[id]
    BY <1>1, <1>3, <2>3 DEF Alive, Types, SessionType
  <2>6. Undisturbed' /\ console'.at = "read" =>
          /\ \A i \in DOMAIN requests' : requests'[i].room = console'.room
          /\ \A i \in DOMAIN answers' : answers'[i].room = console'.room
    BY <1>2, <2>1, <2>2 DEF RoomsInv
  <2> QED BY <1>2, <2>1, <2>4, <2>5, <2>6 DEF RoomsInv, HasId
<1>11. CASE Ask
  <2>1. UNCHANGED <<roomOf, registered, connects, id, room>> /\ registered /\ console.at = "idle"
    BY <1>11 DEF Ask, At, server, session
  <2>2. SameConnect /\ console'.at \in {"idle", "asked"}
    BY <1>11, <2>1, CommandSteps
  <2> QED BY <1>2, <2>1, <2>2 DEF RoomsInv, HasId
<1>12. CASE ReadUsers
  <2>1. UNCHANGED <<roomOf, registered, connects, id, room>> /\ console.at = "asked"
    BY <1>12 DEF ReadUsers, At, server, session, counters
  <2>2. SameConnect /\ console'.at \in {"idle", "asked"}
    BY <1>12, CommandSteps
  <2> QED BY <1>2, <2>1, <2>2 DEF RoomsInv, HasId
<1>13. CASE KeysPatch \/ CloserDeletes
  <2>1. UNCHANGED <<roomOf, id, room, registered, connects, console>>
    BY <1>13 DEF KeysPatch, CloserDeletes, server, session, main, counters
  <2>2. CASE UNCHANGED exchange
    BY <1>2, <2>1, <2>2, SameRooms DEF SameConnect, HasId, exchange
  <2>3. ASSUME NEW t \in Threads, NEW k \in Kinds, NEW r \in Rooms \cup {NoRoom},
               NEW s \in {0} \cup Sessions, Request(t, k, r, s)
        PROVE  RoomsInv'
    <3>1. Undisturbed' => console.at # "read"
      BY <2>3, RequestAlone DEF Readers
    <3> QED BY <1>2, <2>1, <3>1 DEF RoomsInv, HasId
  <2>4. /\ "keys" \in Threads /\ "closer" \in Threads /\ "patch" \in Kinds /\ "delete" \in Kinds
        /\ room \in Rooms \cup {NoRoom} /\ closer.room \in Rooms \cup {NoRoom}
        /\ id \in {0} \cup Sessions /\ closer.session \in {0} \cup Sessions
    BY <1>1 DEF Threads, Kinds, Types, SessionType, CloserType
  <2> QED BY <1>13, <2>2, <2>3, <2>4 DEF KeysPatch, CloserDeletes
<1>14. CASE KeysRead \/ CloserReads
  <2>1. UNCHANGED <<roomOf, id, room, registered, connects, console>>
    BY <1>14 DEF KeysRead, CloserReads, server, session, main, counters
  <2>2. UNCHANGED requests /\ (answers' = answers \/ Answered)
    BY <1>14 DEF KeysRead, CloserReads, Answered, TimesOut, exchange
  <2> QED BY <1>1, <1>2, <2>1, <2>2, SameRooms DEF SameConnect, HasId
<1>15. CASE \/ OpenControl \/ MakeSocket \/ MakeNotification \/ SendHello \/ ReceiveHello
            \/ NoHello \/ MakeSpeaker
  <2>1. UNCHANGED <<roomOf, id, room, registered, connects>>
    BY <1>15 DEF OpenControl, MakeSocket, MakeNotification, SendHello, ReceiveHello, NoHello,
         MakeSpeaker, server, session, main, counters
  <2>2. SameConnect /\ console'.at # "read"
    BY <1>15, ConsoleSteps
  <2>3. /\ HasId' => HasId
        /\ console.at \in {"speaker", "save"} => console'.at \in {"speaker", "save"}
        /\ console.at \notin {"idle", "asked"}
    BY <1>15, ConsoleSteps DEF OpenControl, MakeSocket, MakeNotification, SendHello,
         ReceiveHello, NoHello, MakeSpeaker, At, HasId
  <2> QED BY <1>2, <2>1, <2>2, <2>3, SameRooms
<1>16. CASE Register \/ Close \/ \E hello \in network : AnswerHello(hello) \/ LoseHello(hello)
  <2>1. /\ UNCHANGED <<roomOf, id, room, connects, console, requests, answers>>
        /\ registered => registered'
    BY <1>16 DEF Register, Close, AnswerHello, LoseHello, server, session, main, counters, exchange
  <2> QED BY <1>2, <2>1, SameRooms DEF SameConnect, HasId
<1>17. CASE Quiet
  <2>1. UNCHANGED <<roomOf, id, room, connects, registered, console, requests, answers>>
    BY <1>17, QuietSteps DEF server, session, exchange
  <2> QED BY <1>2, <2>1, SameRooms DEF SameConnect, HasId
<1> QED BY <1>4, <1>5, <1>6, <1>7, <1>8, <1>9, <1>10, <1>11, <1>12, <1>13, <1>14, <1>15,
           <1>16, <1>17 DEF Next, Connecting, Quiet

\* The close handler has the session and the room of the settings; while it waits, its
\* request is on its way or the session is gone.
ClosingInv ==
  /\ closer.at = "none" => closer.session = 0
  /\ Undisturbed /\ closer.calm =>
       /\ closer.session # 0 => roomOf[closer.session] = closer.room
       /\ closer.at = "read" =>
            \/ \E i \in DOMAIN requests : requests[i].kind = "delete"
            \/ closer.session \notin held
  /\ CloseRemovesSession

LEMMA SameClosing ==
  ASSUME ClosingInv, UNCHANGED <<closer, roomOf, held>>, Undisturbed' => Undisturbed,
         status' # "closed",
         \A i \in DOMAIN requests : i \in DOMAIN requests' /\ requests'[i] = requests[i]
  PROVE  ClosingInv'
BY DEF ClosingInv, CloseRemovesSession

LEMMA NextClosing ==
  ASSUME TypesInv, ExchangeInv, SessionsInv, RoomsInv, ClosingInv, Next
  PROVE  ClosingInv'
<1>1. Types /\ ExchangeType /\ requests \in Seq(Message) /\ answers \in Seq(Message)
  BY TypesAre DEF TypesInv, Types, ExchangeType
<1>2. Undisturbed' => Undisturbed
  BY StaysUndisturbed
<1>3. Alive /\ Asked
  BY DEF SessionsInv
<1>4. CASE Close
  <2>1. /\ UNCHANGED <<roomOf, id, room>> /\ status' # "closed"
        /\ closer'.at = "send" /\ closer'.room = room /\ closer'.session = id
        /\ closer'.calm = (console.at = "idle")
    BY <1>4, CloserSteps DEF Close, Running, server, session
  <2> QED BY <1>2, <2>1 DEF ClosingInv, CloseRemovesSession, RoomsInv
<1>5. CASE CloserDeletes
  <2>1. /\ UNCHANGED <<roomOf, held>> /\ closer.at = "send" /\ closer'.room = closer.room
        /\ closer'.session = closer.session /\ closer'.calm = closer.calm
        /\ status = "running"
    BY <1>5, CloserSteps DEF CloserDeletes, Running, server
  <2>2. CASE /\ Request("closer", "delete", closer.room, closer.session)
             /\ closer'.at = "read" /\ UNCHANGED status
    <3> DEFINE m == [by |-> "closer", kind |-> "delete", room |-> closer.room,
                     session |-> closer.session]
    <3>1. m \in Message /\ m.kind = "delete"
      BY <1>1 DEF Message, Kinds, Types, CloserType
    <3>2. requests' = Append(requests, m)
      BY <2>2 DEF Request
    <3> HIDE DEF m
    <3>3. Len(requests) + 1 \in DOMAIN requests' /\ requests'[Len(requests) + 1] = m
      BY <1>1, <3>1, <3>2
    <3> QED BY <1>2, <2>1, <2>2, <3>1, <3>3 DEF ClosingInv, CloseRemovesSession
  <2>3. CASE control # "open" /\ UNCHANGED <<exchange, closer>>
    <3>1. control' # "open" /\ UNCHANGED requests
      BY <2>3 DEF exchange
    <3> QED BY <1>2, <2>1, <2>3, <3>1 DEF ClosingInv, CloseRemovesSession
  <2> QED BY <1>5, <2>2, <2>3, CloserSteps
<1>6. CASE CloserReads
  <2>1. UNCHANGED <<roomOf, held, closer, requests>> /\ closer.at = "read"
    BY <1>6 DEF CloserReads, Answered, TimesOut, exchange, server
  <2>2. (Undisturbed' /\ closer.calm /\ control' = "open") => closer.session \notin held
    <3>1. CASE TimesOut
      <4>1. (control = "broken" /\ control' = control) \/ timeouts' = timeouts + 1
        BY <3>1 DEF TimesOut, exchange
      <4>2. timeouts \in Nat
        BY <1>1, ConstantsAssumption DEF ExchangeType, ConstantsAssumption
      <4> QED BY <4>1, <4>2 DEF Undisturbed
    <3>2. CASE Answered
      <4>1. Len(answers) >= 1
        BY <1>1, <3>2 DEF Answered
      <4>2. Undisturbed' => Len(requests) = 0
        BY <1>1, <1>2, <4>1 DEF ExchangeInv
      <4>3. Undisturbed' => DOMAIN requests = {}
        BY <1>1, <4>2
      <4> QED BY <1>2, <2>1, <4>3 DEF ClosingInv
    <3> QED BY <1>6, <3>1, <3>2 DEF CloserReads
  <2> QED BY <1>2, <2>1, <2>2 DEF ClosingInv, CloseRemovesSession
<1>7. CASE Serve
  <2>1. UNCHANGED <<closer, status>> /\ status = "running"
    BY <1>7 DEF Serve, main, Running
  <2>2. /\ \A s \in Sessions : roomOf[s] # NoRoom =>
             /\ roomOf'[s] = roomOf[s]
             /\ s \in held' => s \in held
        /\ requests[1].kind = "delete" =>
             (requests[1].room = roomOf[requests[1].session] => requests[1].session \notin held')
        /\ 1 \in DOMAIN requests /\ held' \subseteq Sessions
    <3>1. roomOf \in [Sessions -> Rooms \cup {NoRoom}] /\ held \subseteq Sessions
      BY <1>1 DEF Types, ServerType
    <3> QED BY <1>7, <3>1, ServeTypes DEF TypesInv
  <2>3. closer.session # 0 =>
          /\ roomOf'[closer.session] = roomOf[closer.session]
          /\ closer.session \in held' => closer.session \in held
    BY <1>1, <1>3, <2>2 DEF Alive, Types, CloserType
  <2>4. closer.session = 0 => closer.session \notin held'
    BY <2>2, Numbers
  <2>5. (Undisturbed' /\ closer.calm /\ closer.at = "read") => closer.session \notin held'
    <3> SUFFICES ASSUME Undisturbed, closer.calm, closer.at = "read", closer.session # 0
                 PROVE  closer.session \notin held'
      BY <1>2, <2>4
    <3>1. CASE closer.session \notin held
      BY <2>3, <3>1
    <3>2. CASE \E i \in DOMAIN requests : requests[i].kind = "delete"
      <4>1. Len(requests) <= 1
        BY <1>1 DEF ExchangeInv
      <4>2. requests[1].kind = "delete"
        BY <1>1, <3>2, <4>1
      <4>3. requests[1].session = closer.session /\ requests[1].room = closer.room
        BY <1>3, <2>2, <4>2 DEF Asked
      <4> QED BY <2>2, <4>2, <4>3 DEF ClosingInv
    <3> QED BY <3>1, <3>2 DEF ClosingInv
  <2> QED BY <1>2, <2>1, <2>3, <2>5 DEF ClosingInv, CloseRemovesSession
<1>8. CASE \/ \E r \in Rooms : Connect(r)
           \/ Register \/ OpenControl \/ ReadId \/ MakeSocket \/ MakeNotification \/ SendHello
           \/ ReceiveHello \/ NoHello \/ MakeMicrophone \/ MakeSpeaker \/ Save \/ Failed
           \/ ReadUsers \/ KeysRead
           \/ \E hello \in network : AnswerHello(hello) \/ LoseHello(hello)
  <2>1. UNCHANGED <<closer, roomOf, held, requests>> /\ status' # "closed"
    BY <1>8 DEF Connect, Register, OpenControl, ReadId, MakeSocket, MakeNotification, SendHello,
         ReceiveHello, NoHello, MakeMicrophone, MakeSpeaker, Save, Failed, ReadUsers, KeysRead,
         AnswerHello, LoseHello, Answered, TimesOut, exchange, server, main, At, Running
  <2> QED BY <1>2, <2>1, SameClosing
<1>9. CASE PostVoice \/ Ask \/ KeysPatch
  <2>1. UNCHANGED <<closer, roomOf, held>> /\ status' # "closed"
    BY <1>9 DEF PostVoice, Ask, KeysPatch, server, main, At, Running
  <2>2. ASSUME NEW t, NEW k, NEW r, NEW s, Request(t, k, r, s)
        PROVE  \A i \in DOMAIN requests : i \in DOMAIN requests' /\ requests'[i] = requests[i]
    BY <1>1, <2>2 DEF Request
  <2>3. \A i \in DOMAIN requests : i \in DOMAIN requests' /\ requests'[i] = requests[i]
    BY <1>9, <2>2 DEF PostVoice, Ask, KeysPatch, exchange
  <2> QED BY <1>2, <2>1, <2>3, SameClosing
<1>10. CASE Quiet
  BY <1>2, <1>10, QuietSteps, SameClosing DEF exchange, server
<1> QED BY <1>4, <1>5, <1>6, <1>7, <1>8, <1>9, <1>10 DEF Next, Connecting, Quiet

-----------------------------------------------------------------------------
WholeInv == ExchangeInv /\ SessionsInv /\ BuiltInv /\ RoomsInv /\ ClosingInv

LEMMA InitWhole == Init => WholeInv
<1> SUFFICES ASSUME Init PROVE WholeInv
  OBVIOUS
<1>1. ExchangeInv
  BY DEF Init, ExchangeInv, Readers
<1>2. SessionsInv
  BY DEF Init, SessionsInv, Alive, Asked, Promised, Opening
<1>3. BuiltInv
  BY DEF Init, BuiltInv, ConnectedWhole
<1>4. RoomsInv
  BY DEF Init, RoomsInv, HasId
<1>5. ClosingInv
  BY DEF Init, ClosingInv, CloseRemovesSession
<1> QED BY <1>1, <1>2, <1>3, <1>4, <1>5 DEF WholeInv

LEMMA NextWhole == TypesInv /\ WholeInv /\ [Next]_vars => WholeInv'
<1> SUFFICES ASSUME TypesInv, WholeInv, [Next]_vars PROVE WholeInv'
  OBVIOUS
<1>1. CASE Next
  BY <1>1, NextExchange, NextAlive, NextAsked, NextPromised, NextBuilt, NextRooms, NextClosing
     DEF WholeInv, SessionsInv
<1>2. CASE UNCHANGED vars
  <2>1. ExchangeInv'
    BY <1>2, NextExchange DEF WholeInv
  <2>2. UNCHANGED <<main, console, closer, exchange, objects, session, server, datagrams, counters>>
    BY <1>2 DEF vars
  <2>3. SessionsInv'
    BY <2>2 DEF WholeInv, SessionsInv, Alive, Asked, Promised, Opening, Fresh, exchange, session,
         server, datagrams
  <2>4. BuiltInv'
    BY <2>2 DEF WholeInv, BuiltInv, ConnectedWhole, objects, session, server
  <2>5. RoomsInv'
    BY <2>2 DEF WholeInv, RoomsInv, HasId, Undisturbed, main, exchange, session, server, counters
  <2>6. ClosingInv'
    BY <2>2 DEF WholeInv, ClosingInv, CloseRemovesSession, Undisturbed, main, exchange, server
  <2> QED BY <2>1, <2>3, <2>4, <2>5, <2>6 DEF WholeInv
<1> QED BY <1>1, <1>2

\* Connect::run, with any number of attempts that fail anywhere, other threads on the same
\* stream, and hellos and answers that are lost: a client that is connected is so with
\* one attempt's sockets, audio, id and session; and it is in the room its settings name.
THEOREM ClientAlways == Spec => []ClientInv
<1>1. TypesInv /\ WholeInv => ClientInv
  <2> SUFFICES ASSUME TypesInv, WholeInv PROVE ClientInv
    OBVIOUS
  <2>1. TypeOK /\ ConnectedWhole
    BY DEF TypesInv, WholeInv, BuiltInv
  <2>2. RightRoom
    <3> SUFFICES ASSUME connected, Undisturbed PROVE roomOf[id] = room
      BY DEF RightRoom
    <3>1. console.at \notin {"speaker", "save"}
      BY DEF WholeInv, BuiltInv
    <3>2. <<socket, id>> \in heard /\ heard \subseteq Attempts \X Sessions
      BY <2>1, TypesAre DEF ConnectedWhole, Types, ServerType
    <3>3. id # 0
      BY <3>2, Numbers
    <3> QED BY <3>1, <3>3 DEF WholeInv, RoomsInv
  <2> QED BY <2>1, <2>2 DEF ClientInv
<1> QED BY <1>1, InitTypes, NextTypes, InitWhole, NextWhole, PTL DEF Spec

\* onExit: the window closed between two commands leaves no session behind.
THEOREM CloseRemovesSessionAlways == Spec => []CloseRemovesSession
<1>1. WholeInv => CloseRemovesSession
  BY DEF WholeInv, ClosingInv
<1> QED BY <1>1, InitTypes, NextTypes, InitWhole, NextWhole, PTL DEF Spec

-----------------------------------------------------------------------------
(* Before the second connect.                                              *)

\* The first connect makes each object once, so what a thread has taken is still the one
\* there is.
FirstObjects ==
  /\ connects = 0 => console.at \in {"idle", "asked"}
  /\ connects = 0 \/ console.at \in {"open", "post", "read", "socket", "notify"} =>
       notification = 0
  /\ connects = 0 \/ console.at \in {"open", "post", "read", "socket", "notify", "hello", "wait",
                                     "microphone", "failed"} =>
       microphone = 0 /\ speaker = 0
  /\ console.at = "speaker" => speaker = 0
  /\ microphone \in {0, socket} /\ speaker \in {0, socket}

FirstHeld ==
  /\ notifier.at = "receive" => notifier.held # 0 /\ notifier.held = notification
  /\ notifier.at = "use" => notifier.held # 0 /\ notifier.held = speaker
  /\ keys.at = "use" => keys.held # 0 /\ keys.held = speaker

FirstInv == connects <= 1 => FirstObjects /\ FirstHeld

LEMMA InitFirst == Init => FirstInv
BY DEF Init, FirstInv, FirstObjects, FirstHeld

\* A step of the console that makes nothing, towards a place where nothing more is there.
LEMMA SameFirst ==
  ASSUME FirstInv, UNCHANGED <<objects, connects, notifier, keys>>,
         \/ console'.at = console.at
         \/ /\ console.at \notin {"idle", "asked"}
            /\ console'.at \in {"open", "post", "read", "socket", "notify"} =>
                 console.at \in {"open", "post", "read", "socket", "notify"}
            /\ console'.at \in {"hello", "wait", "microphone", "failed"} =>
                 console.at \in {"open", "post", "read", "socket", "notify", "hello", "wait", "microphone"}
            /\ console'.at # "speaker"
         \/ console'.at \in {"idle", "asked"}
  PROVE  FirstInv'
BY DEF FirstInv, FirstObjects, FirstHeld, objects

LEMMA NextFirst == TypesInv /\ FirstInv /\ [Next]_vars => FirstInv'
<1> SUFFICES ASSUME TypesInv, FirstInv, Next PROVE FirstInv'
  BY DEF FirstInv, FirstObjects, FirstHeld, vars, objects, counters
<1>1. Types /\ Stage /\ connects \in Nat
  BY TypesAre, ConstantsAssumption DEF TypesInv, Types, CountersType, ConstantsAssumption
<1> USE DEF objects, counters
<1>2. CASE OpenControl \/ PostVoice \/ ReadId \/ SendHello \/ ReceiveHello \/ NoHello \/ Save \/ Failed
  <2>1. UNCHANGED <<objects, connects, notifier, keys>>
    BY <1>2 DEF OpenControl, PostVoice, ReadId, SendHello, ReceiveHello, NoHello, Save, Failed
  <2>2. /\ OpenControl => console.at = "open" /\ console'.at \in {"post", "open", "failed"}
        /\ PostVoice => console.at = "post" /\ console'.at \in {"read", "open", "failed"}
        /\ ReadId => console.at = "read" /\ console'.at \in {"socket", "open", "failed"}
        /\ SendHello => console.at = "hello" /\ console'.at = "wait"
        /\ ReceiveHello => console.at = "wait" /\ console'.at \in {"wait", "microphone"}
        /\ NoHello => console.at = "wait" /\ console'.at = "failed"
        /\ Save \/ Failed => console'.at = "idle"
    BY ConsoleSteps DEF OpenControl, PostVoice, ReadId, SendHello, ReceiveHello, NoHello, At
  <2>3. CASE OpenControl \/ PostVoice \/ ReadId
    BY <2>1, <2>2, <2>3, SameFirst
  <2>4. CASE SendHello \/ ReceiveHello \/ NoHello \/ Save \/ Failed
    BY <2>1, <2>2, <2>4, SameFirst
  <2> QED BY <1>2, <2>3, <2>4
<1>3. CASE MakeSocket
  <2>1. console.at = "socket"
        /\ UNCHANGED <<notification, microphone, speaker, connects, notifier, keys>>
    BY <1>3 DEF MakeSocket, At
  <2>2. \/ console'.at = "notify"
        \/ console'.at \in {"open", "failed"} /\ UNCHANGED socket
    BY <1>3, ConsoleSteps
  <2> QED BY <2>1, <2>2 DEF FirstInv, FirstObjects, FirstHeld
<1>4. CASE MakeNotification
  <2>1. console.at = "notify" /\ UNCHANGED <<socket, microphone, speaker, connects, notifier, keys>>
    BY <1>4 DEF MakeNotification, At
  <2>2. \/ console'.at = "hello" /\ notification' = socket
        \/ console'.at \in {"open", "failed"} /\ UNCHANGED notification
    BY <1>4, ConsoleSteps
  <2> QED BY <2>1, <2>2 DEF FirstInv, FirstObjects, FirstHeld
<1>5. CASE MakeMicrophone
  <2>1. console.at = "microphone" /\ console'.at = "speaker" /\ microphone' = socket
        /\ UNCHANGED <<socket, notification, speaker, connects, notifier, keys>>
    BY <1>5, ConsoleSteps DEF MakeMicrophone, At
  <2> QED BY <2>1 DEF FirstInv, FirstObjects, FirstHeld
<1>6. CASE MakeSpeaker
  <2>1. console.at = "speaker" /\ console'.at = "save" /\ speaker' = socket
        /\ UNCHANGED <<socket, notification, microphone, connects, notifier, keys>>
    BY <1>6, ConsoleSteps DEF MakeSpeaker, At
  <2> QED BY <2>1 DEF FirstInv, FirstObjects, FirstHeld
<1>7. ASSUME NEW r \in Rooms, Connect(r) PROVE FirstInv'
  <2>1. connects' = connects + 1 /\ console'.at = "open" /\ UNCHANGED <<objects, notifier, keys>>
    BY <1>7 DEF Connect
  <2> QED BY <1>1, <2>1 DEF FirstInv, FirstObjects, FirstHeld
<1>8. CASE Ask \/ ReadUsers
  <2>1. UNCHANGED <<objects, connects, notifier, keys>>
    BY <1>8 DEF Ask, ReadUsers
  <2>2. console'.at \in {"idle", "asked"} \/ UNCHANGED console
    BY <1>8, CommandSteps
  <2> QED BY <2>1, <2>2, SameFirst
<1>9. CASE Press
  BY <1>9 DEF Press, FirstInv, FirstObjects, FirstHeld
<1>10. CASE KeysFix \/ KeysPatch \/ KeysRead
  <2>1. keys'.at # "use" \/ UNCHANGED keys
    <3>1. keys \in [at : {"idle", "use", "send", "read"}, held : {0} \cup Attempts]
      BY <1>1 DEF Types, KeysType
    <3>2. [keys EXCEPT !.at = "send"].at = "send" /\ [keys EXCEPT !.at = "idle"].at = "idle"
      BY <3>1
    <3>3. KeysFix => keys'.at # "use" \/ UNCHANGED keys
      BY <3>2 DEF KeysFix
    <3>4. KeysPatch => keys'.at # "use"
      BY DEF KeysPatch, Waits
    <3>5. KeysRead => keys'.at # "use"
      BY <3>2 DEF KeysRead
    <3> QED BY <1>10, <3>3, <3>4, <3>5
  <2>2. UNCHANGED <<objects, connects, notifier, console>>
    BY <1>10 DEF KeysFix, KeysPatch, KeysRead
  <2> QED BY <2>1, <2>2 DEF FirstInv, FirstObjects, FirstHeld
<1>11. CASE NotifierLooks \/ NotifierReceives \/ NotifierTakes \/ NotifierFixes
  <2>1. \/ notifier'.at \in {"look", "take"}
        \/ UNCHANGED notifier
        \/ notifier'.at = "receive" /\ notifier'.held = notification /\ notification # 0
        \/ notifier'.at = "use" /\ notifier'.held = speaker /\ speaker # 0
    <3>1. [notifier EXCEPT !.at = "take"].at = "take"
      BY <1>1 DEF Types, NotifierType
    <3>2. NotifierLooks =>
            notifier'.at = "receive" /\ notifier'.held = notification /\ notification # 0
      BY DEF NotifierLooks
    <3>3. NotifierReceives => notifier'.at = "take"
      BY <3>1 DEF NotifierReceives
    <3>4. NotifierTakes => \/ UNCHANGED notifier
                           \/ notifier'.at = "use" /\ notifier'.held = speaker /\ speaker # 0
      BY DEF NotifierTakes
    <3>5. NotifierFixes => UNCHANGED notifier \/ notifier'.at = "look"
      BY DEF NotifierFixes
    <3> QED BY <1>11, <3>2, <3>3, <3>4, <3>5
  <2>2. UNCHANGED <<objects, connects, keys, console>>
    BY <1>11 DEF NotifierLooks, NotifierReceives, NotifierTakes, NotifierFixes
  <2> QED BY <2>1, <2>2 DEF FirstInv, FirstObjects, FirstHeld
<1>12. CASE UNCHANGED <<objects, connects, notifier, keys, console>>
  BY <1>12, SameFirst
<1>13. CASE \/ Register \/ AudioThrows \/ Exit \/ NotifierThrown \/ AudioRuns
            \/ Close \/ CloserDeletes \/ CloserReads \/ Serve \/ Notice
            \/ \E hello \in network : AnswerHello(hello) \/ LoseHello(hello)
  BY <1>12, <1>13 DEF Register, AudioThrows, Exit, NotifierThrown, AudioRuns, Close,
     CloserDeletes, CloserReads, Serve, Notice, AnswerHello, LoseHello
<1> QED BY <1>2, <1>3, <1>4, <1>5, <1>6, <1>7, <1>8, <1>9, <1>10, <1>11, <1>13 DEF Next, Connecting

LEMMA FirstStep ==
  ASSUME TypesInv, FirstInv, Next, status # "undefined", status' = "undefined", connects <= 1
  PROVE  \/ speaker = 0 /\ (presses' > presses \/ notifier.at = "take")
         \/ control = "none" /\ asks' > asks
<1>1. presses \in Nat /\ asks \in Nat
  BY TypesAre, ConstantsAssumption DEF TypesInv, Types, CountersType, ConstantsAssumption
<1>2. FirstObjects /\ FirstHeld
  BY DEF FirstInv
<1>3. /\ ~(KeysFix /\ keys.held # speaker) /\ ~NotifierThrown
      /\ ~(NotifierFixes /\ notifier.held # speaker) /\ ~AudioRuns
      /\ microphone \in {0, socket}
  BY <1>2 DEF FirstObjects, FirstHeld, KeysFix, NotifierThrown, NotifierFixes, AudioRuns
<1>4. Ask \/ Press \/ NotifierTakes
  BY <1>3 DEF Next, Connecting, Connect, Register, OpenControl, PostVoice, ReadId, MakeSocket,
     MakeNotification, SendHello, ReceiveHello, NoHello, MakeMicrophone, MakeSpeaker, Save, Failed,
     AudioThrows, ReadUsers, Exit, KeysFix, KeysPatch, KeysRead, NotifierLooks,
     NotifierReceives, NotifierFixes, Close, CloserDeletes, CloserReads, Serve,
     AnswerHello, LoseHello, Notice, main
<1>5. Ask => control = "none" /\ asks' > asks
  BY <1>1 DEF Ask
<1>6. Press => speaker = 0 /\ presses' > presses
  BY <1>1 DEF Press
<1>7. NotifierTakes => speaker = 0 /\ notifier.at = "take"
  BY DEF NotifierTakes
<1> QED BY <1>4, <1>5, <1>6, <1>7

\* The sharing of sockets and audio objects without a lock: up to the second connect only
\* the missing speaker and the missing stream are in the threads' way.
THEOREM FirstConnectSafeAlways == Spec => FirstConnectSafe
<1>1. TypesInv /\ FirstInv /\ [Next]_vars =>
        [(status # "undefined" /\ status' = "undefined" /\ connects <= 1)
           => \/ speaker = 0 /\ (presses' > presses \/ notifier.at = "take")
              \/ control = "none" /\ asks' > asks]_vars
  BY FirstStep
<1> QED BY <1>1, InitTypes, NextTypes, InitFirst, NextFirst, PTL DEF Spec, FirstConnectSafe

-----------------------------------------------------------------------------
(* The updater.                                                            *)

\* What an unfinished run has put into the temporary directory, and noted to remove.
Disk ==
  /\ pc \in {"kill", "check", "get"} => unpacked = None /\ cleanFiles = <<>>
  /\ pc = "unpack" => unpacked = None /\ cleanFiles = <<"zip">>
  /\ pc = "replace" => unpacked \in Versions /\ cleanFiles = <<"zip", "unpacked">>
  /\ pc = "clean" =>
       /\ cleanFiles = <<"zip", "unpacked">>
       /\ cleaned >= 1 => zip = None
       /\ cleaned = 2 => unpacked = None
  /\ pc = "catch" =>
       \/ unpacked \in {None, Damaged}
       \/ cleanFiles = <<"zip", "unpacked">> /\ cleaned < 2
  /\ pc \in {"start", "key"} => unpacked \in {None, Damaged}
  /\ pc = "start" /\ found # reported => zip = None /\ unpacked = None

\* Only a killed run leaves an archive for the next one to find, and only a run that could
\* not write its own goes on with it.
Archives ==
  /\ pc \in {"off", "kill", "check", "get", "start", "key"} => zip = None \/ killed
  /\ pc = "catch" => zip = None \/ killed \/ (cleanFiles # <<>> /\ cleaned = 0)
  /\ pc = "clean" => zip = None \/ killed \/ cleaned = 0
  /\ pc = "unpack" => zip \in {found, Damaged, None} \/ (unwritten /\ killed)
  /\ pc = "replace" => unpacked = found \/ (unwritten /\ killed)

\* replace goes on file by file.
Copied == pc = "replace" => \A f \in Files \ todo : installed[f] = unpacked

\* UpdaterTypeOK with the files to remove written out.
FilesTypes ==
  /\ latest \in Versions
  /\ installed \in [Files -> Versions \cup {Damaged}]
  /\ asking \in BOOLEAN /\ open \in BOOLEAN
  /\ pc \in {"off", "kill", "check", "get", "unpack", "replace", "clean", "start", "catch", "key"}
  /\ reported \in Versions /\ found \in Versions
  /\ zip \in Versions \cup {None, Damaged} /\ unpacked \in Versions \cup {None, Damaged}
  /\ \/ cleanFiles = <<>> /\ cleaned = 0
     \/ cleanFiles = <<"zip">> /\ cleaned \in {0, 1}
     \/ cleanFiles = <<"zip", "unpacked">> /\ cleaned \in {0, 1, 2}
  /\ todo \subseteq Files
  /\ failures \in 0 .. MaxFailures /\ releases \in 0 .. MaxReleases
  /\ unwritten \in BOOLEAN /\ killed \in BOOLEAN

LEMMA Lengths ==
  /\ Len(<<>>) = 0 /\ Len(<<"zip">>) = 1 /\ Len(<<"zip", "unpacked">>) = 2
  /\ <<"zip">>[1] = "zip"
  /\ <<"zip", "unpacked">>[1] = "zip" /\ <<"zip", "unpacked">>[2] = "unpacked"
  /\ <<>> # <<"zip">> /\ <<>> # <<"zip", "unpacked">> /\ <<"zip">> # <<"zip", "unpacked">>
<1>1. /\ Len(<<>>) = 0 /\ Len(<<"zip">>) = 1 /\ Len(<<"zip", "unpacked">>) = 2
      /\ <<"zip">>[1] = "zip"
      /\ <<"zip", "unpacked">>[1] = "zip" /\ <<"zip", "unpacked">>[2] = "unpacked"
  OBVIOUS
<1> QED BY <1>1

LEMMA FilesTypesAre == FilesTypes => UpdaterTypeOK
<1> SUFFICES ASSUME FilesTypes PROVE UpdaterTypeOK
  OBVIOUS
<1>1. /\ cleanFiles \in {<<>>, <<"zip">>, <<"zip", "unpacked">>}
      /\ cleaned \in 0 .. Len(cleanFiles)
  <2>1. CASE cleanFiles = <<>> /\ cleaned = 0
    BY <2>1, Lengths
  <2>2. CASE cleanFiles = <<"zip">> /\ cleaned \in {0, 1}
    BY <2>2, Lengths
  <2>3. CASE cleanFiles = <<"zip", "unpacked">> /\ cleaned \in {0, 1, 2}
    BY <2>3, Lengths
  <2> QED BY <2>1, <2>2, <2>3 DEF FilesTypes
<1> QED BY <1>1 DEF FilesTypes, UpdaterTypeOK

UpdaterProofInv == FilesTypes /\ Disk /\ Archives /\ Copied

LEMMA InitUpdater == UpdaterInit => UpdaterProofInv
<1> SUFFICES ASSUME UpdaterInit PROVE UpdaterProofInv
  OBVIOUS
<1>1. 0 \in 0 .. MaxFailures /\ 0 \in 0 .. MaxReleases
  BY ReleasesAssumption DEF ReleasesAssumption
<1>2. FilesTypes
  BY <1>1 DEF UpdaterInit, FilesTypes
<1> QED BY <1>2 DEF UpdaterInit, UpdaterProofInv, Disk, Archives, Copied

LEMMA NextUpdater == UpdaterProofInv /\ [UpdaterNext]_updaterVars => UpdaterProofInv'
<1> SUFFICES ASSUME UpdaterProofInv, [UpdaterNext]_updaterVars PROVE FilesTypes' /\ Disk' /\ Archives' /\ Copied'
  BY DEF UpdaterProofInv
<1>1. FilesTypes /\ Disk /\ Archives /\ Copied
  BY DEF UpdaterProofInv
<1>2. /\ MaxFailures \in Nat /\ MaxReleases \in Nat
      /\ None \notin Versions /\ Damaged \notin Versions /\ None # Damaged
      /\ Library \in Files
  BY ReleasesAssumption DEF ReleasesAssumption
<1>3. CASE UNCHANGED updaterVars
  BY <1>1, <1>3 DEF updaterVars, updater, past, FilesTypes, Disk, Archives, Copied
<1>4. ASSUME NEW v \in Versions, Release(v) PROVE FilesTypes' /\ Disk' /\ Archives' /\ Copied'
  BY <1>1, <1>2, <1>4 DEF Release, updater, past, FilesTypes, Disk, Archives, Copied
<1>5. CASE StartClient
  <2>1. failures' \in 0 .. MaxFailures
    BY <1>1, <1>2, <1>5 DEF StartClient, FilesTypes
  <2>2. installed[Library] \in Versions
    BY <1>1, <1>2, <1>5 DEF StartClient, Runnable, FilesTypes
  <2>3. FilesTypes'
    BY <1>1, <1>5, <2>1, <2>2 DEF StartClient, FilesTypes
  <2> QED BY <1>1, <2>3, <1>5 DEF StartClient, Disk, Archives, Copied
<1>6. CASE ClientDies \/ ClientCloses
  <2>1. FilesTypes'
    <3>1. asking' \in BOOLEAN /\ open' \in BOOLEAN
      BY <1>1, <1>6 DEF ClientDies, ClientCloses, FilesTypes
    <3>2. UNCHANGED <<latest, installed, updater, failures, releases, past>>
      BY <1>6 DEF ClientDies, ClientCloses
    <3> QED BY ONLY <1>1, <3>1, <3>2 DEF updater, past, FilesTypes
  <2>2. Disk' /\ Archives'
    BY <1>1, <1>6 DEF ClientDies, ClientCloses, updater, past, Disk, Archives
  <2>3. Copied'
    BY <1>1, <1>6 DEF ClientDies, ClientCloses, updater, past, Copied
  <2> QED BY <2>1, <2>2, <2>3
<1>7. CASE Kill \/ Check
  BY <1>1, <1>2, <1>7 DEF past, Kill, Check, Differs, FilesTypes, Disk, Archives, Copied
<1>8. CASE Get
  <2>1. FilesTypes'
    <3>1. unwritten' \in BOOLEAN /\ killed' \in BOOLEAN
      BY <1>1, <1>8 DEF Get, FilesTypes
    <3>2. failures' \in 0 .. MaxFailures
      BY <1>1, <1>2, <1>8 DEF Get, FilesTypes
    <3> QED BY <1>1, <1>2, <1>8, <3>1, <3>2 DEF Get, Downloaded, FilesTypes, Disk
  <2>2. Disk' /\ Copied'
    BY <1>1, <1>2, <1>8, Lengths DEF Get, Downloaded, FilesTypes, Disk, Copied
  <2>3. Archives'
    BY <1>1, <1>2, <1>8, Lengths DEF Get, Downloaded, FilesTypes, Disk, Archives
  <2> QED BY <2>1, <2>2, <2>3
<1>9. CASE Unpack
  BY <1>1, <1>2, <1>9, Lengths DEF past, Unpack, ZipAndDirectory, FilesTypes, Disk, Archives, Copied
<1>10. CASE UnpackFails
  <2>1. FilesTypes'
    BY <1>1, <1>2, <1>10, Lengths DEF UnpackFails, past, FilesTypes
  <2>2. Disk' /\ Copied'
    BY <1>1, <1>2, <1>10, Lengths DEF UnpackFails, past, FilesTypes, Disk, Copied
  <2>3. Archives'
    BY <1>1, <1>2, <1>10, Lengths DEF UnpackFails, past, FilesTypes, Disk, Archives
  <2> QED BY <2>1, <2>2, <2>3
<1>11. ASSUME NEW f \in Files, Copy(f) PROVE FilesTypes' /\ Disk' /\ Archives' /\ Copied'
  <2>1. FilesTypes'
    BY <1>1, <1>2, <1>11, Lengths DEF past, Copy, FilesTypes, Disk
  <2>2. Disk' /\ Copied'
    BY <1>1, <1>2, <1>11, Lengths DEF past, Copy, FilesTypes, Disk, Copied
  <2>3. Archives'
    BY <1>1, <1>2, <1>11, Lengths DEF past, Copy, FilesTypes, Disk, Archives
  <2> QED BY <2>1, <2>2, <2>3
<1>12. ASSUME NEW f \in Files, CopyFails(f) PROVE FilesTypes' /\ Disk' /\ Archives' /\ Copied'
  <2>1. FilesTypes'
    BY <1>1, <1>2, <1>12, Lengths DEF CopyFails, Throw, past, FilesTypes
  <2>2. Disk' /\ Copied'
    BY <1>1, <1>2, <1>12, Lengths DEF CopyFails, Throw, past, FilesTypes, Disk, Copied
  <2>3. Archives'
    BY <1>1, <1>2, <1>12, Lengths DEF CopyFails, Throw, past, FilesTypes, Disk, Archives
  <2> QED BY <2>1, <2>2, <2>3
<1>13. CASE Replaced
  BY <1>1, <1>2, <1>13, Lengths DEF past, Replaced, FilesTypes, Disk, Archives, Copied
<1>14. CASE RequestFails
  BY <1>1, <1>2, <1>14, Lengths DEF RequestFails, Throw, past, FilesTypes, Disk, Archives, Copied
<1>15. CASE RemoveNext
  <2>1. CASE cleanFiles = <<"zip">>
    BY <1>1, <1>2, <1>15, <2>1, Lengths DEF past, RemoveNext, Following, FilesTypes, Disk, Archives, Copied
  <2>2. CASE cleanFiles = <<"zip", "unpacked">>
    BY <1>1, <1>2, <1>15, <2>2, Lengths DEF past, RemoveNext, Following, FilesTypes, Disk, Archives, Copied
  <2> QED BY <1>1, <1>15, <2>1, <2>2, Lengths DEF past, RemoveNext, FilesTypes
<1>16. CASE RemoveFails
  <2>1. FilesTypes'
    BY <1>1, <1>2, <1>16, Lengths DEF RemoveFails, Throw, past, FilesTypes
  <2> QED BY <1>1, <1>2, <1>16, <2>1, Lengths DEF RemoveFails, Throw, past, FilesTypes, Disk, Archives, Copied
<1>17. CASE Cleaned
  <2>1. CASE cleanFiles = <<"zip", "unpacked">>
    BY <1>1, <1>2, <1>17, <2>1, Lengths DEF past, Cleaned, FilesTypes, Disk, Archives, Copied
  <2>2. CASE cleanFiles # <<"zip", "unpacked">>
    BY <1>1, <1>2, <1>17, <2>2 DEF past, Cleaned, FilesTypes, Disk, Archives, Copied
  <2> QED BY <2>1, <2>2
<1>18. CASE Restart \/ PressKey
  <2>1. FilesTypes'
    BY <1>1, <1>18 DEF past, Restart, PressKey, FilesTypes
  <2>2. Disk' /\ Archives'
    BY <1>1, <1>18 DEF past, Restart, PressKey, Disk, Archives
  <2>3. Copied'
    BY <1>1, <1>18 DEF past, Restart, PressKey, Copied
  <2> QED BY <2>1, <2>2, <2>3
<1>19. CASE Killed
  <2>1. installed' \in [Files -> Versions \cup {Damaged}]
    BY <1>1, <1>19 DEF Killed, FilesTypes
  <2>2. failures' \in 0 .. MaxFailures
    BY <1>1, <1>2, <1>19 DEF Killed, FilesTypes
  <2> QED BY <1>1, <1>19, <2>1, <2>2 DEF Killed, FilesTypes, Disk, Archives, Copied
<1> QED BY <1>3, <1>4, <1>5, <1>6, <1>7, <1>8, <1>9, <1>10, <1>11, <1>12, <1>13, <1>14, <1>15,
           <1>16, <1>17, <1>18, <1>19 DEF UpdaterNext, Step

\* What is copied is the release that was found, unless the archive of a killed run could
\* not be written over; and a run that comes to its end leaves nothing in the temporary
\* directory but what a failed unpacking left: whichever steps fail, wherever the updater is
\* killed.
THEOREM UpdaterAlways == UpdaterSpec => []UpdaterInv
<1>1. UpdaterProofInv => UpdaterInv
  BY FilesTypesAre DEF UpdaterProofInv, Disk, Archives, UpdaterInv, CopiesFound, NothingLeft
<1> QED BY <1>1, InitUpdater, NextUpdater, PTL DEF UpdaterSpec

\* An installation becomes a mixture whose age no check sees only by a copy that failed or
\* was interrupted, or by the return of a release such a copy left behind.
THEOREM UnnoticedAlways == UpdaterSpec => UnnoticedByInterruption
<1> DEFINE Becomes ==
      ~Unnoticed /\ Unnoticed' =>
        \/ pc = "replace" /\ pc' \in {"catch", "off"}
        \/ latest' # latest
<1>1. UpdaterProofInv /\ [UpdaterNext]_updaterVars => [Becomes]_updaterVars
  <2> SUFFICES ASSUME UpdaterProofInv, UpdaterNext, ~Unnoticed, Unnoticed', latest' = latest
               PROVE  pc = "replace" /\ pc' \in {"catch", "off"}
    OBVIOUS
  <2>1. FilesTypes /\ Copied /\ Library \in Files
    BY ReleasesAssumption DEF UpdaterProofInv, ReleasesAssumption
  <2>2. CASE Replaced
    <3>1. Whole'
      BY <2>1, <2>2 DEF Replaced, AllReplaced, Copied, Whole
    <3> QED BY <3>1 DEF Unnoticed
  <2>3. ASSUME NEW f \in Files, CopyFails(f)
        PROVE  pc = "replace" /\ pc' \in {"catch", "off"}
    BY <2>3 DEF CopyFails, Throw
  <2>4. ASSUME NEW f \in Files, Copy(f) PROVE FALSE
    BY <2>4 DEF Copy, Unnoticed
  <2>5. CASE Killed
    BY <2>5 DEF Killed, Unnoticed, Whole
  <2>6. ASSUME UNCHANGED <<installed, latest>>, pc # "replace" PROVE FALSE
    BY <2>6 DEF Unnoticed, Whole
  <2>7. CASE \/ StartClient \/ ClientDies \/ ClientCloses \/ Kill \/ Check \/ Get \/ UnpackFails
             \/ RequestFails \/ RemoveNext \/ RemoveFails \/ Cleaned \/ Restart \/ PressKey
    BY <2>6, <2>7 DEF StartClient, ClientDies, ClientCloses, Kill, Check, Get, UnpackFails,
         RequestFails, Throw, RemoveNext, RemoveFails, Cleaned, Restart, PressKey, updater,
         Unnoticed
  <2>8. CASE Unpack
    BY <2>8 DEF Unpack, Unnoticed
  <2>9. ASSUME NEW v \in Versions, Release(v) PROVE FALSE
    BY <2>9 DEF Release
  <2> QED BY <2>2, <2>3, <2>4, <2>5, <2>7, <2>8, <2>9 DEF UpdaterNext, Step
<1> HIDE DEF Becomes
<1>2. UpdaterSpec => [][Becomes]_updaterVars
  BY <1>1, InitUpdater, NextUpdater, PTL DEF UpdaterSpec
<1> QED BY <1>2 DEF UnnoticedByInterruption, Becomes
==============================================================================
