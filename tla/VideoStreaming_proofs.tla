------------------------ MODULE VideoStreaming_proofs ------------------------
(***************************************************************************)
(* Theorems about VideoStreaming, for any clients, retries, starts and     *)
(* plans.                                                                  *)
(*                                                                         *)
(* That two live threads of a client are the old one and the new one of a  *)
(* waiting command is not inductive: it has to be known where the older    *)
(* thread comes from.  Threads says that a thread has the number of the    *)
(* socket made for it, that streamThread is older than the last one while  *)
(* a command has not assigned it, and that outside the assignment no       *)
(* thread but streamThread is live.                                        *)
(*                                                                         *)
(* For what ends a client, Safe follows a client with its first socket:    *)
(* the answer to its hello is read before there is a thread, so no thread  *)
(* meets it, and the socket a thread has caught is that one.               *)
(*                                                                         *)
(* For the server's vector, HelloOnce: the hello of a socket is yet to     *)
(* come, or on its way, or its sender may be listed, and one of these at a *)
(* time; so no address is listed twice, and a frame skips its sender.      *)
(***************************************************************************)
EXTENDS VideoStreaming, Vectors_proofs

StreamTypeOK ==
  /\ plan \in Plans
  /\ made \in [Clients -> Nat] /\ streamThread \in [Clients -> Nat]
  /\ console \in [Clients -> Console]
  /\ thread \in [Clients -> [Starts -> Thread]]
  /\ socket \in [Clients -> 0..MaxStarts]

\* Before the socket of a start is made.
Before(c) == console[c].at \in {"post", "wait", "socket"}

Threads(c) ==
  /\ made[c] <= MaxStarts /\ streamThread[c] <= made[c]
  /\ Before(c) => made[c] < MaxStarts
  /\ \A k \in Starts : k > made[c] => thread[c][k].at = "none"
  /\ console[c].at \in {"hello", "assign"} => streamThread[c] < made[c]
  /\ console[c].at = "hello" => thread[c][made[c]].at = "none"
  /\ \A k \in Starts : Live(c, k) =>
       \/ k = streamThread[c] /\ (console[c].at = "assign" => thread[c][k].stop)
       \/ k = made[c] /\ console[c].at = "assign"

ThreadsInv == StreamTypeOK /\ \A c \in Clients : Threads(c)

LEMMA InitThreads == Init => ThreadsInv
<1> SUFFICES ASSUME Init PROVE ThreadsInv
  OBVIOUS
<1>1. StreamTypeOK
  BY ConstantsAssumption DEF Init, StreamTypeOK, ConstantsAssumption, Console, Thread, Starts
<1>2. ASSUME NEW c \in Clients PROVE Threads(c)
  BY <1>2, ConstantsAssumption
  DEF Init, Threads, ConstantsAssumption, Before, Live, Starts
<1> QED BY <1>1, <1>2 DEF ThreadsInv

\* Records with one field changed.
LEMMA ConsoleAt ==
  ASSUME NEW w \in Console,
         NEW v \in {"idle", "post", "wait", "socket", "hello", "assign", "reset", "answer", "late",
                    "unwind"}
  PROVE  [w EXCEPT !.at = v] \in Console /\ [w EXCEPT !.at = v].at = v
BY DEF Console

LEMMA ConsoleTries ==
  ASSUME NEW w \in Console, NEW n \in 0..Retries
  PROVE  [w EXCEPT !.tries = n] \in Console /\ [w EXCEPT !.tries = n].at = w.at
BY DEF Console

LEMMA ThreadStop ==
  ASSUME NEW t \in Thread, NEW b \in BOOLEAN
  PROVE  /\ [t EXCEPT !.stop = b] \in Thread
         /\ [t EXCEPT !.stop = b].at = t.at /\ [t EXCEPT !.stop = b].stop = b
BY DEF Thread

\* Steps that leave the clients alone.
LEMMA ServerThreads ==
  ASSUME ThreadsInv, UNCHANGED <<plan, client>>
  PROVE  ThreadsInv'
BY DEF ThreadsInv, StreamTypeOK, Threads, Before, Live, client

\* Steps of a command from one place to another, at which no thread is made or assigned.
LEMMA ConsoleThreads ==
  ASSUME ThreadsInv, NEW c \in Clients, UNCHANGED <<plan, made, thread, streamThread>>,
         socket' \in [Clients -> 0..MaxStarts], console' \in [Clients -> Console],
         \A d \in Clients \ {c} : console'[d] = console[d],
         console[c].at # "assign", console'[c].at # "assign",
         console'[c].at = "hello" => console[c].at = "hello",
         console'[c].at \in {"post", "wait", "socket"} =>
           Before(c) \/ made[c] < MaxStarts
  PROVE  ThreadsInv'
<1>1. StreamTypeOK'
  BY DEF ThreadsInv, StreamTypeOK
<1>2. ASSUME NEW d \in Clients PROVE Threads(d)'
  <2>1. CASE d = c
    BY <2>1 DEF ThreadsInv, Threads, Before, Live
  <2>2. CASE d # c
    BY <2>2 DEF ThreadsInv, Threads, Before, Live
  <2> QED BY <2>1, <2>2
<1> QED BY <1>1, <1>2 DEF ThreadsInv

LEMMA CommandsThreads ==
  ASSUME ThreadsInv, NEW c \in Clients, UNCHANGED plan,
         \/ \E kind \in plan.kinds[c] : Request(c, kind)
         \/ Post(c) \/ Answer(c) \/ NoAnswer(c) \/ GiveUp(c) \/ Reset(c) \/ Stop(c)
  PROVE  ThreadsInv'
<1> USE DEF ThreadsInv, StreamTypeOK
<1>1. ASSUME NEW kind \in plan.kinds[c], Request(c, kind) PROVE ThreadsInv'
  <2>1. kind \in {"stream", "view"} /\ plan.starts <= MaxStarts /\ plan.starts \in Nat
    BY ConstantsAssumption DEF ConstantsAssumption
  <2>2. [at |-> "post", kind |-> kind, tries |-> 0] \in Console
    BY <2>1, ConstantsAssumption DEF Console, ConstantsAssumption
  <2>3. made[c] < MaxStarts
    BY <1>1, <2>1, ConstantsAssumption DEF Request, ConstantsAssumption
  <2> QED BY <1>1, <2>2, <2>3, ConsoleThreads DEF Request
<1>2. CASE Post(c)
  <2>1. /\ console[c].at = "post" /\ console'[c].at \in {"socket", "wait"}
        /\ console' \in [Clients -> Console] /\ \A d \in Clients \ {c} : console'[d] = console[d]
    <3>1. console[c].at = "post" /\ console[c] \in Console
      BY <1>2 DEF Post
    <3>2. CASE console' = [console EXCEPT ![c].at = "socket"]
      <4>1. [console[c] EXCEPT !.at = "socket"] \in Console
            /\ [console[c] EXCEPT !.at = "socket"].at = "socket"
        BY <3>1, ConsoleAt
      <4> QED BY <3>1, <3>2, <4>1
    <3>3. CASE console' = [console EXCEPT ![c].at = "wait"]
      <4>1. [console[c] EXCEPT !.at = "wait"] \in Console
            /\ [console[c] EXCEPT !.at = "wait"].at = "wait"
        BY <3>1, ConsoleAt
      <4> QED BY <3>1, <3>3, <4>1
    <3> QED BY <1>2, <3>2, <3>3 DEF Post
  <2>2. UNCHANGED <<socket, made, thread, streamThread>>
    BY <1>2 DEF Post
  <2> QED BY <2>1, <2>2, ConsoleThreads DEF Before
<1>3. CASE Answer(c)
  <2>1. /\ console[c].at = "wait" /\ console'[c].at = "socket"
        /\ console' \in [Clients -> Console] /\ \A d \in Clients \ {c} : console'[d] = console[d]
    BY <1>3 DEF Answer, Console
  <2> QED BY <1>3, <2>1, ConsoleThreads DEF Answer, Before
<1>4. CASE NoAnswer(c)
  <2>1. /\ console[c].at = "hello" /\ console'[c].at = "hello"
        /\ console' \in [Clients -> Console] /\ \A d \in Clients \ {c} : console'[d] = console[d]
    <3>1. console[c].at = "hello" /\ console[c].tries \in 0..Retries /\ console[c].tries > 0
      BY <1>4 DEF NoAnswer, TriesLeft, Console
    <3>2. console[c].tries - 1 \in 0..Retries
      BY <3>1, ConstantsAssumption DEF ConstantsAssumption
    <3> QED BY <1>4, <3>1, <3>2, ConsoleTries DEF NoAnswer
  <2> QED BY <1>4, <2>1, ConsoleThreads DEF NoAnswer
<1>5. CASE GiveUp(c)
  <2>1. /\ console[c].at = "hello" /\ console'[c].at = "idle"
        /\ console' \in [Clients -> Console] /\ \A d \in Clients \ {c} : console'[d] = console[d]
    BY ZenonT(40), <1>5 DEF GiveUp, Console
  <2> QED BY <1>5, <2>1, ConsoleThreads DEF GiveUp
<1>6. CASE Reset(c)
  <2>1. /\ console[c].at \in {"reset", "late"} /\ console'[c].at \in {"idle", "answer"}
        /\ console' \in [Clients -> Console] /\ \A d \in Clients \ {c} : console'[d] = console[d]
    BY ZenonT(40), <1>6 DEF Reset, Console
  <2>2. socket' \in [Clients -> 0..MaxStarts]
    BY <1>6, ConstantsAssumption DEF Reset, ConstantsAssumption
  <2> QED BY <1>6, <2>1, <2>2, ConsoleThreads DEF Reset
<1>7. CASE Stop(c)
  <2>1. /\ console[c].at \in {"reset", "answer"} /\ console'[c].at \in {"late", "idle"}
        /\ console' \in [Clients -> Console] /\ \A d \in Clients \ {c} : console'[d] = console[d]
    BY ZenonT(40), <1>7 DEF Stop, Console
  <2> QED BY <1>7, <2>1, ConsoleThreads DEF Stop
<1> QED BY <1>1, <1>2, <1>3, <1>4, <1>5, <1>6, <1>7

LEMMA MakeSocketThreads ==
  ASSUME ThreadsInv, NEW c \in Clients, UNCHANGED plan, MakeSocket(c)
  PROVE  ThreadsInv'
<1> USE DEF ThreadsInv, StreamTypeOK
<1>1. made[c] + 1 \in Starts /\ made[c] \in Nat /\ Before(c) /\ streamThread[c] <= made[c]
  BY ConstantsAssumption DEF MakeSocket, Threads, Before, ConstantsAssumption, Starts
<1>2. /\ made' = [made EXCEPT ![c] = made[c] + 1] /\ socket' = [socket EXCEPT ![c] = made[c] + 1]
      /\ UNCHANGED <<thread, streamThread>>
  BY DEF MakeSocket
<1>3. /\ console'[c].at = "hello"
      /\ console' \in [Clients -> Console] /\ \A d \in Clients \ {c} : console'[d] = console[d]
  <2> DEFINE w == [console[c] EXCEPT !.at = "hello"]
  <2>1. w \in Console /\ w.at = "hello"
    BY ConsoleAt
  <2>2. console' = [console EXCEPT ![c] = [w EXCEPT !.tries = Retries]]
    BY DEF MakeSocket
  <2> HIDE DEF w
  <2>3. Retries \in 0..Retries
    BY ConstantsAssumption DEF ConstantsAssumption
  <2>4. [w EXCEPT !.tries = Retries] \in Console /\ [w EXCEPT !.tries = Retries].at = "hello"
    BY <2>1, <2>3, ConsoleTries
  <2> QED BY <2>2, <2>4
<1>4. StreamTypeOK'
  <2>1. made[c] + 1 \in 0..MaxStarts /\ made[c] + 1 \in Nat
    BY <1>1, ConstantsAssumption DEF Starts, ConstantsAssumption
  <2> QED BY <1>2, <1>3, <2>1
<1>5. ASSUME NEW d \in Clients PROVE Threads(d)'
  <2>1. CASE d = c
    BY <1>1, <1>2, <1>3, <2>1, ConstantsAssumption
    DEF Threads, Before, Live, Starts, MakeSocket, ConstantsAssumption
  <2>2. CASE d # c
    BY <1>2, <1>3, <2>2 DEF Threads, Before, Live
  <2> QED BY <2>1, <2>2
<1> QED BY <1>4, <1>5

LEMMA HelloAnsweredThreads ==
  ASSUME ThreadsInv, NEW c \in Clients, UNCHANGED plan, HelloAnswered(c)
  PROVE  ThreadsInv'
<1> USE DEF ThreadsInv, StreamTypeOK
<1>1. /\ console[c].at = "hello" /\ console'[c].at = "assign"
      /\ console' \in [Clients -> Console] /\ \A d \in Clients \ {c} : console'[d] = console[d]
      /\ UNCHANGED <<socket, made, streamThread>>
  BY DEF HelloAnswered, Console
<1> DEFINE new == [at |-> "begin", stop |-> FALSE, kind |-> console[c].kind, socket |-> 0]
<1>2. new \in Thread
  BY ConstantsAssumption DEF Thread, Console, ConstantsAssumption
<1>3. new.at = "begin"
  OBVIOUS
<1> HIDE DEF new
<1> DEFINE told(k) == [thread[c][k] EXCEPT !.stop = thread[c][k].stop \/ k = streamThread[c]]
<1>4. \A k \in Starts :
        /\ told(k) \in Thread /\ told(k).at = thread[c][k].at
        /\ k = streamThread[c] => told(k).stop
  <2> TAKE k \in Starts
  <2>1. (thread[c][k].stop \/ k = streamThread[c]) \in BOOLEAN
    OBVIOUS
  <2>2. thread[c][k] \in Thread
    OBVIOUS
  <2> DEFINE b == thread[c][k].stop \/ k = streamThread[c]
  <2>3. b \in BOOLEAN /\ told(k) = [thread[c][k] EXCEPT !.stop = b]
        /\ (k = streamThread[c] => b)
    OBVIOUS
  <2> HIDE DEF b, told
  <2> QED BY <2>2, <2>3, ThreadStop
<1>5. /\ \A d \in Clients \ {c} : thread'[d] = thread[d]
      /\ thread' \in [Clients -> [Starts -> Thread]]
      /\ \A k \in Starts : thread'[c][k] = IF k = made[c] THEN new ELSE told(k)
  <2>1. thread' = [thread EXCEPT ![c] = [k \in Starts |-> IF k = made[c] THEN new ELSE told(k)]]
    BY DEF HelloAnswered, ToldToStop, new
  <2> HIDE DEF told
  <2> QED BY <1>2, <1>4, <2>1
<1> HIDE DEF told
<1>6. ASSUME NEW d \in Clients PROVE Threads(d)'
  <2>1. CASE d = c
    <3>1. streamThread[c] < made[c] /\ made[c] <= MaxStarts /\ made[c] \in Nat /\ streamThread[c] \in Nat
      BY <1>1 DEF Threads
    <3>2. \A k \in Starts : k > made[c] => thread'[c][k].at = "none"
      <4> SUFFICES ASSUME NEW k \in Starts, k > made[c] PROVE thread'[c][k].at = "none"
        OBVIOUS
      <4>1. k # made[c] /\ thread[c][k].at = "none"
        BY <3>1 DEF Threads, Starts
      <4> QED BY <1>4, <1>5, <4>1
    <3>3. \A k \in Starts : Live(c, k)' =>
            \/ k = streamThread[c] /\ thread'[c][k].stop
            \/ k = made[c]
      <4> SUFFICES ASSUME NEW k \in Starts, Live(c, k)', k # made[c]
                   PROVE  k = streamThread[c] /\ thread'[c][k].stop
        OBVIOUS
      <4>1. thread'[c][k] = told(k) /\ told(k).at = thread[c][k].at
        BY <1>4, <1>5
      <4>2. Live(c, k)
        BY <4>1 DEF Live
      <4>3. k = streamThread[c]
        BY <1>1, <4>2 DEF Threads
      <4> QED BY <1>4, <4>1, <4>3
    <3> QED BY <1>1, <2>1, <3>1, <3>2, <3>3 DEF Threads, Before
  <2>2. CASE d # c
    BY <1>1, <1>5, <2>2 DEF Threads, Before, Live
  <2> QED BY <2>1, <2>2
<1> QED BY <1>1, <1>5, <1>6

LEMMA AssignThreads ==
  ASSUME ThreadsInv, NEW c \in Clients, UNCHANGED plan, Assign(c)
  PROVE  ThreadsInv'
<1> USE DEF ThreadsInv, StreamTypeOK
<1>1. /\ console[c].at = "assign" /\ console'[c].at = "idle"
      /\ console' \in [Clients -> Console] /\ \A d \in Clients \ {c} : console'[d] = console[d]
      /\ UNCHANGED <<socket, made, thread>>
      /\ streamThread' = [streamThread EXCEPT ![c] = made[c]]
  BY DEF Assign, Console
<1>2. \A k \in Starts : k = streamThread[c] => ~Live(c, k)
  BY DEF Assign, Joined, Live
<1>3. ASSUME NEW d \in Clients PROVE Threads(d)'
  <2>1. CASE d = c
    BY <1>1, <1>2, <2>1 DEF Threads, Before, Live
  <2>2. CASE d # c
    BY <1>1, <2>2 DEF Threads, Before, Live
  <2> QED BY <2>1, <2>2
<1> QED BY <1>1, <1>3

\* streamThread is told to stop, and the threads are else as they were.
LEMMA StopAskedFacts ==
  ASSUME StreamTypeOK, NEW c \in Clients, thread' = StopAsked(c)
  PROVE  /\ thread' \in [Clients -> [Starts -> Thread]]
         /\ \A d \in Clients \ {c} : thread'[d] = thread[d]
         /\ \A k \in Starts : /\ thread'[c][k].at = thread[c][k].at
                              /\ thread'[c][k].socket = thread[c][k].socket
                              /\ thread'[c][k].kind = thread[c][k].kind
                              /\ thread[c][k].stop => thread'[c][k].stop
<1> USE DEF StreamTypeOK
<1> DEFINE told(k) == [thread[c][k] EXCEPT !.stop = thread[c][k].stop \/ k = streamThread[c]]
<1>1. thread' = [thread EXCEPT ![c] = [k \in Starts |-> told(k)]]
  BY DEF StopAsked
<1>2. \A k \in Starts : /\ told(k) \in Thread
                        /\ told(k).at = thread[c][k].at /\ told(k).socket = thread[c][k].socket
                        /\ told(k).kind = thread[c][k].kind
                        /\ thread[c][k].stop => told(k).stop
  <2> TAKE k \in Starts
  <2> DEFINE b == thread[c][k].stop \/ k = streamThread[c]
  <2>1. /\ b \in BOOLEAN /\ told(k) = [thread[c][k] EXCEPT !.stop = b] /\ thread[c][k] \in Thread
        /\ thread[c][k].stop => b
    OBVIOUS
  <2> HIDE DEF b, told
  <2> QED BY <2>1 DEF Thread
<1> HIDE DEF told
<1> QED BY <1>1, <1>2

\* A command other than an assignment tells streamThread to stop, with a new socket or not.
LEMMA StopAskedThreads ==
  ASSUME ThreadsInv, NEW c \in Clients, UNCHANGED <<plan, streamThread>>, thread' = StopAsked(c),
         socket' \in [Clients -> 0..MaxStarts], made' \in [Clients -> Nat],
         console' \in [Clients -> Console],
         \A d \in Clients \ {c} : console'[d] = console[d] /\ made'[d] = made[d],
         console[c].at # "assign", console'[c].at \in {"reset", "unwind"},
         made[c] <= made'[c], made'[c] <= MaxStarts
  PROVE  ThreadsInv'
<1> USE DEF ThreadsInv, StreamTypeOK
<1>1. /\ thread' \in [Clients -> [Starts -> Thread]]
      /\ \A d \in Clients \ {c} : thread'[d] = thread[d]
      /\ \A k \in Starts : thread'[c][k].at = thread[c][k].at
  BY StopAskedFacts
<1>2. ASSUME NEW d \in Clients PROVE Threads(d)'
  <2>1. CASE d = c
    <3>1. \A k \in Starts : Live(c, k)' => Live(c, k)
      BY <1>1 DEF Live
    <3>2. \A k \in Starts : Live(c, k) => k = streamThread[c]
      BY DEF Threads
    <3>3. \A k \in Starts : k > made'[c] => thread'[c][k].at = "none"
      <4> SUFFICES ASSUME NEW k \in Starts, k > made'[c] PROVE thread'[c][k].at = "none"
        OBVIOUS
      <4>1. k > made[c]
        BY DEF Starts
      <4>2. thread'[c][k].at = thread[c][k].at
        BY <1>1
      <4>3. Threads(c)
        OBVIOUS
      <4> QED BY ONLY <4>1, <4>2, <4>3 DEF Threads
    <3>4. streamThread[c] <= made'[c]
      BY DEF Threads
    <3> QED BY <2>1, <3>1, <3>2, <3>3, <3>4 DEF Threads, Before
  <2>2. CASE d # c
    BY <1>1, <2>2 DEF Threads, Before, Live
  <2> QED BY <2>1, <2>2
<1> QED BY <1>1, <1>2

LEMMA RequestStopThreads ==
  ASSUME ThreadsInv, NEW c \in Clients, UNCHANGED plan, RequestStop(c)
  PROVE  ThreadsInv'
<1>1. /\ console[c].at = "idle" /\ console'[c].at = "reset"
      /\ console' \in [Clients -> Console] /\ \A d \in Clients \ {c} : console'[d] = console[d]
      /\ UNCHANGED <<socket, made, streamThread>> /\ thread' = StopAsked(c)
  BY DEF ThreadsInv, StreamTypeOK, RequestStop, Console
<1>2. made \in [Clients -> Nat] /\ made[c] <= MaxStarts /\ socket \in [Clients -> 0..MaxStarts]
  BY DEF ThreadsInv, StreamTypeOK, Threads
<1> QED BY <1>1, <1>2, StopAskedThreads

\* What MakeSocketThrows leaves of sockets and consoles.
LEMMA MakeSocketThrowsFacts ==
  ASSUME ThreadsInv, NEW c \in Clients, MakeSocketThrows(c)
  PROVE  /\ console[c].at = "socket" /\ console'[c].at = "unwind"
         /\ console' \in [Clients -> Console]
         /\ \A d \in Clients \ {c} :
              console'[d] = console[d] /\ made'[d] = made[d] /\ socket'[d] = socket[d]
         /\ \/ made'[c] = made[c] /\ socket'[c] = socket[c]
            \/ made'[c] = made[c] + 1 /\ socket'[c] = made[c] + 1
         /\ made' \in [Clients -> Nat] /\ socket' \in [Clients -> 0..MaxStarts]
         /\ made[c] \in Nat /\ made[c] + 1 <= MaxStarts
         /\ thread' = StopAsked(c) /\ UNCHANGED <<network, inbox, streamThread, duplicates>>
<1> USE DEF ThreadsInv, StreamTypeOK
<1>1. console[c].at = "socket" /\ console[c] \in Console
  BY DEF MakeSocketThrows
<1>2. made[c] \in Nat /\ made[c] + 1 <= MaxStarts /\ made[c] + 1 \in 0..MaxStarts
  BY <1>1, ConstantsAssumption DEF Threads, Before, ConstantsAssumption
<1>3. /\ console'[c].at = "unwind" /\ console' \in [Clients -> Console]
      /\ \A d \in Clients \ {c} : console'[d] = console[d]
  <2> DEFINE w == [console[c] EXCEPT !.at = "unwind"]
  <2>1. w \in Console /\ w.at = "unwind"
    BY <1>1, ConsoleAt
  <2>2. console' = [console EXCEPT ![c] = w]
    BY DEF MakeSocketThrows
  <2> HIDE DEF w
  <2> QED BY <2>1, <2>2
<1>4. \/ UNCHANGED <<made, socket>>
      \/ /\ made' = [made EXCEPT ![c] = made[c] + 1]
         /\ socket' = [socket EXCEPT ![c] = made[c] + 1]
  BY DEF MakeSocketThrows
<1>5. thread' = StopAsked(c) /\ UNCHANGED <<network, inbox, streamThread, duplicates>>
  BY DEF MakeSocketThrows, server
<1>6. CASE UNCHANGED <<made, socket>>
  BY <1>1, <1>2, <1>3, <1>5, <1>6
<1>7. CASE /\ made' = [made EXCEPT ![c] = made[c] + 1]
           /\ socket' = [socket EXCEPT ![c] = made[c] + 1]
  <2>1. made'[c] = made[c] + 1 /\ socket'[c] = made[c] + 1
    BY <1>7
  <2>2. \A d \in Clients \ {c} : made'[d] = made[d] /\ socket'[d] = socket[d]
    BY <1>7
  <2>3. made' \in [Clients -> Nat] /\ socket' \in [Clients -> 0..MaxStarts]
    BY <1>2, <1>7
  <2> QED BY <1>1, <1>2, <1>3, <1>5, <2>1, <2>2, <2>3
<1> QED BY <1>4, <1>6, <1>7

LEMMA MakeSocketThrowsThreads ==
  ASSUME ThreadsInv, NEW c \in Clients, UNCHANGED plan, MakeSocketThrows(c)
  PROVE  ThreadsInv'
<1>1. made[c] <= made'[c] /\ made'[c] <= MaxStarts
  BY MakeSocketThrowsFacts, ConstantsAssumption DEF ConstantsAssumption
<1> QED BY <1>1, MakeSocketThrowsFacts, StopAskedThreads

\* A live thread goes on to another place, or ends.
LEMMA BecomesThreads ==
  ASSUME ThreadsInv, NEW c \in Clients, NEW k \in Starts, Live(c, k),
         NEW t \in Thread, Becomes(c, k, t), t.at # "none", t.stop = thread[c][k].stop,
         UNCHANGED <<plan, socket, made, console, streamThread>>
  PROVE  ThreadsInv'
<1> USE DEF ThreadsInv, StreamTypeOK
<1>1. /\ thread' \in [Clients -> [Starts -> Thread]]
      /\ \A d \in Clients, j \in Starts :
           IF d = c /\ j = k THEN thread'[d][j] = t ELSE thread'[d][j] = thread[d][j]
  BY DEF Becomes
<1>2. k <= made[c]
  <2>1. k \in Nat /\ made[c] \in Nat /\ thread[c][k].at # "none"
    BY DEF Live, Starts
  <2>2. ~(k > made[c])
    BY <2>1 DEF Threads
  <2> QED BY <2>1, <2>2
<1>3. ASSUME NEW d \in Clients PROVE Threads(d)'
  <2>1. \A j \in Starts : Live(d, j)' => Live(d, j) /\ thread'[d][j].stop = thread[d][j].stop
    BY <1>1 DEF Live
  <2>2. \A j \in Starts : j > made[d] => thread'[d][j].at = "none"
    BY <1>1, <1>2 DEF Threads
  <2>3. console[d].at = "hello" => thread'[d][made[d]].at = "none"
    <3> SUFFICES ASSUME console[d].at = "hello" PROVE thread'[d][made[d]].at = "none"
      OBVIOUS
    <3>1. thread[d][made[d]].at = "none" /\ made[d] \in Starts
      BY ConstantsAssumption DEF Threads, Starts, ConstantsAssumption
    <3> QED BY <1>1, <3>1 DEF Live
  <2> QED BY <2>1, <2>2, <2>3 DEF Threads, Before
<1> QED BY <1>1, <1>3

ThreadStep(c, k) == ThreadGoesOn(c, k) \/ ProcessFrame(c, k)

\* The socket a thread has caught is gone.
CaughtClosed(c, k) == \E kind \in {"stream", "view"} : UseAfterClose(c, k, kind)

\* processFrame and decodeFrame, however they end.
FrameStep(c, k) ==
  SendFrame(c, k) \/ NothingToView(c, k) \/ ViewFrame(c, k) \/ CaughtClosed(c, k)

LEMMA StepCases ==
  ASSUME NEW c, NEW k, ThreadStep(c, k)
  PROVE  Begin(c, k) \/ CheckStop(c, k) \/ Look(c, k) \/ FrameStep(c, k)
BY DEF ThreadStep, ThreadGoesOn, ProcessFrame, FrameStep, CaughtClosed

LEMMA StepFacts ==
  ASSUME NEW c, NEW k, ThreadStep(c, k)
  PROVE  /\ UNCHANGED <<clients, started, serving, former, socket, made, console, streamThread,
                        duplicates>>
         /\ Live(c, k) /\ Running(c)
<1>1. CASE Begin(c, k)
  BY <1>1 DEF Begin, Live, server
<1>2. CASE CheckStop(c, k)
  BY <1>2 DEF CheckStop, Live, server
<1>3. CASE Look(c, k)
  BY <1>3 DEF Look, Live, server
<1>4. CASE SendFrame(c, k)
  BY <1>4 DEF SendFrame, Calls, Live, server
<1>5. CASE NothingToView(c, k)
  BY <1>5 DEF NothingToView, Calls, Live, server
<1>6. CASE ViewFrame(c, k)
  BY <1>6 DEF ViewFrame, Calls, Live, server
<1>7. CASE CaughtClosed(c, k)
  BY <1>7 DEF CaughtClosed, UseAfterClose, Calls, Live, server
<1> QED BY <1>1, <1>2, <1>3, <1>4, <1>5, <1>6, <1>7, StepCases DEF FrameStep

\* Where a frame leaves its thread: undefined only after the socket is gone, or a hello.
LEMMA FrameLeaves ==
  ASSUME NEW c, NEW k, FrameStep(c, k)
  PROVE  \/ Becomes(c, k, Is(c, k, "check")) \/ Becomes(c, k, Is(c, k, "threw"))
         \/ /\ Becomes(c, k, Is(c, k, "undefined"))
            /\ \/ CaughtClosed(c, k)
               \/ ViewFrame(c, k) /\ \E p \in inbox[<<c, socket[c]>>] : p.kind = "hello"
<1>1. CASE SendFrame(c, k)
  BY <1>1 DEF SendFrame
<1>2. CASE NothingToView(c, k)
  BY <1>2 DEF NothingToView
<1>3. CASE ViewFrame(c, k)
  <2>1. PICK p \in inbox[<<c, socket[c]>>] :
          \/ p.kind = "hello" /\ Becomes(c, k, Is(c, k, "undefined"))
          \/ p.kind = "frame" /\ Becomes(c, k, Is(c, k, "check"))
          \/ p.kind = "frame" /\ Becomes(c, k, Is(c, k, "threw"))
    BY <1>3 DEF ViewFrame
  <2> QED BY <1>3, <2>1
<1>4. CASE CaughtClosed(c, k)
  <2>1. \E at \in {"check", "threw", "undefined"} : Becomes(c, k, Is(c, k, at))
    BY <1>4 DEF CaughtClosed, UseAfterClose
  <2> QED BY <1>4, <2>1
<1> QED BY <1>1, <1>2, <1>3, <1>4 DEF FrameStep

LEMMA ThreadStepThreads ==
  ASSUME ThreadsInv, NEW c \in Clients, NEW k \in Starts, UNCHANGED plan, ThreadStep(c, k)
  PROVE  ThreadsInv'
<1>1. thread[c][k] \in Thread /\ socket[c] \in 0..MaxStarts /\ 0 \in 0..MaxStarts
  BY ConstantsAssumption DEF ThreadsInv, StreamTypeOK, ConstantsAssumption
<1>2. Live(c, k) /\ UNCHANGED <<socket, made, console, streamThread>>
  BY StepFacts
<1>3. \E v \in {"check", "look", "call", "over", "threw", "undefined"}, n \in {0, socket[c]} :
        \/ Becomes(c, k, [thread[c][k] EXCEPT !.at = v])
        \/ Becomes(c, k, [thread[c][k] EXCEPT !.at = v, !.socket = n])
  <2>1. CASE CheckStop(c, k)
    BY <2>1 DEF CheckStop, Ends
  <2>2. CASE Look(c, k)
    BY <2>2 DEF Look
  <2>3. CASE Begin(c, k) \/ FrameStep(c, k)
    <3>1. \E v \in {"check", "threw", "undefined"} : Becomes(c, k, Is(c, k, v))
      BY <2>3, FrameLeaves DEF Begin
    <3> QED BY <3>1 DEF Is
  <2> QED BY <2>1, <2>2, <2>3, StepCases
<1>4. \E t \in Thread : Becomes(c, k, t) /\ t.at # "none" /\ t.stop = thread[c][k].stop
  <2>1. PICK v \in {"check", "look", "call", "over", "threw", "undefined"}, n \in {0, socket[c]} :
        \/ Becomes(c, k, [thread[c][k] EXCEPT !.at = v])
        \/ Becomes(c, k, [thread[c][k] EXCEPT !.at = v, !.socket = n])
    BY <1>3
  <2>2. n \in 0..MaxStarts
    BY <1>1
  <2>3. CASE Becomes(c, k, [thread[c][k] EXCEPT !.at = v])
    <3> DEFINE t == [thread[c][k] EXCEPT !.at = v]
    <3>1. t \in Thread /\ t.at = v /\ t.stop = thread[c][k].stop
      BY <1>1, <2>1, <2>2 DEF Thread
    <3>2. Becomes(c, k, t)
      BY <2>3
    <3> HIDE DEF t
    <3> QED BY <3>1, <3>2
  <2>4. CASE Becomes(c, k, [thread[c][k] EXCEPT !.at = v, !.socket = n])
    <3> DEFINE t == [thread[c][k] EXCEPT !.at = v, !.socket = n]
    <3>1. t \in Thread /\ t.at = v /\ t.stop = thread[c][k].stop
      BY <1>1, <2>1, <2>2 DEF Thread
    <3>2. Becomes(c, k, t)
      BY <2>4
    <3> HIDE DEF t
    <3> QED BY <3>1, <3>2
  <2> QED BY <2>1, <2>3, <2>4
<1> QED BY <1>2, <1>4, BecomesThreads

LEMMA NextThreads == ThreadsInv /\ [Next]_vars => ThreadsInv'
<1> SUFFICES ASSUME ThreadsInv, [Next]_vars PROVE ThreadsInv'
  OBVIOUS
<1>1. CASE UNCHANGED vars
  BY <1>1, ServerThreads DEF vars
<1>2. ASSUME UNCHANGED plan, ServerStep \/ \E p \in network : Lose(p)
      PROVE  ThreadsInv'
  BY <1>2, ServerThreads DEF ServerStep, ServeHello, ServeFrame, ServeThrows, ServeError, Lose
<1>3. ASSUME UNCHANGED plan, NEW c \in Clients, CommandGoesOn(c)
      PROVE  ThreadsInv'
  BY <1>3, CommandsThreads, MakeSocketThreads, MakeSocketThrowsThreads, HelloAnsweredThreads,
     AssignThreads
  DEF CommandGoesOn
<1>4. Present \subseteq Clients
  BY DEF Present
<1> QED BY <1>1, <1>2, <1>3, <1>4, CommandsThreads, RequestStopThreads, ThreadStepThreads
        DEF Next, ThreadStep

\* StartStream, JoinStream and StopStream, given any number of times, whatever is answered
\* and in whatever order the threads go on: two live stream threads of a client are the
\* one a command waits for, which was told to stop, and the one it has made.
THEOREM TwoThreadsMeanWaitingCommandAlways == Spec => []TwoThreadsMeanWaitingCommand
<1>1. ThreadsInv => TwoThreadsMeanWaitingCommand
  <2> SUFFICES ASSUME ThreadsInv, NEW c \in Clients, NEW j \in Starts, NEW k \in Starts,
                      j < k, Live(c, j), Live(c, k)
               PROVE  /\ console[c].at = "assign" /\ k = made[c]
                      /\ j = streamThread[c] /\ thread[c][j].stop
    BY DEF TwoThreadsMeanWaitingCommand
  <2>1. Threads(c)
    BY DEF ThreadsInv
  <2>2. j # k /\ console[c].at = "assign"
    BY <2>1 DEF Threads, Starts
  <2>3. streamThread[c] < made[c] /\ streamThread[c] \in Nat /\ made[c] \in Nat
    BY <2>1, <2>2 DEF Threads, ThreadsInv, StreamTypeOK
  <2> QED BY <2>1, <2>2, <2>3 DEF Threads, Starts
<1> QED BY <1>1, InitThreads, NextThreads, PTL DEF Spec

-----------------------------------------------------------------------------
(* What a stream thread can meet.                                          *)

FirstHello(c) == [kind |-> "hello", from |-> <<c, 1>>]

\* The hello of a client's first socket is nowhere.
Quiet(c) == FirstHello(c) \notin network /\ \A a \in Address : FirstHello(c) \notin inbox[a]

\* Datagrams are datagrams, and a hello is answered to its sender.
PacketsOK ==
  /\ network \subseteq Packet /\ inbox \in [Address -> SUBSET Packet] /\ duplicates \in Nat
  /\ \A a \in Address : \A p \in inbox[a] : p.kind = "hello" => p.from = a

\* A client's first hello is in the network or answered; it is read before its thread is
\* made, and then nothing of it is left that the thread could take for a chunk.
HelloGone(c) ==
  /\ made[c] = 0 => Quiet(c)
  /\ made[c] = 1 /\ duplicates = 0 =>
       /\ FirstHello(c) \in network => \A a \in Address : FirstHello(c) \notin inbox[a]
       /\ \A k \in Starts : thread[c][k].at # "none" => Quiet(c)

\* What a thread has caught is a socket, and the client's only one while that is open.
SocketKept(c) ==
  /\ socket[c] \in {0, made[c]}
  /\ \A k \in Starts : thread[c][k].at = "call" => thread[c][k].socket # 0
  /\ console[c].at = "hello" => socket[c] = made[c]
  /\ made[c] = 1 /\ socket[c] = 1 =>
       \A k \in Starts : thread[c][k].at = "call" => thread[c][k].socket = 1

\* Undefined is at most the end of a viewer that was told to stop.
Defined(c) ==
  \A k \in Starts :
    thread[c][k].at = "undefined" => thread[c][k].kind = "view" /\ thread[c][k].stop

Unharmed(c) == made[c] = 1 /\ socket[c] = 1 /\ duplicates = 0 => Defined(c)

Safe(c) == HelloGone(c) /\ SocketKept(c) /\ Unharmed(c)

SafeInv == ThreadsInv /\ PacketsOK /\ \A c \in Clients : Safe(c)

LEMMA InitSafe == Init => SafeInv
<1> SUFFICES ASSUME Init PROVE SafeInv
  OBVIOUS
<1>1. PacketsOK
  BY DEF Init, PacketsOK
<1>2. ASSUME NEW c \in Clients PROVE Safe(c)
  BY <1>2 DEF Init, Safe, HelloGone, SocketKept, Unharmed, Quiet, Defined
<1> QED BY <1>1, <1>2, InitThreads DEF SafeInv

\* A step leaves a client as safe as it was when it leaves his threads and sockets alone,
\* and sends and answers no hello of his.
LEMMA SafeKept ==
  ASSUME SafeInv, NEW c \in Clients,
         made'[c] = made[c], socket'[c] = socket[c], thread'[c] = thread[c],
         console'[c].at = "hello" => console[c].at = "hello",
         duplicates' = 0 => duplicates = 0,
         FirstHello(c) \in network' => FirstHello(c) \in network,
         \A a \in Address : FirstHello(c) \in inbox'[a] => FirstHello(c) \in inbox[a]
  PROVE  Safe(c)'
<1>1. Quiet(c) => Quiet(c)'
  BY DEF Quiet, FirstHello
<1>2. Defined(c)' <=> Defined(c)
  BY DEF Defined
<1>3. FirstHello(c)' = FirstHello(c)
  BY DEF FirstHello
<1>4. HelloGone(c)'
  BY <1>1, <1>3 DEF SafeInv, Safe, HelloGone
<1>5. SocketKept(c)'
  BY DEF SafeInv, Safe, SocketKept
<1>6. Unharmed(c)'
  BY <1>2 DEF SafeInv, Safe, Unharmed
<1> QED BY <1>4, <1>5, <1>6 DEF Safe

LEMMA ArrivesPackets ==
  ASSUME SafeInv, NEW p \in network, Arrives(p)
  PROVE  /\ network' \subseteq network /\ duplicates' \in Nat
         /\ duplicates' = 0 => duplicates = 0 /\ network' = network \ {p}
BY DEF Arrives, SafeInv, PacketsOK

LEMMA ServerSafe ==
  ASSUME SafeInv, UNCHANGED <<plan, client>>, ServerStep \/ \E p \in network : Lose(p)
  PROVE  SafeInv'
<1>0. ThreadsInv'
  BY ServerThreads DEF SafeInv
<1> USE DEF client
<1>1. ASSUME NEW p \in network, ServeHello(p) PROVE SafeInv'
  <2>1. p \in Packet /\ p.kind = "hello" /\ p.from \in Address
    BY <1>1 DEF ServeHello, SafeInv, PacketsOK, Packet
  <2>2. inbox' = [a \in Address |-> IF a = p.from THEN inbox[a] \cup {p} ELSE inbox[a]]
    BY <1>1 DEF ServeHello, Sent, HelloGoesTo
  <2>3. /\ network' \subseteq network /\ duplicates' \in Nat
        /\ duplicates' = 0 => duplicates = 0 /\ network' = network \ {p}
    BY <1>1, ArrivesPackets DEF ServeHello
  <2>4. PacketsOK'
    BY <2>1, <2>2, <2>3 DEF SafeInv, PacketsOK
  <2>5. ASSUME NEW c \in Clients PROVE Safe(c)'
    <3>1. CASE p # FirstHello(c)
      <4>1. \A a \in Address : FirstHello(c) \in inbox'[a] => FirstHello(c) \in inbox[a]
        BY <2>2, <3>1
      <4> QED BY <2>3, <3>1, <4>1, SafeKept DEF SafeInv
    <3>2. CASE p = FirstHello(c)
      <4>1. Safe(c) /\ FirstHello(c) \in network /\ ~Quiet(c)
        BY <3>2 DEF SafeInv, Quiet
      <4>2. made[c] # 0
        BY <4>1 DEF Safe, HelloGone
      <4>3. made[c] = 1 /\ duplicates = 0 => \A k \in Starts : thread[c][k].at = "none"
        BY <4>1 DEF Safe, HelloGone
      <4>4. HelloGone(c)'
        BY <2>3, <3>2, <4>2, <4>3 DEF HelloGone, FirstHello
      <4>5. SocketKept(c)'
        BY <4>1 DEF Safe, SocketKept
      <4>6. Unharmed(c)'
        BY <2>3, <4>1 DEF Safe, Unharmed, Defined
      <4> QED BY <4>4, <4>5, <4>6 DEF Safe
    <3> QED BY <3>1, <3>2
  <2> QED BY <1>0, <2>4, <2>5 DEF SafeInv
<1>2. ASSUME NEW p \in network, ServeFrame(p) \/ ServeThrows(p) PROVE SafeInv'
  <2>1. /\ network' \subseteq network /\ duplicates' \in Nat
        /\ duplicates' = 0 => duplicates = 0
    BY <1>2, ArrivesPackets DEF ServeFrame, ServeThrows
  <2>2. \/ inbox' = inbox
        \/ p.kind = "frame" /\ \E to : inbox' = Sent(p, to)
    BY <1>2 DEF ServeFrame, ServeThrows
  <2>3. inbox' \in [Address -> SUBSET Packet]
    BY <2>2 DEF SafeInv, PacketsOK, Sent
  <2>4. \A a \in Address : \A q \in inbox'[a] : q \in inbox[a] \/ q.kind = "frame"
    BY <2>2 DEF Sent
  <2>5. PacketsOK'
    <3>1. \A a \in Address : \A q \in inbox'[a] : q.kind = "hello" => q.from = a
      BY <2>4 DEF SafeInv, PacketsOK
    <3> QED BY <2>1, <2>3, <3>1 DEF SafeInv, PacketsOK
  <2>6. ASSUME NEW c \in Clients PROVE Safe(c)'
    <3>1. \A a \in Address : FirstHello(c) \in inbox'[a] => FirstHello(c) \in inbox[a]
      BY <2>4 DEF FirstHello
    <3> QED BY <2>1, <3>1, SafeKept DEF SafeInv
  <2> QED BY <1>0, <2>5, <2>6 DEF SafeInv
<1>3. ASSUME UNCHANGED <<inbox, duplicates>>, network' \subseteq network PROVE SafeInv'
  <2>1. PacketsOK'
    BY <1>3 DEF SafeInv, PacketsOK
  <2>2. ASSUME NEW c \in Clients PROVE Safe(c)'
    BY <1>3, SafeKept DEF SafeInv
  <2> QED BY <1>0, <2>1, <2>2 DEF SafeInv
<1> QED BY <1>1, <1>2, <1>3 DEF ServerStep, ServeError, Lose

\* Steps of a command that touch neither threads nor the network.
LEMMA CommandsSafe ==
  ASSUME SafeInv, NEW c \in Clients, UNCHANGED plan,
         \/ \E kind \in plan.kinds[c] : Request(c, kind)
         \/ Post(c) \/ Answer(c) \/ NoAnswer(c) \/ GiveUp(c) \/ Reset(c) \/ Stop(c)
         \/ Assign(c)
  PROVE  SafeInv'
<1>0. ThreadsInv'
  BY CommandsThreads, AssignThreads DEF SafeInv
<1> USE DEF SafeInv, PacketsOK, ThreadsInv, StreamTypeOK
<1>1. /\ UNCHANGED <<made, thread, network, duplicates>>
      /\ \A d \in Clients \ {c} : socket'[d] = socket[d] /\ console'[d] = console[d]
  BY DEF Request, Post, Answer, NoAnswer, GiveUp, Reset, Stop, Assign
<1>2. console'[c].at = "hello" => console[c].at = "hello" /\ socket'[c] = socket[c]
  <2>1. \A w \in Console : [w EXCEPT !.tries = @ - 1].at = w.at
    BY DEF Console
  <2>2. ASSUME NEW kind \in plan.kinds[c], Request(c, kind) PROVE console'[c].at # "hello"
    BY <2>2 DEF Request
  <2>3. ASSUME Post(c) \/ Answer(c) \/ GiveUp(c) \/ Reset(c) \/ Stop(c) \/ Assign(c)
        PROVE  console'[c].at # "hello"
    BY <2>3 DEF Post, Answer, GiveUp, Reset, Stop, Assign, Console
  <2>4. CASE NoAnswer(c)
    BY <2>1, <2>4 DEF NoAnswer
  <2> QED BY <2>2, <2>3, <2>4
<1>3. socket'[c] \in {0, socket[c]}
  BY DEF Request, Post, Answer, NoAnswer, GiveUp, Reset, Stop, Assign
<1>4. inbox' \in [Address -> SUBSET Packet] /\ \A a \in Address : inbox'[a] \subseteq inbox[a]
  <2>1. UNCHANGED inbox
        \/ \E a \in {<<c, socket[c]>>}, p \in Packet :
              inbox' = [inbox EXCEPT ![a] = @ \ {p}]
    <3>1. NoAnswer(c) => \/ UNCHANGED inbox
                         \/ \E p \in inbox[<<c, socket[c]>>] :
                              inbox' = [inbox EXCEPT ![<<c, socket[c]>>] = @ \ {p}]
      BY DEF NoAnswer
    <3>2. NoAnswer(c) => <<c, socket[c]>> \in Address
      <4> SUFFICES ASSUME NoAnswer(c) PROVE <<c, socket[c]>> \in Address
        OBVIOUS
      <4>1. socket[c] = made[c] /\ made[c] <= MaxStarts /\ streamThread[c] < made[c]
        BY DEF NoAnswer, Safe, SocketKept, Threads
      <4> QED BY <4>1, ConstantsAssumption DEF ConstantsAssumption, Address, Starts
    <3> QED BY <3>1, <3>2 DEF Request, Post, Answer, GiveUp, Reset, Stop, Assign
  <2> QED BY <2>1
<1>5. PacketsOK'
  BY <1>1, <1>4
<1>6. ASSUME NEW d \in Clients PROVE Safe(d)'
  <2>1. CASE socket'[d] = socket[d]
    <3>1. console'[d].at = "hello" => console[d].at = "hello"
      BY <1>1, <1>2
    <3> QED BY <1>1, <1>4, <2>1, <3>1, SafeKept
  <2>2. CASE socket'[d] # socket[d]
    <3>1. d = c /\ socket'[c] = 0 /\ console'[c].at # "hello"
      BY <1>1, <1>2, <1>3, <2>2
    <3>2. Quiet(c) => Quiet(c)'
      BY <1>1, <1>4 DEF Quiet, FirstHello
    <3>3. HelloGone(c)'
      BY <1>1, <1>4, <3>2 DEF Safe, HelloGone, FirstHello
    <3>4. SocketKept(c)' /\ Unharmed(c)'
      BY <1>1, <3>1 DEF Safe, SocketKept, Unharmed
    <3> QED BY <3>1, <3>3, <3>4 DEF Safe
  <2> QED BY <2>1, <2>2
<1> QED BY <1>0, <1>5, <1>6

LEMMA MakeSocketSafe ==
  ASSUME SafeInv, NEW c \in Clients, UNCHANGED plan, MakeSocket(c)
  PROVE  SafeInv'
<1>0. ThreadsInv'
  BY MakeSocketThreads DEF SafeInv
<1> USE DEF SafeInv, PacketsOK, ThreadsInv, StreamTypeOK
<1> DEFINE n == made[c] + 1
           hello == [kind |-> "hello", from |-> <<c, n>>]
<1>1. n \in Starts /\ made[c] \in Nat
  BY ConstantsAssumption DEF MakeSocket, Threads, Before, ConstantsAssumption, Starts
<1>2. /\ made' = [made EXCEPT ![c] = n] /\ socket' = [socket EXCEPT ![c] = n]
      /\ UNCHANGED <<thread, inbox, duplicates>>
      /\ \A d \in Clients \ {c} : console'[d] = console[d]
  BY DEF MakeSocket
<1>3. network' = network \cup {hello}
  BY <1>2 DEF MakeSocket, Hello
<1>4. hello \in Packet
  BY <1>1 DEF Packet, Address
<1>5. PacketsOK'
  BY <1>2, <1>3, <1>4
<1>6. \A d \in Clients \ {c} : Safe(d)'
  <2> TAKE d \in Clients \ {c}
  <2>1. hello # FirstHello(d)
    BY DEF FirstHello
  <2> QED BY <1>2, <1>3, <2>1, SafeKept
<1>7. Safe(c)'
  <2>1. made'[c] = n /\ socket'[c] = n /\ n # 0
    BY <1>1, <1>2
  <2>2. CASE n = 1
    <3>1. Quiet(c) /\ \A k \in Starts : thread[c][k].at = "none"
      BY <1>1, <2>2 DEF Safe, HelloGone, Threads, Starts
    <3>2. HelloGone(c)'
      BY <1>2, <2>1, <2>2, <3>1 DEF HelloGone, Quiet, FirstHello
    <3>3. SocketKept(c)' /\ Unharmed(c)'
      BY <1>2, <2>1, <3>1 DEF SocketKept, Unharmed, Defined
    <3> QED BY <3>2, <3>3 DEF Safe
  <2>3. CASE n # 1
    BY <1>1, <1>2, <2>1, <2>3 DEF Safe, HelloGone, SocketKept, Unharmed
  <2> QED BY <2>2, <2>3
<1> QED BY <1>0, <1>5, <1>6, <1>7

LEMMA HelloAnsweredSafe ==
  ASSUME SafeInv, NEW c \in Clients, UNCHANGED plan, HelloAnswered(c)
  PROVE  SafeInv'
<1>0. ThreadsInv'
  BY HelloAnsweredThreads DEF SafeInv
<1> USE DEF SafeInv, PacketsOK, ThreadsInv, StreamTypeOK
<1>1. /\ console[c].at = "hello" /\ console'[c].at = "assign"
      /\ \A d \in Clients \ {c} : console'[d] = console[d] /\ thread'[d] = thread[d]
      /\ UNCHANGED <<socket, made, network, duplicates>>
  BY DEF HelloAnswered, Console
<1>2. socket[c] = made[c] /\ made[c] \in Starts
  BY <1>1, ConstantsAssumption DEF Safe, SocketKept, Threads, ConstantsAssumption, Starts
<1> DEFINE mine == <<c, socket[c]>>
<1>3. mine \in Address
  BY <1>2 DEF Address
<1>4. inbox' = [inbox EXCEPT ![mine] = @ \ {Hello(c)}] /\ Hello(c) \in inbox[mine]
  BY DEF HelloAnswered
<1>5. /\ inbox' \in [Address -> SUBSET Packet] /\ \A a \in Address : inbox'[a] \subseteq inbox[a]
      /\ Hello(c) \notin inbox'[mine]
  BY <1>3, <1>4
<1>6. PacketsOK'
  BY <1>1, <1>5
<1>7. \A d \in Clients \ {c} : Safe(d)'
  <2> TAKE d \in Clients \ {c}
  <2> QED BY <1>1, <1>5, SafeKept
<1>8. Safe(c)'
  <2>1. \A k \in Starts : \/ thread'[c][k].at = "begin"
                          \/ /\ thread'[c][k].at = thread[c][k].at
                             /\ thread'[c][k].socket = thread[c][k].socket
                             /\ thread'[c][k].kind = thread[c][k].kind
                             /\ thread[c][k].stop => thread'[c][k].stop
    <3> TAKE k \in Starts
    <3> DEFINE new == [at |-> "begin", stop |-> FALSE, kind |-> console[c].kind, socket |-> 0]
               b == thread[c][k].stop \/ k = streamThread[c]
               told == [thread[c][k] EXCEPT !.stop = b]
    <3>1. new.at = "begin"
      OBVIOUS
    <3>2. thread'[c][k] = IF k = made[c] THEN new ELSE told
      BY DEF HelloAnswered, ToldToStop
    <3>3. b \in BOOLEAN /\ thread[c][k] \in Thread /\ (thread[c][k].stop => b)
      OBVIOUS
    <3> HIDE DEF new, b
    <3>4. /\ told.at = thread[c][k].at /\ told.socket = thread[c][k].socket
          /\ told.kind = thread[c][k].kind /\ (thread[c][k].stop => told.stop)
      BY <3>3, ThreadStop DEF Thread
    <3> HIDE DEF told
    <3> QED BY <3>1, <3>2, <3>4
  <2>2. Unharmed(c) => Unharmed(c)'
    BY <1>1, <2>1 DEF Unharmed, Defined
  <2>3. HelloGone(c)'
    <3>1. made'[c] # 0
      BY <1>1, <1>2 DEF Starts
    <3>2. ASSUME made[c] = 1, duplicates = 0 PROVE Quiet(c)'
      <4>1. Hello(c) = FirstHello(c)
        BY <1>2, <3>2 DEF Hello, FirstHello
      <4>2. FirstHello(c) \notin network
        BY <1>3, <1>4, <3>2, <4>1 DEF Safe, HelloGone
      <4>3. ASSUME NEW a \in Address PROVE FirstHello(c) \notin inbox'[a]
        <5>1. FirstHello(c) \in inbox[a] => a = mine
          BY <1>2, <3>2 DEF FirstHello
        <5> QED BY <1>5, <4>1, <5>1
      <4> QED BY <1>1, <4>2, <4>3 DEF Quiet, FirstHello
    <3> QED BY <1>1, <3>1, <3>2 DEF HelloGone, Quiet
  <2>4. SocketKept(c)'
    <3>1. ASSUME made[c] = 1, NEW k \in Starts PROVE thread'[c][k].at # "call"
      <4>1. thread[c][k].at = "none"
        BY <1>1, <3>1 DEF Threads, Starts
      <4> QED BY <2>1, <4>1
    <3>2. \A k \in Starts : thread'[c][k].at = "call" => thread'[c][k].socket # 0
      BY <2>1 DEF Safe, SocketKept
    <3> QED BY <1>1, <1>2, <3>1, <3>2 DEF SocketKept
  <2> QED BY <2>2, <2>3, <2>4 DEF Safe
<1> QED BY <1>0, <1>6, <1>7, <1>8

\* streamThread is told to stop, with a new socket or not, that has said no hello.
LEMMA StopAskedSafe ==
  ASSUME SafeInv, NEW c \in Clients, thread' = StopAsked(c),
         UNCHANGED <<network, inbox, duplicates>>,
         \A d \in Clients \ {c} :
           console'[d] = console[d] /\ made'[d] = made[d] /\ socket'[d] = socket[d],
         console'[c].at # "hello",
         \/ made'[c] = made[c] /\ socket'[c] = socket[c]
         \/ made'[c] = made[c] + 1 /\ socket'[c] = made[c] + 1
  PROVE  PacketsOK' /\ \A d \in Clients : Safe(d)'
<1> USE DEF SafeInv, PacketsOK, ThreadsInv, StreamTypeOK
<1>1. /\ \A d \in Clients \ {c} : thread'[d] = thread[d]
      /\ \A k \in Starts : /\ thread'[c][k].at = thread[c][k].at
                           /\ thread'[c][k].socket = thread[c][k].socket
                           /\ thread'[c][k].kind = thread[c][k].kind
                           /\ thread[c][k].stop => thread'[c][k].stop
  BY StopAskedFacts
<1>2. \A d \in Clients \ {c} : Safe(d)'
  <2> TAKE d \in Clients \ {c}
  <2> QED BY <1>1, SafeKept
<1>3. Defined(c) => Defined(c)'
  BY <1>1 DEF Defined
<1>4. Quiet(c)' <=> Quiet(c)
  BY DEF Quiet, FirstHello
<1>5. CASE made'[c] = made[c] /\ socket'[c] = socket[c]
  <2>1. HelloGone(c)'
    <3> HIDE DEF SafeInv
    <3>1. HelloGone(c)
      BY DEF SafeInv, Safe
    <3>2. \A k \in Starts : thread'[c][k].at = thread[c][k].at
      BY <1>1
    <3>3. network' = network /\ inbox' = inbox /\ duplicates' = duplicates
      OBVIOUS
    <3> QED BY ONLY <1>4, <1>5, <3>1, <3>2, <3>3 DEF HelloGone, FirstHello
  <2>2. SocketKept(c)'
    <3> HIDE DEF SafeInv
    <3>1. SocketKept(c)
      BY DEF SafeInv, Safe
    <3>2. console'[c].at # "hello"
      OBVIOUS
    <3> QED BY ONLY <1>1, <1>5, <3>1, <3>2 DEF SocketKept
  <2>3. Unharmed(c)'
    BY <1>3, <1>5 DEF Safe, Unharmed
  <2> QED BY <1>2, <2>1, <2>2, <2>3 DEF Safe
<1>6. CASE made'[c] = made[c] + 1 /\ socket'[c] = made[c] + 1
  <2> DEFINE n == made[c] + 1
  <2>1. made[c] \in Nat /\ n # 0 /\ made'[c] = n /\ socket'[c] = n
    BY <1>6
  <2>2. CASE n = 1
    <3>1. Quiet(c) /\ \A k \in Starts : thread[c][k].at = "none"
      BY <2>1, <2>2 DEF Safe, HelloGone, Threads, Starts
    <3>2. HelloGone(c)'
      BY <1>4, <2>1, <2>2, <3>1 DEF HelloGone, Quiet, FirstHello
    <3>3. SocketKept(c)' /\ Unharmed(c)'
      BY <1>1, <2>1, <3>1 DEF SocketKept, Unharmed, Defined
    <3> QED BY <1>2, <3>2, <3>3 DEF Safe
  <2>3. CASE n # 1
    <3>1. HelloGone(c)' /\ Unharmed(c)'
      BY <2>1, <2>3 DEF HelloGone, Unharmed
    <3>2. SocketKept(c)'
      BY <1>1, <2>1, <2>3 DEF Safe, SocketKept
    <3> QED BY <1>2, <3>1, <3>2 DEF Safe
  <2> QED BY <2>2, <2>3
<1> QED BY <1>5, <1>6

LEMMA RequestStopSafe ==
  ASSUME SafeInv, NEW c \in Clients, UNCHANGED plan, RequestStop(c)
  PROVE  SafeInv'
<1>0. ThreadsInv'
  BY RequestStopThreads DEF SafeInv
<1>1. /\ console'[c].at = "reset"
      /\ \A d \in Clients \ {c} : console'[d] = console[d]
      /\ UNCHANGED <<socket, made, network, inbox, duplicates>> /\ thread' = StopAsked(c)
  BY DEF SafeInv, ThreadsInv, StreamTypeOK, RequestStop, Console
<1> QED BY <1>0, <1>1, StopAskedSafe DEF SafeInv

LEMMA MakeSocketThrowsSafe ==
  ASSUME SafeInv, NEW c \in Clients, UNCHANGED plan, MakeSocketThrows(c)
  PROVE  SafeInv'
<1>1. ThreadsInv /\ ThreadsInv'
  BY MakeSocketThrowsThreads DEF SafeInv
<1> QED BY <1>1, MakeSocketThrowsFacts, StopAskedSafe DEF SafeInv

LEMMA ThreadStepSafe ==
  ASSUME SafeInv, NEW c \in Clients, NEW k \in Starts, UNCHANGED plan, ThreadStep(c, k)
  PROVE  SafeInv'
<1>0. ThreadsInv'
  BY ThreadStepThreads DEF SafeInv
<1> USE DEF SafeInv, PacketsOK, ThreadsInv, StreamTypeOK
<1>1. /\ UNCHANGED <<socket, made, console, duplicates>>
      /\ thread[c][k].at # "none" /\ thread[c][k] \in Thread
  BY StepFacts DEF Live
<1> DEFINE Hurts == \/ Look(c, k) /\ socket[c] = 0
                    \/ CaughtClosed(c, k)
                    \/ ViewFrame(c, k) /\ \E p \in inbox[<<c, socket[c]>>] : p.kind = "hello"
           Comes(t) == /\ Becomes(c, k, t)
                       /\ \/ t.at \in {"over", "look", "check", "threw"}
                          \/ t.at = "call" /\ t.socket = socket[c] /\ socket[c] # 0
                          \/ t.at = "undefined" /\ Hurts
                          \/ t.at = "undefined" /\ t.kind = "view" /\ t.stop
<1>2. \E t : Comes(t)
  <2>1. CASE CheckStop(c, k)
    <3>1. PICK v \in {"look", "over", "threw", "undefined"} :
            /\ Becomes(c, k, [thread[c][k] EXCEPT !.at = v])
            /\ v = "undefined" => thread[c][k].kind = "view" /\ thread[c][k].stop
      BY <2>1 DEF CheckStop, Ends, StopRequested
    <3> DEFINE t == [thread[c][k] EXCEPT !.at = v]
    <3>2. t.at = v /\ t.kind = thread[c][k].kind /\ t.stop = thread[c][k].stop
      BY <1>1 DEF Thread
    <3>3. Becomes(c, k, t)
      BY <3>1
    <3> HIDE DEF t, Hurts
    <3> QED BY <3>1, <3>2, <3>3
  <2>2. CASE Look(c, k)
    <3> DEFINE v == IF socket[c] = 0 THEN "undefined" ELSE "call"
               t == [thread[c][k] EXCEPT !.at = v, !.socket = socket[c]]
    <3>1. t.at = v /\ t.socket = socket[c]
      BY <1>1 DEF Thread
    <3>2. Becomes(c, k, t)
      BY <2>2 DEF Look
    <3> HIDE DEF t
    <3> QED BY <2>2, <3>1, <3>2
  <2>3. CASE Begin(c, k) \/ FrameStep(c, k)
    <3>1. /\ Is(c, k, "check").at = "check" /\ Is(c, k, "threw").at = "threw"
          /\ Is(c, k, "undefined").at = "undefined"
      BY <1>1 DEF Is, Thread
    <3>2. \/ Becomes(c, k, Is(c, k, "check")) \/ Becomes(c, k, Is(c, k, "threw"))
          \/ Becomes(c, k, Is(c, k, "undefined")) /\ Hurts
      BY <2>3, FrameLeaves DEF Begin
    <3> HIDE DEF Hurts
    <3> QED BY <3>1, <3>2
  <2> QED BY <2>1, <2>2, <2>3, StepCases
<1>t. PICK t : Comes(t)
  BY <1>2
<1>3. /\ \A d \in Clients \ {c} : thread'[d] = thread[d]
      /\ \A j \in Starts : IF j = k THEN thread'[c][j] = t ELSE thread'[c][j] = thread[c][j]
  BY <1>t DEF Becomes
<1>4. \A j \in Starts : thread'[c][j].at = "call" => thread'[c][j].socket # 0
  BY <1>t, <1>3 DEF Safe, SocketKept
<1>5. /\ network' \subseteq Packet /\ \A p \in network' : p.kind = "hello" => p \in network
      /\ inbox' \in [Address -> SUBSET Packet] /\ \A a \in Address : inbox'[a] \subseteq inbox[a]
  <2>1. CASE SendFrame(c, k)
    <3> DEFINE frame == [kind |-> "frame", from |-> <<c, socket[c]>>]
    <3>1. /\ network' \in {network, network \cup {frame}} /\ inbox' = inbox
          /\ socket[c] = thread[c][k].socket
      BY <2>1 DEF SendFrame
    <3>2. socket[c] \in Starts
      BY <2>1, ConstantsAssumption DEF SendFrame, Calls, Safe, SocketKept, Starts, ConstantsAssumption
    <3>3. frame \in Packet
      BY <3>2 DEF Packet, Address
    <3>4. frame.kind = "frame"
      OBVIOUS
    <3> HIDE DEF frame
    <3> QED BY <3>1, <3>3, <3>4
  <2>2. CASE ViewFrame(c, k)
    <3>1. network' = network
      BY <2>2 DEF ViewFrame
    <3>2. PICK p : inbox' = [inbox EXCEPT ![<<c, socket[c]>>] = @ \ {p}]
      BY <2>2 DEF ViewFrame
    <3>3. inbox \in [Address -> SUBSET Packet]
      OBVIOUS
    <3>4. \A a \in Address : inbox'[a] \subseteq inbox[a] /\ inbox'[a] \subseteq Packet
      BY ONLY <3>2, <3>3
    <3>5. inbox' \in [Address -> SUBSET Packet]
      BY ONLY <3>2, <3>3, <3>4
    <3> QED BY <3>1, <3>4, <3>5
  <2>3. CASE Begin(c, k) \/ CheckStop(c, k) \/ Look(c, k) \/ NothingToView(c, k) \/ CaughtClosed(c, k)
    BY <2>3 DEF Begin, CheckStop, Look, NothingToView, CaughtClosed, UseAfterClose
  <2> QED BY <2>1, <2>2, <2>3, StepCases DEF FrameStep
<1>6. PacketsOK'
  BY <1>1, <1>5
<1>7. \A d \in Clients \ {c} : Safe(d)'
  <2> TAKE d \in Clients \ {c}
  <2>1. FirstHello(d) \in network' => FirstHello(d) \in network
    BY <1>5 DEF FirstHello
  <2> QED BY <1>1, <1>3, <1>5, <2>1, SafeKept
<1>8. Safe(c)'
  <2>1. HelloGone(c)'
    <3>1. FirstHello(c) \in network' => FirstHello(c) \in network
      BY <1>5 DEF FirstHello
    <3>2. Quiet(c) => Quiet(c)'
      BY <1>5, <3>1 DEF Quiet, FirstHello
    <3>3. made[c] = 1 /\ duplicates = 0 => Quiet(c)
      BY <1>1 DEF Safe, HelloGone
    <3> QED BY <1>1, <3>2, <3>3 DEF Safe, HelloGone, Quiet
  <2>2. CASE ~(made[c] = 1 /\ socket[c] = 1)
    BY <1>1, <1>4, <2>1, <2>2 DEF Safe, SocketKept, Unharmed
  <2>3. CASE made[c] = 1 /\ socket[c] = 1
    <3>1. ~CaughtClosed(c, k)
      BY <2>3 DEF CaughtClosed, UseAfterClose, Calls, Safe, SocketKept
    <3>2. ViewFrame(c, k) /\ duplicates = 0 => \A p \in inbox[<<c, socket[c]>>] : p.kind # "hello"
      <4> SUFFICES ASSUME duplicates = 0, NEW p \in inbox[<<c, 1>>], p.kind = "hello"
                   PROVE  FALSE
        BY <2>3
      <4>1. <<c, 1>> \in Address
        BY <2>3, ConstantsAssumption DEF Threads, Address, Starts, ConstantsAssumption
      <4>2. p \in Packet /\ p.from = <<c, 1>>
        BY <4>1
      <4>3. p = FirstHello(c)
        BY <4>2 DEF Packet, FirstHello
      <4>4. Quiet(c)
        BY <1>1, <2>3 DEF Safe, HelloGone
      <4> QED BY <4>1, <4>3, <4>4 DEF Quiet
    <3>3. \A j \in Starts : thread'[c][j].at = "call" => thread'[c][j].socket = 1
      BY <1>t, <1>3, <2>3 DEF Safe, SocketKept
    <3>4. duplicates = 0 => Defined(c)'
      <4>1. duplicates = 0 => ~Hurts
        <5>1. ~(Look(c, k) /\ socket[c] = 0)
          BY <2>3
        <5>2. duplicates = 0 =>
                ~(ViewFrame(c, k) /\ \E p \in inbox[<<c, socket[c]>>] : p.kind = "hello")
          BY <3>2
        <5> QED BY <3>1, <5>1, <5>2
      <4>2. duplicates = 0 => (t.at = "undefined" => t.kind = "view" /\ t.stop)
        <5> HIDE DEF Hurts
        <5> QED BY <1>t, <4>1
      <4>3. duplicates = 0 => Defined(c)
        BY <2>3 DEF Safe, Unharmed
      <4> QED BY <1>3, <4>2, <4>3 DEF Defined
    <3> QED BY <1>1, <1>4, <2>1, <2>3, <3>3, <3>4 DEF Safe, SocketKept, Unharmed, Defined
  <2> QED BY <2>2, <2>3
<1> QED BY <1>0, <1>6, <1>7, <1>8

LEMMA NextSafe == SafeInv /\ [Next]_vars => SafeInv'
<1> SUFFICES ASSUME SafeInv, [Next]_vars PROVE SafeInv'
  OBVIOUS
<1>1. CASE UNCHANGED vars
  <2>1. ThreadsInv' /\ PacketsOK'
    BY <1>1, ServerThreads DEF vars, SafeInv, PacketsOK
  <2>2. \A c \in Clients : Safe(c)'
    BY <1>1, SafeKept DEF vars, client, SafeInv
  <2> QED BY <2>1, <2>2 DEF SafeInv
<1>2. ASSUME UNCHANGED plan, ServerStep \/ \E p \in network : Lose(p) PROVE SafeInv'
  <2>1. UNCHANGED client
    BY <1>2 DEF ServerStep, ServeHello, ServeFrame, ServeThrows, ServeError, Lose
  <2> QED BY <1>2, <2>1, ServerSafe
<1>3. ASSUME UNCHANGED plan, NEW c \in Clients, CommandGoesOn(c) PROVE SafeInv'
  BY <1>3, CommandsSafe, MakeSocketSafe, MakeSocketThrowsSafe, HelloAnsweredSafe
  DEF CommandGoesOn
<1>4. Present \subseteq Clients
  BY DEF Present
<1> QED BY <1>1, <1>2, <1>3, <1>4, CommandsSafe, RequestStopSafe, ThreadStepSafe
        DEF Next, ThreadStep

\* runStream and runViewStream: while nothing was repeated, the stream thread of a client
\* with the one socket it ever made may throw, but finds the socket each time, and in it no
\* hello to take for a chunk.
THEOREM UndefinedOnlyByCommandsAlways == Spec => []UndefinedOnlyByCommands
<1>1. SafeInv => UndefinedOnlyByCommands
  BY DEF SafeInv, Safe, Unharmed, Defined, UndefinedOnlyByCommands
<1> QED BY <1>1, InitSafe, NextSafe, PTL DEF Spec

-----------------------------------------------------------------------------
(* Who is sent what.                                                       *)

HelloOf(a) == [kind |-> "hello", from |-> a]
FrameOf(a) == [kind |-> "frame", from |-> a]

ServerTypeOK ==
  /\ clients \in Seq(Address)
  /\ started \in BOOLEAN /\ serving \in BOOLEAN /\ former \in BOOLEAN
  /\ duplicates <= plan.duplicates

\* While nothing was repeated a socket says hello once: the hello is yet to come, or on its
\* way, or its sender may be listed, of which only one is true.
HelloOnce ==
  duplicates = 0 =>
    /\ \A i, j \in DOMAIN clients : clients[i] = clients[j] => i = j
    /\ \A i \in DOMAIN clients : HelloOf(clients[i]) \notin network
    /\ \A c \in Clients, n \in Starts : n > made[c] =>
         HelloOf(<<c, n>>) \notin network /\ <<c, n>> \notin Entries

NoFrameBack == duplicates = 0 => \A a \in Address : FrameOf(a) \notin inbox[a]

StreamsIInv == SafeInv /\ ServerTypeOK /\ HelloOnce /\ NoFrameBack

LEMMA InitStreams == Init => StreamsIInv
<1> SUFFICES ASSUME Init PROVE StreamsIInv
  OBVIOUS
<1>1. ServerTypeOK
  <2>1. plan.duplicates \in Nat
    BY ConstantsAssumption DEF Init, ConstantsAssumption
  <2>2. clients \in Seq(Address)
    BY DEF Init
  <2>3. duplicates <= plan.duplicates
    BY <2>1 DEF Init
  <2> QED BY <2>2, <2>3 DEF Init, ServerTypeOK
<1>2. HelloOnce /\ NoFrameBack
  BY DEF Init, HelloOnce, NoFrameBack, Entries
<1> QED BY <1>1, <1>2, InitSafe DEF StreamsIInv

\* Steps after which nobody else is listed and nobody was sent anything.
LEMMA NothingSent ==
  ASSUME StreamsIInv, UNCHANGED clients,
         \A c \in Clients, n \in Starts : n > made'[c] => n > made[c],
         duplicates' = 0 => duplicates = 0,
         \A a \in Address : HelloOf(a) \in network' => HelloOf(a) \in network,
         \A a \in Address : FrameOf(a) \in inbox'[a] => FrameOf(a) \in inbox[a]
  PROVE  HelloOnce' /\ NoFrameBack'
<1>1. \A i \in DOMAIN clients : clients[i] \in Address
  BY DEF StreamsIInv, ServerTypeOK
<1>2. \A c \in Clients, n \in Starts : <<c, n>> \in Address
  BY DEF Address
<1>3. Entries' = Entries /\ \A a : HelloOf(a)' = HelloOf(a) /\ FrameOf(a)' = FrameOf(a)
  BY DEF Entries, HelloOf, FrameOf
<1>4. HelloOnce'
  BY <1>1, <1>2, <1>3 DEF StreamsIInv, HelloOnce
<1>5. NoFrameBack'
  BY <1>3 DEF StreamsIInv, NoFrameBack
<1> QED BY <1>4, <1>5

\* A socket that is read has no more in it than before.
LEMMA ReadInbox ==
  ASSUME PacketsOK, NEW x, NEW p, inbox' = [inbox EXCEPT ![x] = @ \ {p}]
  PROVE  \A a \in Address : inbox'[a] \subseteq inbox[a]
BY DEF PacketsOK

LEMMA CommandsStreams ==
  ASSUME StreamsIInv, NEW c \in Clients, UNCHANGED plan,
         \/ \E kind \in plan.kinds[c] : Request(c, kind)
         \/ Post(c) \/ Answer(c) \/ NoAnswer(c) \/ GiveUp(c) \/ Reset(c) \/ Stop(c)
         \/ Assign(c) \/ HelloAnswered(c) \/ RequestStop(c)
  PROVE  StreamsIInv'
<1>1. SafeInv'
  BY CommandsSafe, HelloAnsweredSafe, RequestStopSafe DEF StreamsIInv
<1>2. UNCHANGED <<clients, made, network, duplicates>>
  BY DEF Request, Post, Answer, NoAnswer, GiveUp, Reset, Stop, Assign, HelloAnswered, RequestStop,
         server
<1>3. started' \in BOOLEAN /\ serving' \in BOOLEAN /\ former' \in BOOLEAN
  <2>1. started \in BOOLEAN /\ serving \in BOOLEAN /\ former \in BOOLEAN
    BY DEF StreamsIInv, ServerTypeOK
  <2>2. CASE Post(c)
    BY <2>1, <2>2 DEF Post
  <2> QED BY <2>1, <2>2
      DEF Request, Answer, NoAnswer, GiveUp, Reset, Stop, Assign, HelloAnswered, RequestStop, server
<1>4. ServerTypeOK'
  BY <1>2, <1>3 DEF StreamsIInv, ServerTypeOK
<1>5. \A a \in Address : inbox'[a] \subseteq inbox[a]
  <2>1. UNCHANGED inbox \/ \E x, p : inbox' = [inbox EXCEPT ![x] = @ \ {p}]
    BY DEF Request, Post, Answer, NoAnswer, GiveUp, Reset, Stop, Assign, HelloAnswered, RequestStop
  <2> QED BY <2>1, ReadInbox DEF StreamsIInv, SafeInv
<1>6. HelloOnce' /\ NoFrameBack'
  BY <1>2, <1>5, NothingSent
<1> QED BY <1>1, <1>4, <1>6 DEF StreamsIInv

\* A frame on its way is no hello.
LEMMA ThreadStepStreams ==
  ASSUME StreamsIInv, NEW c \in Clients, NEW k \in Starts, UNCHANGED plan, ThreadStep(c, k)
  PROVE  StreamsIInv'
<1>1. SafeInv'
  BY ThreadStepSafe DEF StreamsIInv
<1>2. UNCHANGED <<clients, started, serving, former, made, duplicates>>
  BY StepFacts
<1>3. ServerTypeOK'
  BY <1>2 DEF StreamsIInv, ServerTypeOK
<1>4. \A a \in Address : inbox'[a] \subseteq inbox[a]
  <2>1. UNCHANGED inbox \/ \E x, p : inbox' = [inbox EXCEPT ![x] = @ \ {p}]
    BY StepCases
    DEF FrameStep, CaughtClosed, Begin, CheckStop, Look, SendFrame, NothingToView, ViewFrame,
        UseAfterClose
  <2> QED BY <2>1, ReadInbox DEF StreamsIInv, SafeInv
<1>5. \A a \in Address : HelloOf(a) \in network' => HelloOf(a) \in network
  <2>1. UNCHANGED network \/ \E b : network' = network \cup {FrameOf(b)}
    BY StepCases
    DEF FrameStep, CaughtClosed, Begin, CheckStop, Look, SendFrame, NothingToView, ViewFrame,
        UseAfterClose, FrameOf
  <2>2. \A a, b : HelloOf(a) # FrameOf(b)
    BY DEF HelloOf, FrameOf
  <2> QED BY <2>1, <2>2
<1>6. HelloOnce' /\ NoFrameBack'
  BY <1>2, <1>4, <1>5, NothingSent
<1> QED BY <1>1, <1>3, <1>6 DEF StreamsIInv

\* A socket that has said no hello is nobody's to list.
LEMMA MakeSocketThrowsStreams ==
  ASSUME StreamsIInv, NEW c \in Clients, UNCHANGED plan, MakeSocketThrows(c)
  PROVE  StreamsIInv'
<1>1. ThreadsInv /\ SafeInv'
  BY MakeSocketThrowsSafe DEF StreamsIInv, SafeInv
<1>2. UNCHANGED <<clients, started, serving, former, network, inbox, duplicates>>
  BY DEF MakeSocketThrows, server
<1>3. ServerTypeOK'
  BY <1>2 DEF StreamsIInv, ServerTypeOK
<1>4. \A d \in Clients, n \in Starts : n > made'[d] => n > made[d]
  <2> TAKE d \in Clients, n \in Starts
  <2>1. made'[d] = made[d] \/ (made'[d] = made[d] + 1 /\ made[d] \in Nat)
    BY <1>1, MakeSocketThrowsFacts
  <2> QED BY <2>1 DEF Starts
<1>5. HelloOnce' /\ NoFrameBack'
  BY <1>2, <1>4, NothingSent
<1> QED BY <1>1, <1>3, <1>5 DEF StreamsIInv

\* A new socket says the only hello there is of its address.
LEMMA MakeSocketStreams ==
  ASSUME StreamsIInv, NEW c \in Clients, UNCHANGED plan, MakeSocket(c)
  PROVE  StreamsIInv'
<1> DEFINE n == made[c] + 1
<1>1. SafeInv'
  BY MakeSocketSafe DEF StreamsIInv
<1>2. /\ made' = [made EXCEPT ![c] = n] /\ made \in [Clients -> Nat]
      /\ network' = network \cup {HelloOf(<<c, n>>)}
      /\ UNCHANGED <<clients, started, serving, former, inbox, duplicates>>
  BY DEF MakeSocket, Hello, HelloOf, server, StreamsIInv, SafeInv, ThreadsInv, StreamTypeOK
<1>3. n \in Starts /\ n > made[c]
  BY ConstantsAssumption
  DEF MakeSocket, StreamsIInv, SafeInv, ThreadsInv, StreamTypeOK, Threads, Before,
      ConstantsAssumption, Starts
<1>4. ServerTypeOK'
  BY <1>2 DEF StreamsIInv, ServerTypeOK
<1>5. \A a, b : HelloOf(a) = HelloOf(b) => a = b
  BY DEF HelloOf
<1>6. HelloOnce'
  <2> SUFFICES ASSUME duplicates = 0 PROVE HelloOnce'
    BY <1>2 DEF HelloOnce
  <2>1. HelloOf(<<c, n>>) \notin network /\ <<c, n>> \notin Entries
    BY <1>3 DEF StreamsIInv, HelloOnce
  <2>2. \A i \in DOMAIN clients : HelloOf(clients[i]) \notin network'
    BY <1>2, <1>5, <2>1 DEF StreamsIInv, HelloOnce, Entries
  <2>3. \A d \in Clients, m \in Starts : m > made'[d] =>
          HelloOf(<<d, m>>) \notin network' /\ <<d, m>> \notin Entries
    <3> SUFFICES ASSUME NEW d \in Clients, NEW m \in Starts, m > made'[d]
                 PROVE  HelloOf(<<d, m>>) \notin network' /\ <<d, m>> \notin Entries
      OBVIOUS
    <3>1. m > made[d] /\ <<d, m>> # <<c, n>>
      BY <1>2 DEF Starts
    <3> QED BY <1>2, <1>5, <3>1 DEF StreamsIInv, HelloOnce
  <2>4. Entries' = Entries /\ \A a : HelloOf(a)' = HelloOf(a)
    BY <1>2 DEF Entries, HelloOf
  <2> QED BY <1>2, <2>2, <2>3, <2>4 DEF StreamsIInv, HelloOnce
<1>7. NoFrameBack'
  BY <1>2 DEF StreamsIInv, NoFrameBack, FrameOf
<1> QED BY <1>1, <1>4, <1>6, <1>7 DEF StreamsIInv

-----------------------------------------------------------------------------
(* The server's steps.                                                     *)

LEMMA ServerFlags ==
  ASSUME ServerTypeOK, ServerStep
  PROVE  started' \in BOOLEAN /\ serving' \in BOOLEAN /\ former' \in BOOLEAN
<1> USE DEF ServerTypeOK
<1>1. started' \in BOOLEAN
  BY DEF ServerStep, ServeHello, ServeFrame, ServeThrows, ServeError
<1>2. (\E f : CheckStarted(f)) \/ LoopEnds
  BY DEF ServerStep, ServeHello, ServeFrame, ServeThrows, ServeError
<1>3. serving' \in BOOLEAN /\ former' \in BOOLEAN
  BY <1>2 DEF CheckStarted, LoopEnds
<1> QED BY <1>1, <1>3

\* A packet that arrives while nothing is repeated is on its way no more.
LEMMA ArrivesOnce ==
  ASSUME StreamsIInv, NEW p \in network, Arrives(p), UNCHANGED plan
  PROVE  /\ network' \subseteq network /\ duplicates' <= plan'.duplicates
         /\ duplicates' = 0 => duplicates = 0 /\ p \notin network'
<1>1. /\ duplicates \in Nat /\ duplicates <= plan.duplicates /\ plan.duplicates \in Nat
  BY ConstantsAssumption
  DEF StreamsIInv, ServerTypeOK, SafeInv, PacketsOK, ThreadsInv, StreamTypeOK, ConstantsAssumption
<1> QED BY <1>1 DEF Arrives

\* A hello that is served is answered to its sender, who is listed from now on.
LEMMA HelloStreams ==
  ASSUME StreamsIInv, NEW p \in network, ServeHello(p), UNCHANGED plan
  PROVE  StreamsIInv'
<1> DEFINE m == Len(clients) + 1
<1>1. SafeInv'
  <2>1. UNCHANGED client
    BY DEF ServeHello
  <2> QED BY <2>1, ServerSafe DEF StreamsIInv, ServerStep
<1>2. p = HelloOf(p.from) /\ p.from \in Address
  BY DEF ServeHello, StreamsIInv, SafeInv, PacketsOK, Packet, HelloOf
<1>3. /\ network' \subseteq network /\ duplicates' <= plan'.duplicates
      /\ duplicates' = 0 => duplicates = 0 /\ p \notin network'
  BY ArrivesOnce DEF ServeHello
<1>4. clients' = Append(clients, p.from) /\ clients \in Seq(Address) /\ UNCHANGED made
  BY DEF ServeHello, client, StreamsIInv, ServerTypeOK
<1>5. /\ clients' \in Seq(Address) /\ DOMAIN clients' = 1..m /\ clients'[m] = p.from
      /\ DOMAIN clients = 1..Len(clients) /\ \A k \in 1..Len(clients) : clients'[k] = clients[k]
      /\ Len(clients) \in Nat
  BY <1>2, <1>4
<1>6. ServerTypeOK'
  BY <1>3, <1>5, ServerFlags DEF StreamsIInv, ServerTypeOK, ServerStep
<1>7. \A k \in 1..m : k \in 1..Len(clients) \/ k = m
  BY <1>5
<1> HIDE DEF m
<1>8. HelloOnce'
  <2> SUFFICES ASSUME duplicates' = 0 PROVE HelloOnce'
    BY DEF HelloOnce
  <2>1. duplicates = 0 /\ p \notin network' /\ network' \subseteq network
    BY <1>3
  <2>2. \A k \in 1..Len(clients) : clients[k] # p.from
    BY <1>2, <1>5, <2>1 DEF StreamsIInv, HelloOnce
  <2>3. \A i, j \in 1..m : clients'[i] = clients'[j] => i = j
    BY <1>5, <1>7, <2>1, <2>2 DEF StreamsIInv, HelloOnce
  <2>4. \A i \in 1..m : HelloOf(clients'[i]) \notin network'
    BY <1>2, <1>5, <1>7, <2>1 DEF StreamsIInv, HelloOnce
  <2>5. \A a : a \in Entries' => a \in Entries \/ a = p.from
    BY <1>5, <1>7 DEF Entries
  <2>6. \A c \in Clients, n \in Starts : n > made[c] =>
          HelloOf(<<c, n>>) \notin network' /\ <<c, n>> \notin Entries'
    BY <1>2, <2>1, <2>5 DEF StreamsIInv, HelloOnce
  <2> QED BY <1>4, <1>5, <2>3, <2>4, <2>6 DEF HelloOnce, HelloOf
<1>9. NoFrameBack'
  <2>1. \A a, b : HelloOf(a) # FrameOf(b)
    BY DEF HelloOf, FrameOf
  <2>2. \A a \in Address : FrameOf(a) \in inbox'[a] => FrameOf(a) \in inbox[a]
    BY <1>2, <2>1 DEF ServeHello, Sent
  <2> QED BY <1>3, <2>2 DEF StreamsIInv, NoFrameBack, FrameOf
<1> QED BY <1>1, <1>6, <1>8, <1>9 DEF StreamsIInv

\* A frame goes to entries of which, with nobody listed twice, none is its sender's.
LEMMA FrameStreams ==
  ASSUME StreamsIInv, NEW p \in network, ServeFrame(p) \/ ServeThrows(p), UNCHANGED plan
  PROVE  StreamsIInv'
<1>1. SafeInv'
  <2>1. UNCHANGED client
    BY DEF ServeFrame, ServeThrows
  <2> QED BY <2>1, ServerSafe DEF StreamsIInv, ServerStep
<1>2. /\ network' \subseteq network /\ duplicates' <= plan'.duplicates
      /\ duplicates' = 0 => duplicates = 0
  BY ArrivesOnce DEF ServeFrame, ServeThrows
<1>3. UNCHANGED <<clients, made>>
  BY DEF ServeFrame, ServeThrows, client
<1>4. ServerTypeOK'
  BY <1>2, <1>3, ServerFlags DEF StreamsIInv, ServerTypeOK, ServerStep
<1>5. \/ inbox' = inbox
      \/ p.kind = "frame" /\ \E S \in SUBSET Others(p.from) :
                                inbox' = Sent(p, {clients[i] : i \in S})
  BY DEF ServeFrame, ServeThrows
<1>6. ASSUME duplicates = 0, NEW i \in Others(p.from) PROVE clients[i] # p.from
  <2> SUFFICES ASSUME clients[i] = p.from PROVE FALSE
    OBVIOUS
  <2>1. i \in DOMAIN clients /\ \E j \in 1..i-1 : clients[j] = p.from
    BY DEF Others
  <2>2. PICK j \in 1..i-1 : clients[j] = p.from
    BY <2>1
  <2>3. j \in DOMAIN clients /\ j # i
    <3>1. clients \in Seq(Address)
      BY DEF StreamsIInv, ServerTypeOK
    <3> QED BY <2>1, <2>2, <3>1
  <2> QED BY <1>6, <2>1, <2>2, <2>3 DEF StreamsIInv, HelloOnce
<1>7. duplicates = 0 => \A a \in Address : FrameOf(a) \in inbox'[a] => FrameOf(a) \in inbox[a]
  <2> SUFFICES ASSUME duplicates = 0, NEW a \in Address, FrameOf(a) \in inbox'[a],
                      FrameOf(a) \notin inbox[a]
               PROVE  FALSE
    OBVIOUS
  <2>1. PICK S \in SUBSET Others(p.from) : inbox' = Sent(p, {clients[i] : i \in S})
    BY <1>5
  <2>2. p = FrameOf(a) /\ \E i \in S : clients[i] = a
    BY <2>1 DEF Sent
  <2> QED BY <1>6, <2>1, <2>2 DEF FrameOf
<1>8. HelloOnce'
  <2>1. Entries' = Entries /\ \A a : HelloOf(a)' = HelloOf(a)
    BY <1>3 DEF Entries, HelloOf
  <2> QED BY <1>2, <1>3, <2>1 DEF StreamsIInv, HelloOnce
<1>9. NoFrameBack'
  BY <1>2, <1>7 DEF StreamsIInv, NoFrameBack, FrameOf
<1> QED BY <1>1, <1>4, <1>8, <1>9 DEF StreamsIInv

\* What an error leaves of the entries was there before, and once.
LEMMA ErrorStreams ==
  ASSUME StreamsIInv, NEW a, ServeError(a), ServerStep, UNCHANGED plan
  PROVE  StreamsIInv'
<1> DEFINE gone == {i \in DOMAIN clients : clients[i] = a}
           from(i) == AtPlace(Stay(clients, gone), i)
<1>1. /\ clients' = Erased(clients, gone) /\ clients \in Seq(Address)
      /\ gone \in SUBSET DOMAIN clients
      /\ UNCHANGED <<network, inbox, made, duplicates>> /\ UNCHANGED client
  BY DEF ServeError, client, StreamsIInv, ServerTypeOK
<1>2. SafeInv'
  BY <1>1, ServerSafe DEF StreamsIInv
<1> HIDE DEF gone
<1>3. clients' \in Seq(Address)
  BY <1>1, ErasedFacts
<1>4. \A i \in DOMAIN clients' : /\ from(i) \in Stay(clients, gone) /\ clients'[i] = clients[from(i)]
                                 /\ Place(Stay(clients, gone), from(i)) = i
  BY <1>1, ErasedFacts
<1> HIDE DEF from
<1>5. \A i \in DOMAIN clients' : from(i) \in DOMAIN clients
  BY <1>4 DEF Stay
<1>6. ServerTypeOK'
  BY <1>1, <1>3, ServerFlags DEF StreamsIInv, ServerTypeOK
<1>7. HelloOnce'
  <2> SUFFICES ASSUME duplicates = 0 PROVE HelloOnce'
    BY <1>1 DEF HelloOnce
  <2>1. ASSUME NEW i \in DOMAIN clients', NEW j \in DOMAIN clients', clients'[i] = clients'[j]
        PROVE  i = j
    <3>1. from(i) = from(j)
      BY <1>4, <1>5, <2>1 DEF StreamsIInv, HelloOnce
    <3> QED BY <1>4, <3>1
  <2>2. \A i \in DOMAIN clients' : HelloOf(clients'[i]) \notin network
    BY <1>4, <1>5 DEF StreamsIInv, HelloOnce
  <2>3. \A b : b \in Entries' => b \in Entries
    BY <1>4, <1>5 DEF Entries
  <2>4. \A c \in Clients, n \in Starts : n > made[c] =>
          HelloOf(<<c, n>>) \notin network /\ <<c, n>> \notin Entries'
    BY <2>3 DEF StreamsIInv, HelloOnce
  <2> QED BY <1>1, <2>1, <2>2, <2>4 DEF HelloOnce, HelloOf
<1>8. NoFrameBack'
  BY <1>1 DEF StreamsIInv, NoFrameBack, FrameOf
<1> QED BY <1>2, <1>6, <1>7, <1>8 DEF StreamsIInv

LEMMA NextStreams == StreamsIInv /\ [Next]_vars => StreamsIInv'
<1> SUFFICES ASSUME StreamsIInv, [Next]_vars PROVE StreamsIInv'
  OBVIOUS
<1>1. CASE UNCHANGED vars
  <2>1. SafeInv'
    BY <1>1, NextSafe DEF StreamsIInv
  <2>2. UNCHANGED <<plan, clients, started, serving, former, network, inbox, made, duplicates>>
    BY <1>1 DEF vars, server, client
  <2>3. ServerTypeOK'
    BY <2>2 DEF StreamsIInv, ServerTypeOK
  <2> QED BY <2>1, <2>2, <2>3, NothingSent DEF StreamsIInv
<1>2. ASSUME UNCHANGED plan, NEW p \in network, Lose(p) PROVE StreamsIInv'
  <2>1. UNCHANGED client /\ UNCHANGED <<clients, started, serving, former, inbox, made, duplicates>>
        /\ network' \subseteq network
    BY <1>2 DEF Lose, server, client
  <2>2. SafeInv'
    BY <1>2, <2>1, ServerSafe DEF StreamsIInv
  <2>3. ServerTypeOK'
    BY <1>2, <2>1 DEF StreamsIInv, ServerTypeOK
  <2> QED BY <2>1, <2>2, <2>3, NothingSent DEF StreamsIInv
<1>3. ASSUME UNCHANGED plan, ServerStep PROVE StreamsIInv'
  BY <1>3, HelloStreams, FrameStreams, ErrorStreams DEF ServerStep
<1>4. ASSUME UNCHANGED plan, NEW c \in Clients, CommandGoesOn(c) PROVE StreamsIInv'
  BY <1>4, CommandsStreams, MakeSocketStreams, MakeSocketThrowsStreams DEF CommandGoesOn
<1>5. Present \subseteq Clients
  BY DEF Present
<1> QED BY <1>1, <1>2, <1>3, <1>4, <1>5, CommandsStreams, ThreadStepStreams
        DEF Next, ThreadStep

\* VideoStreamingServer::serve, with hellos, errors, throwing sends and joins in any order:
\* while nothing was repeated nobody is listed twice or sent back what he streams.
THEOREM StreamsSafe == Spec => []StreamsInv
<1>1. StreamsIInv => StreamsInv
  <2> SUFFICES ASSUME StreamsIInv PROVE StreamsInv
    OBVIOUS
  <2>1. TypeOK
    <3>1. /\ made \in [Clients -> Nat] /\ streamThread \in [Clients -> Nat]
          /\ \A c \in Clients : made[c] <= MaxStarts /\ streamThread[c] <= made[c]
      BY DEF StreamsIInv, SafeInv, ThreadsInv, StreamTypeOK, Threads
    <3>2. made \in [Clients -> 0..MaxStarts] /\ streamThread \in [Clients -> 0..MaxStarts]
      BY <3>1, ConstantsAssumption DEF ConstantsAssumption
    <3>3. plan.duplicates \in Nat /\ duplicates \in 0..plan.duplicates
      BY ConstantsAssumption
      DEF StreamsIInv, ServerTypeOK, SafeInv, PacketsOK, ThreadsInv, StreamTypeOK, ConstantsAssumption
    <3> QED BY <3>2, <3>3 DEF TypeOK, StreamsIInv, SafeInv, ServerTypeOK, ThreadsInv, StreamTypeOK, PacketsOK
  <2>2. NoEcho
    <3> SUFFICES ASSUME duplicates = 0
                 PROVE  /\ Cardinality(Entries) = Len(clients)
                        /\ \A a \in Address : FrameOf(a) \notin inbox[a]
      BY DEF NoEcho, FrameOf
    <3> DEFINE n == Len(clients)
    <3>1. clients \in Seq(Address) /\ n \in Nat /\ DOMAIN clients = 1..n
      BY DEF StreamsIInv, ServerTypeOK
    <3>2. clients \in [1..n -> Entries] /\ \A e \in Entries : \E i \in 1..n : clients[i] = e
      BY <3>1 DEF Entries
    <3>3. \A i, j \in 1..n : clients[i] = clients[j] => i = j
      BY <3>1 DEF StreamsIInv, HelloOnce
    <3>4. IsFiniteSet(1..n) /\ Cardinality(1..n) = n
      BY <3>1, FirstOnes
    <3> HIDE DEF n
    <3>5. IsInjective(clients)
      BY ONLY <3>2, <3>3 DEF IsInjective
    <3>6. clients \in Surjection(1..n, Entries) /\ clients \in Injection(1..n, Entries)
      BY ONLY <3>2, <3>5 DEF Surjection, Injection
    <3>7. Cardinality(Entries) = Cardinality(1..n)
      BY ONLY <3>4, <3>6, FS_Surjection
    <3>8. Cardinality(Entries) = n
      BY <3>4, <3>7
    <3> QED BY <3>8 DEF n, StreamsIInv, NoFrameBack
  <2> QED BY <2>1, <2>2 DEF StreamsInv
<1> QED BY <1>1, InitStreams, NextStreams, PTL DEF Spec
=============================================================================
