----------------------------- MODULE Server_proofs -----------------------------
(***************************************************************************)
(* Proofs about what the server's process makes and opens.                 *)
(*                                                                         *)
(* Room, for any number of rooms, HTTP threads and starts: its types, and  *)
(* that a server never has more than two loops, the second of them only    *)
(* while the request that started it waits.                                *)
(*                                                                         *)
(* Descriptors, for any addresses, others and bounds: who holds a number   *)
(* and whose it is (EachItsOwn, HoldersKnow, EarlyAlone) ties the process's*)
(* table to the vector's entries; each leak is charged to an erased entry, *)
(* and a process without leaks has a number for everyone.                  *)
(***************************************************************************)
EXTENDS Room, Descriptors, FiniteSetTheorems, TLAPS

-----------------------------------------------------------------------------
(* The rooms.                                                              *)

\* The types survive a step that only changes one request.
LEMMA OneRequest ==
  ASSUME TypeOK, NEW h \in Threads, NEW q \in Requests,
         thread' = [thread EXCEPT ![h] = q],
         rooms' \subseteq Rooms, roomsMutex' \in Threads \cup {Free},
         started' \in [Servers -> BOOLEAN], UNCHANGED <<loop, handle>>
  PROVE  TypeOK'
BY DEF TypeOK

LEMMA NoRequestIsRequest == NoRequest \in Requests
BY DEF NoRequest, Requests, Kinds

\* What the types say of one request.
LEMMA RequestFields ==
  ASSUME TypeOK, NEW h \in Threads
  PROVE  /\ thread[h] \in Requests
         /\ thread[h].at # "idle" => thread[h].room \in Rooms
         /\ thread[h].at \in {"start", "assign"} => thread[h].server \in Servers
         /\ thread[h].at = "assign" => thread[h].task \in Tasks
BY DEF TypeOK, Requests

\* What a request goes on with when `start` returns is a request, which no longer
\* assigns a startHandle.
LEMMA AfterStartIsRequest ==
  ASSUME TypeOK, NEW h \in Threads, thread[h].at \in {"start", "assign"}
  PROVE  AfterStart(h) \in Requests /\ AfterStart(h).at \in {"start", "reply"}
<1>1. thread[h] \in Requests /\ thread[h].room \in Rooms
  BY DEF TypeOK, Requests
<1> DEFINE v == <<thread[h].room, "video">>
<1>2. v \in Servers
  BY <1>1 DEF Servers, Kinds
<1>3. AfterStart(h) = IF thread[h].kind = "video" /\ thread[h].server[2] = "voice"
                        THEN [thread[h] EXCEPT !.at = "start", !.server = v, !.task = 0]
                        ELSE [thread[h] EXCEPT !.at = "reply", !.server = None, !.task = 0]
  BY DEF AfterStart
<1> HIDE DEF v
<1> QED BY <1>1, <1>2, <1>3 DEF Requests

\* The initial state: no request, no loop.
LEMMA InitInv == Init => RoomsInv
<1> SUFFICES ASSUME Init PROVE RoomsInv
  OBVIOUS
<1>1. TypeOK
  BY NoRequestIsRequest, ConstantsAssumption DEF ConstantsAssumption, Init, TypeOK, Tasks
<1>2. Locked
  BY DEF Init, Locked, NoRequest
<1>3. LoopsKnown /\ RunningIsTrue
  BY DEF Init, LoopsKnown, RunningIsTrue, Live
<1> QED BY <1>1, <1>2, <1>3 DEF RoomsInv, Inv

-----------------------------------------------------------------------------
(* The steps of the requests.                                              *)

LEMMA PostInv ==
  ASSUME RoomsInv, NEW h \in Threads, NEW room \in Rooms, NEW kind \in Kinds, Post(h, room, kind)
  PROVE  RoomsInv'
<1> USE DEF RoomsInv, Inv, Post
<1>1. TypeOK'
  <2>1. [NoRequest EXCEPT !.at = "post", !.room = room, !.kind = kind] \in Requests
    BY DEF NoRequest, Requests
  <2> QED BY <2>1, OneRequest DEF TypeOK
<1>2. Locked'
  BY DEF Locked, TypeOK, NoRequest
<1>3. LoopsKnown'
  BY DEF LoopsKnown, Live, Assigning, TypeOK, NoRequest
<1>4. RunningIsTrue'
  BY DEF RunningIsTrue, Live
<1> QED BY <1>1, <1>2, <1>3, <1>4

LEMMA EnterRoomInv ==
  ASSUME RoomsInv, NEW h \in Threads, EnterRoom(h)
  PROVE  RoomsInv'
<1> USE DEF RoomsInv, Inv, EnterRoom
<1> DEFINE v == <<thread[h].room, "voice">>
<1>0. thread[h].room \in Rooms /\ v \in Servers
  BY RequestFields DEF Servers, Kinds
<1>q. /\ thread[h].at = "post" /\ roomsMutex = Free /\ roomsMutex' = h
      /\ rooms' = rooms \cup {thread[h].room}
      /\ thread' = [thread EXCEPT ![h].at = "start", ![h].server = v]
      /\ UNCHANGED <<started, loop, handle>>
  OBVIOUS
<1> HIDE DEF v, EnterRoom
<1>1. TypeOK'
  <2>1. [thread[h] EXCEPT !.at = "start", !.server = v] \in Requests
    BY ZenonT(40), <1>0 DEF TypeOK, Requests
  <2>2. rooms' \subseteq Rooms /\ started \in [Servers -> BOOLEAN]
    BY <1>0, <1>q DEF TypeOK
  <2> QED BY ZenonT(40), <1>q, <2>1, <2>2, OneRequest
<1>2. Locked'
  BY <1>0, <1>q, ConstantsAssumption DEF Locked, TypeOK, ConstantsAssumption
<1>3. LoopsKnown'
  BY SMTT(30), <1>q DEF LoopsKnown, Live, Assigning, TypeOK
<1>4. RunningIsTrue'
  BY <1>q DEF RunningIsTrue, Live
<1> QED BY <1>1, <1>2, <1>3, <1>4

LEMMA AlreadyStartedInv ==
  ASSUME RoomsInv, NEW h \in Threads, AlreadyStarted(h)
  PROVE  RoomsInv'
<1> USE DEF RoomsInv, Inv, AlreadyStarted
<1> DEFINE q == AfterStart(h)
<1>0. q \in Requests /\ q.at \in {"start", "reply"}
  BY AfterStartIsRequest
<1>q. thread' = [thread EXCEPT ![h] = q]
  OBVIOUS
<1> HIDE DEF q
<1>1. TypeOK'
  BY <1>0, <1>q DEF TypeOK
<1>2. Locked'
  BY <1>0, <1>q DEF Locked, TypeOK
<1>3. LoopsKnown'
  BY <1>0, <1>q DEF LoopsKnown, Live, Assigning, TypeOK
<1>4. RunningIsTrue'
  BY DEF RunningIsTrue, Live
<1> QED BY <1>1, <1>2, <1>3, <1>4

\* The new loop is known: its request is about to put it in startHandle.
LEMMA LaunchInv ==
  ASSUME RoomsInv, NEW h \in Threads, Launch(h)
  PROVE  RoomsInv'
<1> USE DEF RoomsInv, Inv, Launch
<1> DEFINE s == thread[h].server
<1>0. s \in Servers
  BY RequestFields
<1>k. PICK k \in Tasks :
        /\ loop[s][k] = "none"
        /\ loop' = [loop EXCEPT ![s][k] = "begin"]
        /\ thread' = [thread EXCEPT ![h].at = "assign", ![h].task = k]
  OBVIOUS
<1>1. TypeOK'
  <2>1. [thread[h] EXCEPT !.at = "assign", !.task = k] \in Requests
    BY <1>0, RequestFields DEF Requests
  <2>2. thread' \in [Threads -> Requests]
    BY ZenonT(40), <1>k, <2>1 DEF TypeOK, Requests
  <2>3. loop' \in [Servers -> [Tasks -> {"none", "begin", "check", "recv", "done", "failed"}]]
    BY <1>0, <1>k DEF TypeOK
  <2> QED BY <2>2, <2>3 DEF TypeOK, Requests
<1>2. Locked'
  BY <1>0, <1>k DEF Locked, TypeOK
<1>3. LoopsKnown'
  <2> SUFFICES ASSUME NEW z \in Servers, NEW j \in Tasks, Live(z, j)'
               PROVE  (j = handle[z] \/ \E g \in Threads : Assigning(g, z) /\ j = thread[g].task)'
    BY DEF LoopsKnown
  <2>1. CASE z = s /\ j = k
    BY <2>1, <1>0, <1>k DEF Assigning, TypeOK
  <2>2. CASE ~(z = s /\ j = k)
    <3>1. Live(z, j)
      BY <2>2, <1>0, <1>k DEF Live, TypeOK
    <3>2. j = handle[z] \/ \E g \in Threads : Assigning(g, z) /\ j = thread[g].task
      BY <3>1 DEF LoopsKnown
    <3> QED BY <3>2, <1>k DEF Assigning, TypeOK
  <2> QED BY <2>1, <2>2
<1>4. RunningIsTrue'
  BY <1>0, <1>k DEF RunningIsTrue, Live, TypeOK
<1> QED BY <1>1, <1>2, <1>3, <1>4

\* The old loop of startHandle is over, and no other request is assigning: the
\* mutex is ours.
LEMMA AssignHandleInv ==
  ASSUME RoomsInv, NEW h \in Threads, AssignHandle(h)
  PROVE  RoomsInv'
<1> USE DEF RoomsInv, Inv, AssignHandle
<1> DEFINE q == AfterStart(h)
           s == thread[h].server
<1>0. q \in Requests /\ q.at \in {"start", "reply"}
  BY AfterStartIsRequest
<1>s. s \in Servers /\ thread[h].task \in Tasks /\ roomsMutex = h
  BY RequestFields DEF Locked
<1>q. /\ thread' = [thread EXCEPT ![h] = q]
      /\ handle' = [handle EXCEPT ![s] = thread[h].task]
      /\ \A k \in Tasks : k = handle[s] => Over(s, k)
      /\ UNCHANGED <<rooms, roomsMutex, started, loop>>
  OBVIOUS
<1> HIDE DEF q
<1>1. TypeOK'
  BY <1>0, <1>q, <1>s DEF TypeOK
<1>2. Locked'
  BY <1>0, <1>q DEF Locked, TypeOK
<1>3. LoopsKnown'
  <2> SUFFICES ASSUME NEW z \in Servers, NEW j \in Tasks, Live(z, j)'
               PROVE  (j = handle[z] \/ \E g \in Threads : Assigning(g, z) /\ j = thread[g].task)'
    BY DEF LoopsKnown
  <2>0. Live(z, j)
    BY <1>q DEF Live
  <2>1. j = handle[z] \/ \E g \in Threads : Assigning(g, z) /\ j = thread[g].task
    BY <2>0 DEF LoopsKnown
  <2>2. \A g \in Threads : Assigning(g, z) => g = h
    BY <1>s DEF Assigning, Locked
  <2>3. CASE z = s
    <3>1. j # handle[z]
      BY <2>0, <2>3, <1>q DEF Live, Over
    <3> QED BY <3>1, <2>1, <2>2, <2>3, <1>q, <1>s DEF TypeOK
  <2>4. CASE z # s
    <3>1. j = handle[z]
      BY <2>1, <2>2, <2>4 DEF Assigning
    <3> QED BY <3>1, <2>4, <1>q, <1>s DEF TypeOK
  <2> QED BY <2>3, <2>4
<1>4. RunningIsTrue'
  BY DEF RunningIsTrue, Live
<1> QED BY <1>1, <1>2, <1>3, <1>4

LEMMA ReplyInv ==
  ASSUME RoomsInv, NEW h \in Threads, Reply(h)
  PROVE  RoomsInv'
<1> USE DEF RoomsInv, Inv, Reply
<1>1. TypeOK'
  BY NoRequestIsRequest, OneRequest DEF TypeOK
<1>2. Locked'
  <2>1. \A g \in Threads : thread[g].at \in {"start", "assign", "reply"} => g = h
    BY DEF Locked
  <2> QED BY <2>1 DEF Locked, TypeOK, NoRequest
<1>3. LoopsKnown'
  BY DEF LoopsKnown, Live, Assigning, TypeOK, NoRequest
<1>4. RunningIsTrue'
  BY DEF RunningIsTrue, Live
<1> QED BY <1>1, <1>2, <1>3, <1>4

LEMMA DeleteInv ==
  ASSUME RoomsInv, NEW h \in Threads, NEW room \in Rooms, Delete(h, room)
  PROVE  RoomsInv'
<1> USE DEF RoomsInv, Inv, Delete
<1>1. TypeOK'
  <2>1. [NoRequest EXCEPT !.at = "stop", !.room = room, !.kind = "video"] \in Requests
    BY DEF NoRequest, Requests, Kinds
  <2> QED BY <2>1, OneRequest DEF TypeOK
<1>2. Locked'
  BY DEF Locked, TypeOK, NoRequest
<1>3. LoopsKnown'
  BY DEF LoopsKnown, Live, Assigning, TypeOK, NoRequest
<1>4. RunningIsTrue'
  BY DEF RunningIsTrue, Live
<1> QED BY <1>1, <1>2, <1>3, <1>4

LEMMA StopInv ==
  ASSUME RoomsInv, NEW h \in Threads, Stop(h)
  PROVE  RoomsInv'
<1> USE DEF RoomsInv, Inv, Stop
<1>0. <<thread[h].room, "video">> \in Servers
  BY RequestFields DEF Servers, Kinds
<1>1. TypeOK'
  <2>1. started' \in [Servers -> BOOLEAN]
    BY <1>0 DEF TypeOK
  <2> QED BY <2>1, NoRequestIsRequest, OneRequest DEF TypeOK
<1>2. Locked'
  BY DEF Locked, TypeOK, NoRequest
<1>3. LoopsKnown'
  BY DEF LoopsKnown, Live, Assigning, TypeOK, NoRequest
<1>4. RunningIsTrue'
  BY <1>0 DEF RunningIsTrue, Live, TypeOK
<1> QED BY <1>1, <1>2, <1>3, <1>4

-----------------------------------------------------------------------------
(* The steps of the loops.                                                 *)

\* A step of loop k of server s that leaves the requests alone makes no loop live
\* that was not, and leaves `started` true only while a loop lives or one failed.
LEMMA LoopStepInv ==
  ASSUME RoomsInv, NEW s \in Servers, NEW k \in Tasks,
         Begin(s, k) \/ CheckStarted(s, k) \/ ServePacket(s, k)
           \/ ServeLastError(s, k) \/ HandlerThrows(s, k)
  PROVE  RoomsInv'
<1> USE DEF RoomsInv, Inv
<1>1. TypeOK'
  <2>1. loop' \in [Servers -> [Tasks -> {"none", "begin", "check", "recv", "done", "failed"}]]
    <3>1. PICK at \in {"check", "recv", "done", "failed"} : loop' = [loop EXCEPT ![s][k] = at]
      BY DEF Begin, CheckStarted, ServePacket, ServeLastError, HandlerThrows
    <3> QED BY <3>1 DEF TypeOK
  <2>2. started' \in [Servers -> BOOLEAN]
    BY DEF TypeOK, Begin, CheckStarted, ServePacket, ServeLastError, HandlerThrows
  <2>3. UNCHANGED <<rooms, roomsMutex, handle, thread>>
    BY DEF Begin, CheckStarted, ServePacket, ServeLastError, HandlerThrows
  <2> QED BY <2>1, <2>2, <2>3 DEF TypeOK
<1>2. Locked'
  BY DEF Locked, Begin, CheckStarted, ServePacket, ServeLastError, HandlerThrows
<1>3. LoopsKnown'
  <2>1. UNCHANGED <<handle, thread>>
    BY DEF Begin, CheckStarted, ServePacket, ServeLastError, HandlerThrows
  <2>2. \A z \in Servers : \A j \in Tasks : Live(z, j)' => Live(z, j)
    BY DEF TypeOK, Live, Begin, CheckStarted, ServePacket, ServeLastError, HandlerThrows
  <2> QED BY <2>1, <2>2 DEF LoopsKnown, Assigning
<1>4. RunningIsTrue'
  <2> SUFFICES ASSUME NEW z \in Servers, started'[z]
               PROVE  (\E j \in Tasks : Live(z, j)') \/ \E j \in Tasks : loop'[z][j] = "failed"
    BY DEF RunningIsTrue
  <2>1. CASE z # s
    <3>1. loop'[z] = loop[z] /\ started[z]
      BY <2>1 DEF TypeOK, Begin, CheckStarted, ServePacket, ServeLastError, HandlerThrows
    <3> QED BY <3>1 DEF RunningIsTrue, Live
  <2>2. CASE z = s
    <3>1. loop'[s][k] \in {"check", "recv", "failed"}
      BY <2>2 DEF TypeOK, Begin, CheckStarted, ServePacket, ServeLastError, HandlerThrows
    <3> QED BY <3>1, <2>2 DEF Live
  <2> QED BY <2>1, <2>2
<1> QED BY <1>1, <1>2, <1>3, <1>4

-----------------------------------------------------------------------------
(* The theorems.                                                           *)

LEMMA NextInv == RoomsInv /\ [Next]_vars => RoomsInv'
<1> SUFFICES ASSUME RoomsInv, [Next]_vars PROVE RoomsInv'
  OBVIOUS
<1>1. CASE UNCHANGED vars
  BY <1>1 DEF vars, RoomsInv, Inv, TypeOK, Locked, LoopsKnown, RunningIsTrue, Live, Assigning
<1>2. ASSUME NEW h \in Threads, NEW room \in Rooms,
             Delete(h, room) \/ \E kind \in Kinds : Post(h, room, kind)
      PROVE RoomsInv'
  BY <1>2, DeleteInv, PostInv
<1>3. ASSUME NEW h \in Threads,
             \/ EnterRoom(h) \/ AlreadyStarted(h) \/ Launch(h) \/ AssignHandle(h)
             \/ Reply(h) \/ Stop(h)
      PROVE RoomsInv'
  BY <1>3, EnterRoomInv, AlreadyStartedInv, LaunchInv, AssignHandleInv, ReplyInv, StopInv
<1>4. ASSUME NEW s \in Servers, NEW k \in Tasks,
             \/ Begin(s, k) \/ CheckStarted(s, k) \/ ServePacket(s, k)
             \/ ServeLastError(s, k) \/ HandlerThrows(s, k)
      PROVE RoomsInv'
  BY <1>4, LoopStepInv
<1> QED BY <1>1, <1>2, <1>3, <1>4 DEF Next

\* Every variable has its type: a request that is past roomsMutex names a room that
\* is in the map and a server of it.
THEOREM TypeCorrect == Spec => []TypeOK
<1>1. RoomsInv => TypeOK
  BY DEF RoomsInv
<1> QED BY <1>1, InitInv, NextInv, PTL DEF Spec

\* The requests inside start hold roomsMutex, every live loop is accounted for, and
\* isRunning is true only while a loop lives or after one died.
THEOREM Invariant == Spec => []RoomsInv
BY InitInv, NextInv, PTL DEF Spec

\* At most two loops of a server are live, and when there are two the request that
\* made the second one waits for the first, holding roomsMutex.
THEOREM TwoLoopsAtMost == Spec => []TwoLoopsMeanWaitingPost
<1>1. RoomsInv => TwoLoopsMeanWaitingPost
  <2> SUFFICES ASSUME RoomsInv, NEW s \in Servers, NEW j \in Tasks, NEW k \in Tasks,
                      j # k, Live(s, j), Live(s, k)
               PROVE  \E h \in Threads : /\ roomsMutex = h /\ Assigning(h, s)
                                         /\ {j, k} = {handle[s], thread[h].task}
    BY DEF TwoLoopsMeanWaitingPost
  <2>1. \A h \in Threads : Assigning(h, s) => roomsMutex = h
    BY DEF RoomsInv, Inv, Locked, Assigning
  <2>2. \A i \in {j, k} :
          i = handle[s] \/ \E h \in Threads : Assigning(h, s) /\ i = thread[h].task
    BY DEF RoomsInv, Inv, LoopsKnown
  <2>3. \A g, h \in Threads : Assigning(g, s) /\ Assigning(h, s) => g = h
    BY <2>1
  <2>4. PICK h \in Threads : Assigning(h, s)
    BY <2>2
  <2>5. {j, k} = {handle[s], thread[h].task}
    BY <2>2, <2>3, <2>4
  <2> QED BY <2>1, <2>4, <2>5
<1> QED BY <1>1, InitInv, NextInv, PTL DEF Spec

\* isRunning, read by PATCH without a lock, is true only while a loop serves the
\* server's socket or after a loop of it died of an exception.
THEOREM RunningAlways == Spec => []RunningIsTrue
<1>1. RoomsInv => RunningIsTrue
  BY DEF RoomsInv, Inv
<1> QED BY <1>1, InitInv, NextInv, PTL DEF Spec

-----------------------------------------------------------------------------
(* The descriptors: the invariant.                                         *)

\* The entries of the vector and those whose destructors are still to run.
Listed(e) == (\E p \in DOMAIN clients : clients[p] = e) \/ (\E p \in DOMAIN closing : closing[p] = e)

\* While nothing was copied: each entry has its own descriptor, and so has each stranger.
EachItsOwn ==
  ~copied =>
    /\ \A p, q \in DOMAIN clients : clients[p].made = clients[q].made => p = q
    /\ \A p, q \in DOMAIN closing : closing[p].made = closing[q].made => p = q
    /\ \A p \in DOMAIN clients, q \in DOMAIN closing : clients[p].made # closing[q].made

\* Every entry was made before now.
MadeBefore == \A e \in Entry : Listed(e) => e.made <= made

\* A stranger knows the number of the descriptor it holds.
HoldersKnow == \A n \in Numbers : holder[n] \in Strangers => number[holder[n]] = n

\* Nobody else thinks that a descriptor opened before the first copy is its own.
EarlyAlone ==
  \A s \in early :
    /\ number[s] \in Numbers /\ holder[number[s]] = s
    /\ \A e \in Entry : Listed(e) => e.fd # number[s]
    /\ \A r \in Strangers : number[r] = number[s] => r = s

DescriptorsIInv ==
  /\ DescriptorsTypeOK /\ Tidy /\ EachItsOwn /\ MadeBefore /\ HoldersKnow /\ EarlyAlone
  /\ LeaksCounted /\ RunsOutByLeaks

-----------------------------------------------------------------------------
(* The constants.                                                          *)

LEMMA Counts ==
  /\ LastNumber \in Nat /\ MaxHellos \in Nat /\ MaxMembers \in Nat
  /\ IsFiniteSet(Strangers) /\ Cardinality(Strangers) \in Nat
  /\ LastNumber + 1 >= Cardinality(Strangers) + MaxMembers
  /\ Nobody \notin Strangers /\ Nobody \notin Nat
  /\ Sockets \subseteq Nat /\ IsFiniteSet(Sockets)
  /\ \A s \in Strangers : s \notin Nat
  /\ Numbers \subseteq Nat /\ NoNumber \notin Numbers
<1>1. IsFiniteSet(Strangers) /\ LastNumber \in Nat /\ MaxHellos \in Nat /\ MaxMembers \in Nat
  BY NumbersAssumption DEF NumbersAssumption
<1>2. Cardinality(Strangers) \in Nat
  BY <1>1, FS_CardinalityType
<1>3. IsFiniteSet(Sockets)
  BY <1>1, FS_Interval DEF Sockets
<1>4. Sockets \subseteq Nat /\ Numbers \subseteq Nat /\ NoNumber \notin Numbers
  BY <1>1 DEF Sockets, Numbers, NoNumber
<1>5. /\ Nobody \notin Strangers /\ Nobody \notin Nat
      /\ LastNumber + 1 >= Cardinality(Strangers) + MaxMembers
      /\ \A s \in Strangers : s \notin Nat
  BY NumbersAssumption DEF NumbersAssumption
<1> QED BY <1>1, <1>2, <1>3, <1>4, <1>5

LEMMA FirstOnes ==
  ASSUME NEW n \in Nat
  PROVE  IsFiniteSet(1 .. n) /\ Cardinality(1 .. n) = n
BY FS_Interval

LEMMA EntryFields ==
  ASSUME DescriptorsTypeOK
  PROVE  /\ holder \in [Numbers -> {Nobody} \cup Sockets \cup Strangers] /\ displaced \in Nat
         /\ number \in [Strangers -> Numbers \cup {NoNumber}] /\ early \subseteq Strangers
         /\ \A p \in DOMAIN clients : clients[p] \in Entry
         /\ \A p \in DOMAIN closing : closing[p] \in Entry
         /\ \A x \in Entry : x.fd \in Numbers /\ x.made \in Nat
<1>1. \A x \in Entry : x.fd \in Numbers /\ x.made \in Nat
  BY Counts DEF Entry
<1>2. clients \in Seq(Entry) /\ closing \in Seq(Entry)
  BY DEF DescriptorsTypeOK
<1>3. /\ \A p \in DOMAIN clients : clients[p] \in Entry
      /\ \A p \in DOMAIN closing : closing[p] \in Entry
  BY <1>2
<1> QED BY <1>1, <1>3 DEF DescriptorsTypeOK

\* Leaked sockets are finitely many, and fewer of them leave the count true.
LEMMA LeaksFewer ==
  ASSUME LeaksCounted, displaced \in Nat, Leaked' \subseteq Leaked, displaced' = displaced
  PROVE  LeaksCounted'
<1>1. IsFiniteSet(Leaked)
  BY Counts, FS_Subset DEF Leaked
<1>2. Cardinality(Leaked') <= Cardinality(Leaked) /\ Cardinality(Leaked) \in Nat /\ Cardinality(Leaked') \in Nat
  BY <1>1, FS_Subset, FS_CardinalityType
<1> QED BY <1>1, <1>2 DEF LeaksCounted

LEMMA DescriptorsStart == DescriptorsInit => DescriptorsIInv
<1> SUFFICES ASSUME DescriptorsInit PROVE DescriptorsIInv
  OBVIOUS
<1> USE DEF DescriptorsInit
<1>1. DescriptorsTypeOK
  <2>1. capacity \in Nat /\ made \in 0 .. MaxHellos /\ displaced \in Nat
    BY NumbersAssumption DEF NumbersAssumption
  <2>2. ended \in BOOLEAN /\ copied \in BOOLEAN /\ early \subseteq Strangers
    OBVIOUS
  <2>3. clients \in Seq(Entry) /\ closing \in Seq(Entry)
    OBVIOUS
  <2>4. /\ holder \in [Numbers -> {Nobody} \cup Sockets \cup Strangers]
        /\ number \in [Strangers -> Numbers \cup {NoNumber}]
    OBVIOUS
  <2> QED BY <2>1, <2>2, <2>3, <2>4 DEF DescriptorsTypeOK
<1>2. EachItsOwn /\ MadeBefore /\ EarlyAlone
  BY DEF EachItsOwn, MadeBefore, EarlyAlone, Listed
<1>3. Tidy /\ HoldersKnow
  BY Counts DEF Tidy, Owns, HoldersKnow
<1>4. Leaked = {}
  BY Counts DEF Leaked
<1>5. LeaksCounted
  BY <1>4, FS_EmptySet DEF LeaksCounted
<1>6. RunsOutByLeaks
  BY DEF RunsOutByLeaks
<1> QED BY <1>1, <1>2, <1>3, <1>5, <1>6 DEF DescriptorsIInv

-----------------------------------------------------------------------------
(* What a step does to the entries.                                        *)

\* A hello adds one entry, whose number was free; if the vector is full, the entries that
\* were there are destroyed as well.
LEMMA HelloEffect ==
  ASSUME DescriptorsTypeOK, NEW a \in Addresses, Hello(a)
  PROVE  \E n \in Numbers : \E e \in Entry :
           /\ holder[n] = Nobody /\ holder' = [holder EXCEPT ![n] = made + 1]
           /\ e.made = made + 1 /\ e.fd = n /\ made + 1 \in Sockets /\ made' = made + 1
           /\ closing = <<>> /\ Len(clients) \in Nat
           /\ clients' \in Seq(Entry) /\ Len(clients') = Len(clients) + 1
           /\ \A p \in DOMAIN clients : clients'[p] = clients[p]
           /\ clients'[Len(clients) + 1] = e
           /\ \/ closing' = <<>> /\ copied' = copied
              \/ closing' = clients /\ copied' = TRUE
           /\ capacity' \in Nat /\ UNCHANGED <<ended, number, early, displaced>>
<1>1. PICK n \in Numbers :
        /\ Lowest(n)
        /\ holder' = [holder EXCEPT ![n] = made + 1]
        /\ LET e == [addr |-> a, made |-> made + 1, fd |-> n] IN Append1(e) \/ Grow(e)
  BY DEF Hello
<1> DEFINE e == [addr |-> a, made |-> made + 1, fd |-> n]
<1>2. made + 1 \in Sockets /\ closing = <<>> /\ made' = made + 1 /\ UNCHANGED <<ended, number, early, displaced>>
  BY Counts DEF Hello, LoopFree, DescriptorsTypeOK, Sockets
<1>3. e \in Entry /\ e.made = made + 1 /\ e.fd = n
  BY <1>2 DEF Entry
<1>4. clients' = Append(clients, e)
  BY <1>1 DEF Append1, Grow
<1> HIDE DEF e
<1>5. /\ clients' \in Seq(Entry) /\ Len(clients') = Len(clients) + 1 /\ Len(clients) \in Nat
      /\ \A p \in DOMAIN clients : clients'[p] = clients[p]
      /\ clients'[Len(clients) + 1] = e
  BY <1>3, <1>4 DEF DescriptorsTypeOK
<1>6. \/ closing' = <<>> /\ copied' = copied
      \/ closing' = clients /\ copied' = TRUE
  <2>1. CASE Append1(e)
    BY <1>2, <2>1 DEF Append1
  <2>2. CASE Grow(e)
    BY <2>2 DEF Grow, Destroyed
  <2> QED BY <1>1, <2>1, <2>2 DEF e
<1>7. capacity' \in Nat
  BY <1>1 DEF Append1, Grow, DescriptorsTypeOK
<1>8. holder[n] = Nobody
  BY <1>1 DEF Lowest
<1> QED BY <1>1, <1>2, <1>3, <1>5, <1>6, <1>7, <1>8

\* An erase keeps the entries that are not in gone, in their order, and destroys those left
\* over at the end; nothing is copied only if they are the erased ones.
Erased(gone, left, from) ==
  /\ Len(clients) \in Nat /\ closing = <<>>
  /\ IsFiniteSet(gone)
  /\ \A i, j \in 1 .. left : from[i] = from[j] => i = j
  /\ \A p \in DOMAIN clients \ gone : \E i \in 1 .. left : from[i] = p
  /\ clients' = [i \in 1 .. left |-> clients[from[i]]]
  /\ clients' \in Seq(Entry) /\ Len(clients') = left
  /\ closing' \in Seq(Entry) /\ Len(closing') = Len(clients) - left
  /\ \A p \in 1 .. Len(clients) - left : closing'[p] = clients[left + p]
  /\ copied' = (copied \/ \E p \in gone : p <= left)
  /\ (\A p \in gone : p > left) => DOMAIN clients \ gone = 1 .. left
  /\ displaced' = displaced + Cardinality({p \in gone : p <= left})
  /\ UNCHANGED <<capacity, ended, made, holder, number, early>>

LEMMA EraseEffect ==
  ASSUME DescriptorsTypeOK, NEW gone \in SUBSET DOMAIN clients, Erase(gone)
  PROVE  \E left \in 0 .. Len(clients) : \E from \in [1 .. left -> DOMAIN clients \ gone] :
           Erased(gone, left, from)
<1> DEFINE left == Len(clients) - Cardinality(gone)
           n == Len(clients)
<1>1. n \in Nat /\ DOMAIN clients = 1 .. n
  BY DEF DescriptorsTypeOK
<1>2. IsFiniteSet(1 .. n) /\ Cardinality(1 .. n) = n
  BY <1>1, FirstOnes
<1>3. IsFiniteSet(gone) /\ Cardinality(gone) \in Nat /\ Cardinality(gone) <= n
  BY <1>1, <1>2, FS_Subset, FS_CardinalityType
<1>4. left \in 0 .. n
  BY <1>1, <1>3
<1>5. PICK from \in [1 .. left -> DOMAIN clients \ gone] :
        /\ \A i, j \in 1 .. left : i < j => from[i] < from[j]
        /\ clients' = [i \in 1 .. left |-> clients[from[i]]]
  BY DEF Erase
<1>6. /\ closing' = SubSeq(clients, left + 1, n) /\ closing = <<>>
      /\ copied' = (copied \/ \E p \in gone : p <= left)
      /\ displaced' = displaced + Cardinality({p \in gone : p <= left})
      /\ UNCHANGED <<capacity, ended, made, holder, number, early>>
  BY DEF Erase, Destroyed, LoopFree
<1>7. IsFiniteSet(DOMAIN clients \ gone) /\ Cardinality(DOMAIN clients \ gone) = left
  <2>1. (1 .. n) \cap gone = gone
    BY <1>1
  <2>2. /\ IsFiniteSet((1 .. n) \ gone)
        /\ Cardinality((1 .. n) \ gone) = Cardinality(1 .. n) - Cardinality((1 .. n) \cap gone)
    BY ONLY <1>2, FS_Difference
  <2> QED BY <1>1, <1>2, <2>1, <2>2
<1>8. IsFiniteSet(1 .. left) /\ Cardinality(1 .. left) = left
  <2>1. left \in Nat
    BY <1>1, <1>4
  <2> QED BY <2>1, FirstOnes
<1> HIDE DEF left, n
<1>9. \A i, j \in 1 .. left : from[i] = from[j] => i = j
  <2> SUFFICES ASSUME NEW i \in 1 .. left, NEW j \in 1 .. left, from[i] = from[j] PROVE i = j
    OBVIOUS
  <2>1. from[i] \in Nat /\ from[j] \in Nat
    BY <1>1, <1>5
  <2>2. ~(i < j) /\ ~(j < i)
    BY <1>5, <2>1
  <2> QED BY <1>4, <2>2
<1>10. \A p \in DOMAIN clients \ gone : \E i \in 1 .. left : from[i] = p
  <2>1. from \in Injection(1 .. left, DOMAIN clients \ gone)
    BY <1>5, <1>9 DEF Injection, IsInjective
  <2>2. from \in Surjection(1 .. left, DOMAIN clients \ gone)
    BY <1>7, <1>8, <2>1, FS_Injection
  <2> QED BY <2>2 DEF Surjection
<1>11. clients' \in Seq(Entry) /\ Len(clients') = left
  <2>1. \A i \in 1 .. left : clients[from[i]] \in Entry
    BY <1>1, <1>5 DEF DescriptorsTypeOK
  <2> QED BY <1>4, <1>5, <2>1
<1>12. /\ closing' \in Seq(Entry) /\ Len(closing') = Len(clients) - left
       /\ \A p \in 1 .. Len(clients) - left : closing'[p] = clients[left + p]
  <2>1. clients \in Seq(Entry) /\ left \in Nat /\ left <= Len(clients) /\ closing' = SubSeq(clients, left + 1, Len(clients))
    BY <1>1, <1>4, <1>6 DEF DescriptorsTypeOK, n
  <2> QED BY ONLY <2>1
<1>13. (\A p \in gone : p > left) => DOMAIN clients \ gone = 1 .. left
  <2> SUFFICES ASSUME \A p \in gone : p > left PROVE DOMAIN clients \ gone = 1 .. left
    OBVIOUS
  <2>1. 1 .. left \subseteq DOMAIN clients \ gone
    BY <1>1, <1>4
  <2> QED BY <1>7, <1>8, <2>1, FS_Subset
<1>14. left \in 0 .. Len(clients) /\ Len(clients) \in Nat
  BY <1>1, <1>4 DEF n
<1>15. Erased(gone, left, from)
  BY <1>3, <1>5, <1>6, <1>9, <1>10, <1>11, <1>12, <1>13, <1>14 DEF Erased
<1> QED BY <1>14, <1>15

\* The two erases erase positions of the vector.
LEMMA Erases ==
  ASSUME NEW a, NEW p, EraseAddress(a) \/ EraseStale(p)
  PROVE  \E gone \in SUBSET DOMAIN clients : Erase(gone)
BY DEF EraseAddress, EraseStale

\* A close takes the first of the entries to be destroyed.
LEMMA CloseEffect ==
  ASSUME DescriptorsTypeOK, CloseNext
  PROVE  \E e \in Entry :
           /\ e = closing[1] /\ 1 \in DOMAIN closing
           /\ holder' = [holder EXCEPT ![e.fd] = Nobody]
           /\ closing' \in Seq(Entry) /\ Len(closing') = Len(closing) - 1 /\ Len(closing) \in Nat
           /\ \A p \in DOMAIN closing' : p + 1 \in DOMAIN closing /\ closing'[p] = closing[p + 1]
           /\ \A p \in DOMAIN closing : p # 1 => \E q \in DOMAIN closing' : closing'[q] = closing[p]
           /\ UNCHANGED <<clients, capacity, ended, made, number, copied, early, displaced>>
<1>1. closing \in Seq(Entry) /\ closing # <<>> /\ closing' = Tail(closing)
  BY DEF CloseNext, DescriptorsTypeOK
<1>2. /\ 1 \in DOMAIN closing /\ Head(closing) = closing[1] /\ closing[1] \in Entry
      /\ closing' \in Seq(Entry) /\ Len(closing') = Len(closing) - 1 /\ Len(closing) \in Nat
      /\ \A p \in DOMAIN closing' : p + 1 \in DOMAIN closing /\ closing'[p] = closing[p + 1]
  BY <1>1
<1>3. ASSUME NEW p \in DOMAIN closing, p # 1 PROVE \E q \in DOMAIN closing' : closing'[q] = closing[p]
  <2>1. p - 1 \in DOMAIN closing' /\ (p - 1) + 1 = p
    BY <1>1, <1>2, <1>3
  <2> QED BY <1>2, <2>1
<1> QED BY <1>2, <1>3 DEF CloseNext, Closed, history

-----------------------------------------------------------------------------
(* Each step keeps the invariant.                                          *)

LEMMA HelloKeeps ==
  ASSUME DescriptorsIInv, NEW a \in Addresses, Hello(a)
  PROVE  DescriptorsIInv'
<1>1. PICK n \in Numbers, e \in Entry :
           /\ holder[n] = Nobody /\ holder' = [holder EXCEPT ![n] = made + 1]
           /\ e.made = made + 1 /\ e.fd = n /\ made + 1 \in Sockets /\ made' = made + 1
           /\ closing = <<>> /\ Len(clients) \in Nat
           /\ clients' \in Seq(Entry) /\ Len(clients') = Len(clients) + 1
           /\ \A p \in DOMAIN clients : clients'[p] = clients[p]
           /\ clients'[Len(clients) + 1] = e
           /\ \/ closing' = <<>> /\ copied' = copied
              \/ closing' = clients /\ copied' = TRUE
           /\ capacity' \in Nat /\ UNCHANGED <<ended, number, early, displaced>>
  BY HelloEffect DEF DescriptorsIInv
<1>2. /\ clients \in Seq(Entry) /\ DOMAIN clients = 1 .. Len(clients)
      /\ DOMAIN clients' = 1 .. Len(clients) + 1
      /\ holder \in [Numbers -> {Nobody} \cup Sockets \cup Strangers] /\ made \in Nat
      /\ displaced \in Nat
  BY <1>1 DEF DescriptorsIInv, DescriptorsTypeOK
<1>3. /\ \A p \in DOMAIN clients' : p \in DOMAIN clients \/ p = Len(clients) + 1
      /\ Len(clients) + 1 \in DOMAIN clients' /\ \A p \in DOMAIN clients : p \in DOMAIN clients'
  BY <1>1, <1>2
<1>4. \A x \in Entry : Listed(x)' => Listed(x) \/ x = e
  BY <1>1, <1>3 DEF Listed
<1>5. DescriptorsTypeOK'
  <2>1. closing' \in Seq(Entry) /\ copied' \in BOOLEAN
    BY <1>1, <1>2 DEF DescriptorsIInv, DescriptorsTypeOK
  <2>2. made' \in 0 .. MaxHellos
    BY <1>1, Counts DEF Sockets
  <2>3. holder' \in [Numbers -> {Nobody} \cup Sockets \cup Strangers]
    BY <1>1, <1>2
  <2> QED BY <1>1, <2>1, <2>2, <2>3 DEF DescriptorsIInv, DescriptorsTypeOK
<1>6. \A m \in Numbers : m # n => holder'[m] = holder[m]
  BY <1>1, <1>2
<1>7. holder'[n] = made + 1 /\ made + 1 \in Nat
  BY <1>1, <1>2
<1>8. Tidy'
  <2> SUFFICES ASSUME ~copied' PROVE Tidy'
    BY DEF Tidy
  <2>1. ~copied /\ closing' = <<>>
    BY <1>1
  <2>2. ASSUME NEW p \in DOMAIN clients' PROVE Held(clients[p])'
    <3>1. CASE p = Len(clients) + 1
      BY <1>1, <1>7, <3>1 DEF Held
    <3>2. CASE p \in DOMAIN clients
      <4>1. holder[clients[p].fd] = clients[p].made /\ clients[p] \in Entry
        BY <1>2, <2>1, <3>2 DEF DescriptorsIInv, Tidy, Held
      <4>2. clients[p].fd # n /\ clients[p].fd \in Numbers
        BY <1>1, <4>1, Counts DEF Entry
      <4> QED BY <1>1, <1>6, <3>2, <4>1, <4>2 DEF Held
    <3> QED BY <1>3, <2>2, <3>1, <3>2
  <2>3. ASSUME NEW s \in Strangers PROVE Owns(s)'
    <3>1. number[s] # NoNumber => number[s] \in Numbers /\ holder[number[s]] = s
      BY <2>1 DEF DescriptorsIInv, DescriptorsTypeOK, Tidy, Owns
    <3> QED BY <1>1, <1>6, <3>1, Counts DEF Owns
  <2> QED BY <2>1, <2>2, <2>3 DEF Tidy
<1>9. EachItsOwn'
  <2> SUFFICES ASSUME ~copied' PROVE EachItsOwn'
    BY DEF EachItsOwn
  <2>1. ~copied /\ closing' = <<>>
    BY <1>1
  <2>2. \A p \in DOMAIN clients : clients[p].made # made + 1
    <3>1. \A p \in DOMAIN clients : clients[p] \in Entry /\ clients[p].made <= made
      BY <1>2 DEF DescriptorsIInv, MadeBefore, Listed
    <3> QED BY <1>2, <3>1
  <2> QED BY <1>1, <1>3, <2>1, <2>2 DEF DescriptorsIInv, EachItsOwn
<1>10. MadeBefore'
  <2>1. \A x \in Entry : x.made \in Nat
    BY Counts DEF Entry
  <2> QED BY <1>1, <1>2, <1>4, <2>1 DEF DescriptorsIInv, MadeBefore
<1>11. HoldersKnow'
  BY <1>1, <1>6, <1>7, Counts DEF DescriptorsIInv, HoldersKnow
<1>12. EarlyAlone'
  <2>1. \A s \in early : s \in Strangers /\ number[s] # n
    BY <1>1, Counts DEF DescriptorsIInv, DescriptorsTypeOK, EarlyAlone
  <2> QED BY <1>1, <1>4, <1>6, <2>1 DEF DescriptorsIInv, EarlyAlone
<1>13. Leaked' \subseteq Leaked
  <2> SUFFICES ASSUME NEW k \in Leaked' PROVE k \in Leaked
    OBVIOUS
  <2>1. k \in Sockets /\ \E m \in Numbers :
          /\ holder'[m] = k
          /\ \A p \in DOMAIN clients' : clients'[p].fd # m \/ clients'[p].made # k
    BY DEF Leaked
  <2>2. PICK m \in Numbers :
          /\ holder'[m] = k
          /\ \A p \in DOMAIN clients' : clients'[p].fd # m \/ clients'[p].made # k
    BY <2>1
  <2>3. m # n
    BY <1>1, <1>3, <1>7, <2>2
  <2>4. \A p \in DOMAIN clients : clients[p].fd # m \/ clients[p].made # k
    BY <1>1, <1>3, <2>2
  <2>5. DOMAIN closing = {}
    BY <1>1
  <2> QED BY <1>6, <2>1, <2>2, <2>3, <2>4, <2>5 DEF Leaked
<1>14. LeaksCounted' /\ RunsOutByLeaks'
  BY <1>1, <1>2, <1>13, LeaksFewer DEF DescriptorsIInv, RunsOutByLeaks
<1> QED BY <1>5, <1>8, <1>9, <1>10, <1>11, <1>12, <1>14 DEF DescriptorsIInv

LEMMA EraseKeeps ==
  ASSUME DescriptorsIInv, NEW gone \in SUBSET DOMAIN clients, Erase(gone)
  PROVE  DescriptorsIInv'
<1>0. PICK left \in 0 .. Len(clients) :
        \E from \in [1 .. left -> DOMAIN clients \ gone] : Erased(gone, left, from)
  BY EraseEffect DEF DescriptorsIInv
<1>1. PICK from \in [1 .. left -> DOMAIN clients \ gone] : Erased(gone, left, from)
  BY <1>0
<1> USE DEF Erased
<1>2. /\ clients \in Seq(Entry) /\ DOMAIN clients = 1 .. Len(clients) /\ Len(clients) \in Nat
      /\ DOMAIN clients' = 1 .. left /\ DOMAIN closing' = 1 .. Len(clients) - left
      /\ left \in Nat /\ displaced \in Nat
  BY <1>1 DEF DescriptorsIInv, DescriptorsTypeOK
<1>3. /\ \A i \in DOMAIN clients' : from[i] \in DOMAIN clients \ gone /\ clients'[i] = clients[from[i]]
      /\ \A p \in DOMAIN closing' : left + p \in DOMAIN clients /\ closing'[p] = clients[left + p]
  BY <1>1, <1>2
<1>4. \A x \in Entry : Listed(x)' => Listed(x)
  BY <1>3 DEF Listed
<1>5. DescriptorsTypeOK'
  <2>1. IsFiniteSet({p \in gone : p <= left})
    BY <1>1, FS_Subset
  <2>2. displaced' \in Nat
    BY <1>1, <1>2, <2>1, FS_CardinalityType
  <2>3. copied' \in BOOLEAN
    BY <1>1 DEF DescriptorsIInv, DescriptorsTypeOK
  <2> QED BY <1>1, <2>2, <2>3 DEF DescriptorsIInv, DescriptorsTypeOK
<1>6. ~copied' => ~copied /\ DOMAIN clients \ gone = 1 .. left
  <2>1. ~copied' => ~copied /\ \A p \in gone : ~(p <= left)
    BY <1>1
  <2>2. (\A p \in gone : ~(p <= left)) => \A p \in gone : p > left
    BY <1>2
  <2> QED BY <1>1, <2>1, <2>2
<1>7. Tidy'
  <2> SUFFICES ASSUME ~copied' PROVE Tidy'
    BY DEF Tidy
  <2>1. \A p \in DOMAIN clients : holder[clients[p].fd] = clients[p].made
    BY <1>6 DEF DescriptorsIInv, Tidy, Held
  <2>2. \A s \in Strangers : Owns(s)
    BY <1>6 DEF DescriptorsIInv, Tidy
  <2>3. \A p \in DOMAIN clients' : Held(clients[p])'
    BY <1>1, <1>3, <2>1 DEF Held
  <2>4. \A p \in DOMAIN closing' : Held(closing[p])'
    BY <1>1, <1>3, <2>1 DEF Held
  <2>5. \A s \in Strangers : Owns(s)'
    BY <1>1, <2>2 DEF Owns
  <2> QED BY <2>3, <2>4, <2>5 DEF Tidy
<1>8. EachItsOwn'
  <2> SUFFICES ASSUME ~copied' PROVE EachItsOwn'
    BY DEF EachItsOwn
  <2>1. \A p, q \in DOMAIN clients : clients[p].made = clients[q].made => p = q
    BY <1>6 DEF DescriptorsIInv, EachItsOwn
  <2>2. \A p, q \in DOMAIN clients' : clients'[p].made = clients'[q].made => p = q
    <3> SUFFICES ASSUME NEW p \in DOMAIN clients', NEW q \in DOMAIN clients',
                        clients'[p].made = clients'[q].made
                 PROVE  p = q
      OBVIOUS
    <3>1. from[p] = from[q]
      BY <1>3, <2>1
    <3> QED BY <1>1, <1>2, <3>1
  <2>3. \A p, q \in DOMAIN closing' : closing'[p].made = closing'[q].made => p = q
    BY <1>2, <1>3, <2>1
  <2>4. ASSUME NEW p \in DOMAIN clients', NEW q \in DOMAIN closing' PROVE clients'[p].made # closing'[q].made
    <3>1. from[p] \in 1 .. left /\ left + q \in DOMAIN clients /\ q > 0 /\ q \in Nat
      <4>1. from[p] \in DOMAIN clients \ gone /\ DOMAIN clients \ gone = 1 .. left
        BY <1>3, <1>6
      <4>2. left + q \in DOMAIN clients
        BY <1>3
      <4>3. q \in Nat /\ q > 0
        BY <1>2
      <4> QED BY <4>1, <4>2, <4>3
    <3>2. from[p] # left + q
      BY <1>2, <3>1
    <3> QED BY <1>3, <2>1, <3>1, <3>2
  <2> QED BY <2>2, <2>3, <2>4 DEF EachItsOwn
<1>9. MadeBefore' /\ HoldersKnow' /\ EarlyAlone'
  BY <1>1, <1>4 DEF DescriptorsIInv, MadeBefore, HoldersKnow, EarlyAlone
<1>10. LeaksCounted'
  <2> DEFINE over == {p \in gone : p <= left}
             lost == {clients[p].made : p \in over}
             owner == [p \in over |-> clients[p].made]
  <2>1. IsFiniteSet(over) /\ Cardinality(over) \in Nat
    BY <1>1, FS_Subset, FS_CardinalityType
  <2>2. IsFiniteSet(lost) /\ Cardinality(lost) \in Nat /\ Cardinality(lost) <= Cardinality(over)
    <3>1. owner \in Surjection(over, lost)
      BY DEF Surjection
    <3> HIDE DEF over, lost, owner
    <3> QED BY <2>1, <3>1, FS_Surjection, FS_CardinalityType
  <2>3. Leaked' \subseteq Leaked \cup lost
    <3> SUFFICES ASSUME NEW k \in Leaked', k \notin lost PROVE k \in Leaked
      OBVIOUS
    <3>1. PICK m \in Numbers :
            /\ k \in Sockets /\ holder[m] = k
            /\ \A p \in DOMAIN clients' : clients'[p].fd # m \/ clients'[p].made # k
            /\ \A p \in DOMAIN closing' : closing'[p].fd # m \/ closing'[p].made # k
      BY <1>1 DEF Leaked
    <3>2. ASSUME NEW p \in DOMAIN clients PROVE clients[p].fd # m \/ clients[p].made # k
      <4>1. CASE p \in over
        BY <4>1
      <4>2. CASE p \notin gone
        <5>1. PICK i \in 1 .. left : from[i] = p
          BY <1>1, <4>2
        <5> QED BY <1>2, <1>3, <3>1, <5>1
      <4>3. CASE p > left
        <5>1. p - left \in DOMAIN closing' /\ left + (p - left) = p
          BY <1>2, <4>3
        <5> QED BY <1>3, <3>1, <5>1
      <4> QED BY <1>2, <4>1, <4>2, <4>3
    <3>3. DOMAIN closing = {}
      BY <1>1
    <3> QED BY <3>1, <3>2, <3>3 DEF Leaked
  <2>4. IsFiniteSet(Leaked) /\ Cardinality(Leaked) \in Nat
    BY Counts, FS_Subset, FS_CardinalityType DEF Leaked
  <2>5. IsFiniteSet(Leaked \cup lost) /\ Cardinality(Leaked \cup lost) \in Nat
        /\ Cardinality(Leaked \cup lost) <= Cardinality(Leaked) + Cardinality(lost)
    <3> HIDE DEF lost
    <3>1. Cardinality(Leaked \cap lost) \in Nat
      BY <2>4, FS_Intersection, FS_CardinalityType
    <3>2. /\ IsFiniteSet(Leaked \cup lost)
          /\ Cardinality(Leaked \cup lost) = Cardinality(Leaked) + Cardinality(lost) - Cardinality(Leaked \cap lost)
      BY <2>2, <2>4, FS_Union
    <3> QED BY <2>2, <2>4, <3>1, <3>2, FS_CardinalityType
  <2>6. Cardinality(Leaked') <= Cardinality(Leaked \cup lost) /\ Cardinality(Leaked') \in Nat
    <3> HIDE DEF lost
    <3> QED BY <2>3, <2>5, FS_Subset, FS_CardinalityType
  <2>7. displaced' = displaced + Cardinality(over)
    BY <1>1
  <2> HIDE DEF over, lost
  <2> QED BY <1>2, <2>1, <2>2, <2>4, <2>5, <2>6, <2>7 DEF DescriptorsIInv, LeaksCounted
<1>11. RunsOutByLeaks'
  <2>1. displaced' \in Nat /\ displaced' >= displaced /\ ended' = ended
    <3>1. Cardinality({p \in gone : p <= left}) \in Nat
      BY <1>1, FS_Subset, FS_CardinalityType
    <3> QED BY <1>1, <1>2, <3>1
  <2> QED BY <1>2, <2>1 DEF DescriptorsIInv, RunsOutByLeaks
<1> QED BY <1>5, <1>7, <1>8, <1>9, <1>10, <1>11 DEF DescriptorsIInv

LEMMA CloseKeeps ==
  ASSUME DescriptorsIInv, CloseNext
  PROVE  DescriptorsIInv'
<1>1. PICK e \in Entry :
           /\ e = closing[1] /\ 1 \in DOMAIN closing
           /\ holder' = [holder EXCEPT ![e.fd] = Nobody]
           /\ closing' \in Seq(Entry) /\ Len(closing') = Len(closing) - 1 /\ Len(closing) \in Nat
           /\ \A p \in DOMAIN closing' : p + 1 \in DOMAIN closing /\ closing'[p] = closing[p + 1]
           /\ \A p \in DOMAIN closing : p # 1 => \E q \in DOMAIN closing' : closing'[q] = closing[p]
           /\ UNCHANGED <<clients, capacity, ended, made, number, copied, early, displaced>>
  BY CloseEffect DEF DescriptorsIInv
<1>2. /\ holder \in [Numbers -> {Nobody} \cup Sockets \cup Strangers] /\ displaced \in Nat
      /\ \A p \in DOMAIN clients : clients[p] \in Entry
      /\ \A p \in DOMAIN closing : closing[p] \in Entry
      /\ \A x \in Entry : x.fd \in Numbers /\ x.made \in Nat
  BY EntryFields DEF DescriptorsIInv
<1>3. holder'[e.fd] = Nobody /\ \A m \in Numbers : m # e.fd => holder'[m] = holder[m]
  BY <1>1, <1>2
<1>4. \A x \in Entry : Listed(x)' => Listed(x)
  BY <1>1 DEF Listed
<1>5. DescriptorsTypeOK'
  <2>1. holder' \in [Numbers -> {Nobody} \cup Sockets \cup Strangers]
    BY <1>1, <1>2
  <2> QED BY <1>1, <2>1 DEF DescriptorsIInv, DescriptorsTypeOK
<1>6. Tidy'
  <2> SUFFICES ASSUME ~copied' PROVE Tidy'
    BY DEF Tidy
  <2>1. ~copied /\ holder[e.fd] = e.made
    BY <1>1 DEF DescriptorsIInv, Tidy, Held
  <2>2. ASSUME NEW p \in DOMAIN clients' PROVE Held(clients[p])'
    <3>1. holder[clients[p].fd] = clients[p].made /\ clients[p].made # e.made
      BY <1>1, <2>1 DEF DescriptorsIInv, Tidy, Held, EachItsOwn
    <3> QED BY <1>1, <1>2, <1>3, <2>1, <3>1 DEF Held
  <2>3. ASSUME NEW p \in DOMAIN closing' PROVE Held(closing[p])'
    <3>1. p + 1 \in DOMAIN closing /\ closing'[p] = closing[p + 1] /\ p + 1 # 1
      BY <1>1
    <3>2. holder[closing[p + 1].fd] = closing[p + 1].made /\ closing[p + 1].made # e.made
      BY <1>1, <2>1, <3>1 DEF DescriptorsIInv, Tidy, Held, EachItsOwn
    <3> QED BY <1>1, <1>2, <1>3, <2>1, <3>1, <3>2 DEF Held
  <2>4. ASSUME NEW s \in Strangers PROVE Owns(s)'
    <3>1. number[s] # NoNumber => number[s] \in Numbers /\ holder[number[s]] = s
      BY <2>1 DEF DescriptorsIInv, DescriptorsTypeOK, Tidy, Owns
    <3> QED BY <1>1, <1>2, <1>3, <2>1, <3>1, Counts DEF Owns
  <2> QED BY <2>2, <2>3, <2>4 DEF Tidy
<1>7. EachItsOwn'
  <2> SUFFICES ASSUME ~copied' PROVE EachItsOwn'
    BY DEF EachItsOwn
  <2>1. ~copied
    BY <1>1
  <2>2. ASSUME NEW p \in DOMAIN closing', NEW q \in DOMAIN closing', closing'[p].made = closing'[q].made
        PROVE  p = q
    <3>1. p + 1 = q + 1
      BY <1>1, <2>1, <2>2 DEF DescriptorsIInv, EachItsOwn
    <3> QED BY <1>1, <3>1
  <2> QED BY <1>1, <2>1, <2>2 DEF DescriptorsIInv, EachItsOwn
<1>8. MadeBefore'
  BY <1>1, <1>4 DEF DescriptorsIInv, MadeBefore
<1>9. HoldersKnow'
  BY <1>1, <1>3, Counts DEF DescriptorsIInv, HoldersKnow
<1>10. EarlyAlone'
  <2>1. \A s \in early : number[s] # e.fd
    BY <1>1 DEF DescriptorsIInv, EarlyAlone, Listed
  <2> QED BY <1>1, <1>3, <1>4, <2>1 DEF DescriptorsIInv, EarlyAlone
<1>11. Leaked' \subseteq Leaked
  <2> SUFFICES ASSUME NEW k \in Leaked' PROVE k \in Leaked
    OBVIOUS
  <2>1. PICK m \in Numbers :
          /\ k \in Sockets /\ holder'[m] = k
          /\ \A p \in DOMAIN clients : clients[p].fd # m \/ clients[p].made # k
          /\ \A p \in DOMAIN closing' : closing'[p].fd # m \/ closing'[p].made # k
    BY <1>1 DEF Leaked
  <2>2. m # e.fd /\ holder[m] = k
    BY <1>3, <2>1, Counts
  <2>3. \A p \in DOMAIN closing : closing[p].fd # m \/ closing[p].made # k
    BY <1>1, <2>1, <2>2
  <2> QED BY <2>1, <2>2, <2>3 DEF Leaked
<1>12. LeaksCounted' /\ RunsOutByLeaks'
  BY <1>1, <1>2, <1>11, LeaksFewer DEF DescriptorsIInv, RunsOutByLeaks
<1> QED BY <1>5, <1>6, <1>7, <1>8, <1>9, <1>10, <1>12 DEF DescriptorsIInv

\* The strangers touch no entry.
LEMMA StrangerKeeps ==
  ASSUME DescriptorsIInv, NEW s \in Strangers, Opens(s) \/ Closes(s)
  PROVE  DescriptorsIInv'
<1>1. /\ holder \in [Numbers -> {Nobody} \cup Sockets \cup Strangers] /\ displaced \in Nat
      /\ number \in [Strangers -> Numbers \cup {NoNumber}] /\ early \subseteq Strangers
      /\ \A p \in DOMAIN clients : clients[p] \in Entry
      /\ \A p \in DOMAIN closing : closing[p] \in Entry
      /\ \A x \in Entry : x.fd \in Numbers /\ x.made \in Nat
  BY EntryFields DEF DescriptorsIInv
<1>2. UNCHANGED <<clients, capacity, closing, ended, made, copied, displaced>>
  BY DEF Opens, Closes, vector
<1>3. \A x \in Entry : Listed(x)' <=> Listed(x)
  BY <1>2 DEF Listed
<1>4. MadeBefore' /\ EachItsOwn'
  BY <1>2, <1>3 DEF DescriptorsIInv, MadeBefore, EachItsOwn
<1>5. \E n \in Numbers, h \in {s, Nobody}, w \in Numbers \cup {NoNumber} :
        /\ holder' = [holder EXCEPT ![n] = h] /\ number' = [number EXCEPT ![s] = w]
        /\ \/ h = s /\ w = n /\ holder[n] = Nobody /\ number[s] = NoNumber
              /\ early' = IF copied THEN early ELSE early \cup {s}
           \/ h = Nobody /\ w = NoNumber /\ number[s] = n /\ early' = early \ {s}
  <2>1. CASE Opens(s)
    BY <2>1 DEF Opens, Lowest
  <2>2. CASE Closes(s)
    BY <1>1, <2>2 DEF Closes
  <2> QED BY <2>1, <2>2
<1>6. PICK n \in Numbers, h \in {s, Nobody}, w \in Numbers \cup {NoNumber} :
        /\ holder' = [holder EXCEPT ![n] = h] /\ number' = [number EXCEPT ![s] = w]
        /\ \/ h = s /\ w = n /\ holder[n] = Nobody /\ number[s] = NoNumber
              /\ early' = IF copied THEN early ELSE early \cup {s}
           \/ h = Nobody /\ w = NoNumber /\ number[s] = n /\ early' = early \ {s}
  BY <1>5
<1>7. /\ holder'[n] = h /\ \A m \in Numbers : m # n => holder'[m] = holder[m]
      /\ number'[s] = w /\ \A r \in Strangers : r # s => number'[r] = number[r]
  BY <1>1, <1>6
<1>8. DescriptorsTypeOK'
  <2>1. holder' \in [Numbers -> {Nobody} \cup Sockets \cup Strangers]
    BY <1>1, <1>6
  <2>2. number' \in [Strangers -> Numbers \cup {NoNumber}]
    BY <1>1, <1>6
  <2>3. early' \subseteq Strangers
    BY <1>1, <1>6
  <2> QED BY <1>2, <2>1, <2>2, <2>3 DEF DescriptorsIInv, DescriptorsTypeOK
<1>9. ~copied => /\ \A p \in DOMAIN clients : clients[p].fd # n
                 /\ \A p \in DOMAIN closing : closing[p].fd # n
                 /\ \A r \in Strangers : r # s => number[r] # n
  BY <1>1, <1>6, Counts DEF DescriptorsIInv, Tidy, Held, Owns
<1>10. Tidy'
  <2> SUFFICES ASSUME ~copied' PROVE Tidy'
    BY DEF Tidy
  <2>1. ~copied
    BY <1>2
  <2>2. \A p \in DOMAIN clients' : Held(clients[p])'
    BY <1>1, <1>2, <1>7, <1>9, <2>1 DEF DescriptorsIInv, Tidy, Held
  <2>3. \A p \in DOMAIN closing' : Held(closing[p])'
    BY <1>1, <1>2, <1>7, <1>9, <2>1 DEF DescriptorsIInv, Tidy, Held
  <2>4. ASSUME NEW r \in Strangers PROVE Owns(r)'
    <3>1. CASE r = s
      BY <1>6, <1>7, <3>1 DEF Owns
    <3>2. CASE r # s
      <4>1. number[r] # NoNumber => number[r] \in Numbers /\ holder[number[r]] = r
        BY <1>1, <2>1 DEF DescriptorsIInv, Tidy, Owns
      <4> QED BY <1>7, <1>9, <2>1, <3>2, <4>1 DEF Owns
    <3> QED BY <3>1, <3>2
  <2> QED BY <2>2, <2>3, <2>4 DEF Tidy
<1>11. HoldersKnow'
  <2> SUFFICES ASSUME NEW m \in Numbers, holder'[m] \in Strangers PROVE number'[holder'[m]] = m
    BY DEF HoldersKnow
  <2>1. CASE m = n
    BY <1>6, <1>7, <2>1, Counts
  <2>2. CASE m # n
    <3>1. holder'[m] = holder[m] /\ number[holder[m]] = m
      BY <1>7, <2>2 DEF DescriptorsIInv, HoldersKnow
    <3>2. holder[m] # s
      BY <1>6, <2>2, <3>1, Counts
    <3> QED BY <1>7, <3>1, <3>2
  <2> QED BY <2>1, <2>2
<1>12. EarlyAlone'
  <2> SUFFICES ASSUME NEW r \in early'
               PROVE  /\ number'[r] \in Numbers /\ holder'[number'[r]] = r
                      /\ \A e \in Entry : Listed(e)' => e.fd # number'[r]
                      /\ \A t \in Strangers : number'[t] = number'[r] => t = r
    BY DEF EarlyAlone
  <2>1. CASE r # s
    <3>1. /\ r \in early /\ r \in Strangers /\ number'[r] = number[r] /\ number[r] \in Numbers
          /\ holder[number[r]] = r
          /\ \A e \in Entry : Listed(e) => e.fd # number[r]
          /\ \A t \in Strangers : number[t] = number[r] => t = r
      BY <1>1, <1>6, <1>7, <2>1 DEF DescriptorsIInv, EarlyAlone
    <3>2. number[r] # n
      BY <1>6, <2>1, <3>1, Counts
    <3>3. number'[s] # number[r]
      BY <1>6, <1>7, <3>1, <3>2, Counts
    <3> QED BY <1>3, <1>7, <3>1, <3>2, <3>3
  <2>2. CASE r = s
    <3>1. h = s /\ w = n /\ number[s] = NoNumber
      BY <1>6, <2>2
    <3>2. s \notin early
      BY <3>1, Counts DEF DescriptorsIInv, EarlyAlone
    <3>3. ~copied
      BY <1>6, <2>2, <3>1, <3>2, Counts
    <3>4. \A e \in Entry : Listed(e) => e.fd # n
      BY <1>9, <3>3 DEF Listed
    <3> QED BY <1>3, <1>7, <1>9, <2>2, <3>1, <3>3, <3>4
  <2> QED BY <2>1, <2>2
<1>13. Leaked' \subseteq Leaked
  <2>1. ASSUME NEW k \in Sockets, NEW m \in Numbers, holder'[m] = k PROVE holder[m] = k
    BY <1>7, <2>1, Counts
  <2> QED BY <1>2, <2>1 DEF Leaked
<1>14. LeaksCounted' /\ RunsOutByLeaks'
  BY <1>1, <1>2, <1>13, LeaksFewer DEF DescriptorsIInv, RunsOutByLeaks
<1> QED BY <1>4, <1>8, <1>10, <1>11, <1>12, <1>14 DEF DescriptorsIInv

\* Without a leak, every number is that of an entry or of a stranger, one each.
LEMMA FailKeeps ==
  ASSUME DescriptorsIInv, HelloFails
  PROVE  DescriptorsIInv'
<1>1. /\ UNCHANGED <<clients, capacity, closing, made, holder, number, copied, early, displaced>>
      /\ ended' = TRUE /\ closing = <<>> /\ Len(clients) < MaxMembers
      /\ \A n \in Numbers : holder[n] # Nobody
  BY DEF HelloFails, history, LoopFree, Full
<1>2. /\ DOMAIN clients = 1 .. Len(clients) /\ Len(clients) \in Nat /\ displaced \in Nat
      /\ holder \in [Numbers -> {Nobody} \cup Sockets \cup Strangers]
  BY DEF DescriptorsIInv, DescriptorsTypeOK
<1>3. DescriptorsTypeOK' /\ Tidy' /\ EachItsOwn' /\ MadeBefore' /\ HoldersKnow' /\ EarlyAlone' /\ LeaksCounted'
  BY <1>1 DEF DescriptorsIInv, DescriptorsTypeOK, Tidy, Held, Owns, EachItsOwn, MadeBefore,
     HoldersKnow, EarlyAlone, Listed, LeaksCounted, Leaked
<1>4. displaced # 0
  <2> SUFFICES ASSUME displaced = 0 PROVE FALSE
    OBVIOUS
  <2>1. IsFiniteSet(Leaked) /\ Cardinality(Leaked) \in Nat
    BY Counts, FS_Subset, FS_CardinalityType DEF Leaked
  <2>2. Leaked = {}
    BY <2>1, FS_EmptySet DEF DescriptorsIInv, LeaksCounted
  <2> DEFINE Users == DOMAIN clients \cup Strangers
             user == [n \in Numbers |-> IF holder[n] \in Strangers THEN holder[n]
                                       ELSE CHOOSE p \in DOMAIN clients : clients[p].fd = n]
  <2>3. ASSUME NEW n \in Numbers, holder[n] \notin Strangers
        PROVE  user[n] \in DOMAIN clients /\ clients[user[n]].fd = n
    <3>1. holder[n] \in Sockets
      BY <1>1, <1>2, <2>3
    <3>2. \E p \in DOMAIN clients : clients[p].fd = n
      BY <1>1, <2>2, <3>1 DEF Leaked
    <3> QED BY <2>3, <3>2
  <2>4. ASSUME NEW n \in Numbers, holder[n] \in Strangers
        PROVE  user[n] \in Strangers /\ number[user[n]] = n
    BY <2>4 DEF DescriptorsIInv, HoldersKnow
  <2> HIDE DEF user
  <2>5. user \in [Numbers -> Users]
    BY <2>3, <2>4 DEF user
  <2>6. \A n, m \in Numbers : user[n] = user[m] => n = m
    <3>1. \A n \in Numbers : user[n] \in Strangers <=> holder[n] \in Strangers
      BY <1>2, <2>3, <2>4, Counts
    <3> QED BY <2>3, <2>4, <3>1
  <2>7. user \in Injection(Numbers, Users)
    BY <2>5, <2>6 DEF Injection, IsInjective
  <2>8. IsFiniteSet(DOMAIN clients) /\ Cardinality(DOMAIN clients) = Len(clients)
    BY <1>2, FirstOnes
  <2>9. IsFiniteSet(Users) /\ Cardinality(Users) \in Nat
        /\ Cardinality(Users) <= Len(clients) + Cardinality(Strangers)
    <3>1. /\ IsFiniteSet(Users)
          /\ Cardinality(Users) = Cardinality(DOMAIN clients) + Cardinality(Strangers)
                                 - Cardinality(DOMAIN clients \cap Strangers)
      BY <2>8, Counts, FS_Union
    <3>2. Cardinality(DOMAIN clients \cap Strangers) \in Nat
      BY <2>8, FS_Intersection, FS_CardinalityType
    <3> QED BY <1>2, <2>8, <3>1, <3>2, Counts, FS_CardinalityType
  <2>10. Cardinality(Numbers) = LastNumber + 1
    BY Counts, FS_Interval DEF Numbers
  <2>11. Cardinality(Numbers) <= Cardinality(Users)
    BY <2>7, <2>9, FS_Injection
  <2> HIDE DEF Users
  <2> QED BY <1>1, <1>2, <2>9, <2>10, <2>11, Counts
<1>5. RunsOutByLeaks'
  BY <1>1, <1>2, <1>4 DEF RunsOutByLeaks
<1> QED BY <1>3, <1>5 DEF DescriptorsIInv

-----------------------------------------------------------------------------
LEMMA DescriptorsAlways == DescriptorsSpec => []DescriptorsIInv
<1>1. DescriptorsIInv /\ [DescriptorsNext]_descriptorsVars => DescriptorsIInv'
  <2> SUFFICES ASSUME DescriptorsIInv, [DescriptorsNext]_descriptorsVars PROVE DescriptorsIInv'
    OBVIOUS
  <2>1. CASE UNCHANGED descriptorsVars
    BY <2>1 DEF descriptorsVars, vector, history, DescriptorsIInv, DescriptorsTypeOK, Tidy, Held, Owns,
       EachItsOwn, MadeBefore, HoldersKnow, EarlyAlone, Listed, LeaksCounted, Leaked, RunsOutByLeaks
  <2>2. ASSUME NEW a \in Addresses, EraseAddress(a) PROVE DescriptorsIInv'
    BY <2>2, Erases, EraseKeeps
  <2>3. ASSUME NEW p, EraseStale(p) PROVE DescriptorsIInv'
    BY <2>3, Erases, EraseKeeps
  <2>4. CASE DescriptorsNext
    BY <2>2, <2>3, <2>4, HelloKeeps, FailKeeps, CloseKeeps, StrangerKeeps DEF DescriptorsNext
  <2> QED BY <2>1, <2>4
<1> QED BY <1>1, DescriptorsStart, PTL DEF DescriptorsSpec

\* The vectors of UDPClientSocket, for any numbers of addresses, entries, hellos and others:
\* before the first copy each entry has its own open descriptor and closes no other; every
\* descriptor that leaks was that of an erased entry another one was copied over; and the
\* process runs out of descriptors only by such leaks.
THEOREM DescriptorsSafe == DescriptorsSpec => []DescriptorsInv
<1>1. DescriptorsIInv => DescriptorsInv
  BY DEF DescriptorsIInv, DescriptorsInv
<1> QED BY <1>1, DescriptorsAlways, PTL

\* The same vectors: what was open before the first copy, and has not been closed by its
\* owner since, is its owner's.
THEOREM EarlyKeeps == DescriptorsSpec => []EarlyKeep
<1>1. DescriptorsIInv => EarlyKeep
  BY DEF DescriptorsIInv, EarlyAlone, EarlyKeep
<1> QED BY <1>1, DescriptorsAlways, PTL

=============================================================================
