---------------------- MODULE NotificationsServer_proofs ----------------------
(***************************************************************************)
(* Theorems about NotificationsServer, for any sessions, connections,      *)
(* plans and socket buffers.                                               *)
(*                                                                         *)
(* Locks says what each holder of a mutex is doing; it is inductive, and   *)
(* WorkerAlone follows.  For the packets it is enough to know that a       *)
(* client has not read more bytes than were sent.                          *)
(*                                                                         *)
(* HubIInv is for the vectors: the worker is at an entry that is there,    *)
(* and a connection that its own thread has not listed is closed by        *)
(* nobody (Owned), so that appending lists it once and open.  What a       *)
(* removal leaves is said by Vectors_proofs.  With it each step is one of  *)
(* NotificationHub or a stutter.                                           *)
(***************************************************************************)
EXTENDS NotificationsServer, Vectors_proofs

\* What holding a mutex means.
Locks ==
  /\ worker.at \in {"sleep", "locked", "send"}
  /\ worker.at \in {"locked", "send"} => notificationsMutex = "worker"
  /\ worker.at = "send" => clientsMutex = "worker"
  /\ remover.at \in {"idle", "first", "try"} /\ remover.first \in Mutexes
  /\ remover.at = "try" => Holder(remover.first) = "serve"

LocksTypeOK ==
  /\ worker \in [at : {"sleep", "locked", "send"}, i : Nat, j : Nat]
  /\ remover \in [at : {"idle", "first", "try"}, id : Ids \cup {Garbage}, first : Mutexes]
  /\ plan \in Plans

LocksInv == Locks /\ LocksTypeOK

LEMMA InitLocks == Init => LocksInv
BY DEF Init, Locks, LocksTypeOK, LocksInv, Asleep, Idle, Mutexes

\* Steps which have nothing to do with the two mutexes.
LEMMA OutsideLocks ==
  ASSUME LocksInv, UNCHANGED <<plan, notificationsMutex, clientsMutex, worker, remover>>
  PROVE  LocksInv'
BY DEF LocksInv, Locks, LocksTypeOK, Holder

LEMMA WorkLocks ==
  ASSUME LocksInv, Work, UNCHANGED plan
  PROVE  LocksInv'
<1> USE DEF LocksInv, Locks, LocksTypeOK, Holder, Mutexes, calls
<1>1. CASE LockNotifications
  BY <1>1, FreeAssumption DEF LockNotifications
<1>2. CASE NothingQueued
  BY <1>2 DEF NothingQueued, Asleep
<1>3. CASE LockClients
  BY <1>3, FreeAssumption DEF LockClients
<1>4. CASE Send
  <2>1. worker.at = "send" /\ worker' = Step
    BY <1>4 DEF Send, Sending
  <2>2. CASE worker' = [worker EXCEPT !.j = @ + 1]
    BY <1>4, <2>1, <2>2 DEF Send
  <2>3. CASE worker' = [worker EXCEPT !.i = @ + 1, !.j = 1]
    <3> DEFINE w == [worker EXCEPT !.i = worker.i + 1]
    <3>1. w \in [at : {"sleep", "locked", "send"}, i : Nat, j : Nat] /\ w.at = "send"
      BY <2>1
    <3>2. worker' = [w EXCEPT !.j = 1]
      BY <2>3
    <3> HIDE DEF w
    <3>3. /\ worker' \in [at : {"sleep", "locked", "send"}, i : Nat, j : Nat]
          /\ worker'.at = "send"
      BY <3>1, <3>2
    <3> QED BY <1>4, <2>1, <3>3 DEF Send
  <2> QED BY <2>1, <2>2, <2>3 DEF Step
<1>5. CASE Clear
  BY <1>5 DEF Clear, Asleep
<1> QED BY <1>1, <1>2, <1>3, <1>4, <1>5 DEF Work

LEMMA RemoveLocks ==
  ASSUME LocksInv, UNCHANGED plan,
         \/ \E id \in plan.ids : CallRemove(id)
         \/ LockFirst \/ BackOff \/ EraseBoth
  PROVE  LocksInv'
<1> USE DEF LocksInv, Locks, LocksTypeOK, Holder, SetHolder, Other, Mutexes
<1>1. ASSUME NEW id \in plan.ids, CallRemove(id) PROVE LocksInv'
  BY <1>1, ConstantsAssumption DEF CallRemove, ConstantsAssumption
<1>2. CASE LockFirst
  BY <1>2, FreeAssumption DEF LockFirst
<1>3. CASE BackOff
  BY <1>3, FreeAssumption DEF BackOff
<1>4. CASE EraseBoth
  BY <1>4, FreeAssumption DEF EraseBoth, Idle
<1> QED BY <1>1, <1>2, <1>3, <1>4

LEMMA NextLocks == LocksInv /\ [Next]_vars => LocksInv'
<1> SUFFICES ASSUME LocksInv, [Next]_vars PROVE LocksInv'
  OBVIOUS
<1>1. CASE UNCHANGED vars
  BY <1>1, OutsideLocks DEF vars, calls
<1>2. ASSUME UNCHANGED plan, NEW c \in Conns,
             Accept(c) \/ ReadId(c) \/ AppendListener(c) \/ PeerCloses(c) \/ ReadPacket(c)
      PROVE  LocksInv'
  BY <1>2, OutsideLocks DEF Accept, ReadId, AppendListener, PeerCloses, ReadPacket, calls
<1>3. ASSUME UNCHANGED plan, SendFails \/ Push \/ \E id \in plan.patch : CallPush(id)
      PROVE  LocksInv'
  BY <1>3, OutsideLocks DEF SendFails, Push, CallPush, calls
<1>4. plan.conns \subseteq Conns
  BY ConstantsAssumption DEF ConstantsAssumption, LocksInv, LocksTypeOK
<1> QED BY <1>1, <1>2, <1>3, <1>4, WorkLocks, RemoveLocks DEF Next

\* The worker's two mutexes, which remove takes with back-off and everybody else one at a
\* time: while the worker sends nobody changes either of the vectors it iterates over.
THEOREM WorkerAloneAlways == Spec => WorkerAlone
<1>1. LocksInv /\ [Next]_vars =>
        [worker.at = "send" /\ worker'.at = "send" => UNCHANGED <<clients, notifications>>]_vars
  <2> SUFFICES ASSUME LocksInv, Next, worker.at = "send", worker'.at = "send"
               PROVE  UNCHANGED <<clients, notifications>>
    OBVIOUS
  <2>1. notificationsMutex = "worker" /\ clientsMutex = "worker"
    BY DEF LocksInv, Locks
  <2>2. ~LockNotifications /\ ~NothingQueued /\ ~LockClients /\ ~Clear /\ ~Push
        /\ ~LockFirst /\ ~EraseBoth /\ ~BackOff
    BY <2>1, FreeAssumption
    DEF LockNotifications, NothingQueued, LockClients, Clear, Asleep, Push, LockFirst, EraseBoth,
        BackOff, Holder, Other, LocksInv, Locks, Mutexes
  <2>3. ASSUME NEW c,
               Accept(c) \/ ReadId(c) \/ AppendListener(c) \/ PeerCloses(c) \/ ReadPacket(c)
        PROVE  UNCHANGED <<clients, notifications>>
    BY <2>1, <2>3, FreeAssumption DEF Accept, ReadId, AppendListener, PeerCloses, ReadPacket
  <2>4. ASSUME NEW id, CallPush(id) \/ CallRemove(id)
        PROVE  UNCHANGED <<clients, notifications>>
    BY <2>4 DEF CallPush, CallRemove
  <2>5. CASE Send \/ SendFails
    BY <2>5 DEF Send, SendFails
  <2> QED BY <2>2, <2>3, <2>4, <2>5 DEF Next, Work
<1> QED BY <1>1, InitLocks, NextLocks, PTL DEF Spec, WorkerAlone

-----------------------------------------------------------------------------
(* The packets.                                                            *)

\* No client has read more than was sent to it.
BytesInv ==
  /\ sent \in [Conns -> Nat] /\ packets \in [Conns -> Nat]
  /\ \A c \in Conns : notificationSize * packets[c] <= textSize * sent[c]

LEMMA NextBytes == BytesInv /\ [Next]_vars => BytesInv'
<1> USE DEF BytesInv, notificationSize, textSize
<1> SUFFICES ASSUME BytesInv, [Next]_vars PROVE BytesInv'
  OBVIOUS
<1>1. ASSUME UNCHANGED <<sent, packets>> PROVE BytesInv'
  BY <1>1
<1>2. ASSUME NEW c, ReadPacket(c) PROVE BytesInv'
  <2>1. packets' = [packets EXCEPT ![c] = @ + 1] /\ UNCHANGED sent
    BY <1>2 DEF ReadPacket
  <2>2. CASE c \in Conns
    <3>1. 64 * (packets[c] + 1) <= 17 * sent[c]
      BY <1>2, <2>2 DEF ReadPacket, Unread
    <3> QED BY <2>1, <2>2, <3>1
  <2>3. CASE c \notin Conns
    BY <2>1, <2>3
  <2> QED BY <2>2, <2>3
<1>3. CASE Send
  <2>1. UNCHANGED packets
    BY <1>3 DEF Send
  <2>2. UNCHANGED sent \/ \E c : sent' = [sent EXCEPT ![c] = @ + 1]
    BY <1>3 DEF Send
  <2> QED BY <2>1, <2>2
<1>4. ASSUME NEW c, Accept(c) \/ ReadId(c) \/ AppendListener(c) \/ PeerCloses(c)
      PROVE  BytesInv'
  BY <1>1, <1>4 DEF Accept, ReadId, AppendListener, PeerCloses
<1>5. CASE \/ LockNotifications \/ NothingQueued \/ LockClients \/ Clear \/ SendFails
           \/ Push \/ LockFirst \/ BackOff \/ EraseBoth
           \/ \E id : CallPush(id) \/ CallRemove(id)
  BY <1>1, <1>5 DEF LockNotifications, NothingQueued, LockClients, Clear, SendFails, Push,
                    LockFirst, BackOff, EraseBoth, CallPush, CallRemove
<1>6. CASE UNCHANGED vars
  BY <1>1, <1>6 DEF vars
<1> QED BY <1>2, <1>3, <1>4, <1>5, <1>6 DEF Next, Work

LEMMA Div17 ==
  ASSUME NEW n \in Nat
  PROVE  n \div 17 \in Int /\ 17 * (n \div 17) <= n /\ n < 17 * (n \div 17) + 17
OBVIOUS

\* The text that holds the b-th packet's first byte, or begins with it.
LEMMA NextText ==
  ASSUME NEW b \in Nat
  PROVE  \E k \in Nat : 64 * b <= 17 * k /\ 17 * k < 64 * b + 17
<1>1. PICK q \in Int : 17 * q <= 64 * b /\ 64 * b < 17 * q + 17
  BY 64 * b \in Nat, Div17
<1>2. CASE 17 * q = 64 * b
  BY <1>1, <1>2
<1>3. CASE 17 * q # 64 * b
  <2>1. q + 1 \in Nat /\ 64 * b <= 17 * (q + 1) /\ 17 * (q + 1) < 64 * b + 17
    BY <1>1, <1>3
  <2> QED BY <2>1
<1> QED BY <1>2, <1>3

\* Texts of 17 bytes read 64 at a time, with whatever losses of padding: every packet a
\* client takes has the whole of some text in it.
THEOREM PacketsAlwaysUnderstood == Spec => []PacketsUnderstood
<1>1. Init => BytesInv
  BY DEF Init, BytesInv, notificationSize, textSize
<1>2. BytesInv => PacketsUnderstood
  <2> SUFFICES ASSUME BytesInv, NEW c \in Conns, NEW b \in 0 .. packets[c]-1
               PROVE  \E k \in 0 .. sent[c]-1 : 64 * b <= 17 * k /\ 17 * (k + 1) <= 64 * (b + 1)
    BY DEF PacketsUnderstood, notificationSize, textSize
  <2>1. /\ packets[c] \in Nat /\ sent[c] \in Nat /\ b \in Nat /\ b + 1 <= packets[c]
        /\ 64 * packets[c] <= 17 * sent[c]
    BY DEF BytesInv, notificationSize, textSize
  <2>2. PICK k \in Nat : 64 * b <= 17 * k /\ 17 * k < 64 * b + 17
    BY <2>1, NextText
  <2>3. 17 * (k + 1) <= 64 * (b + 1)
    BY <2>1, <2>2
  <2>4. 17 * (k + 1) <= 17 * sent[c]
    BY <2>1, <2>2
  <2>5. k \in 0 .. sent[c]-1
    BY <2>1, <2>2, <2>4
  <2> QED BY <2>2, <2>3, <2>5
<1> QED BY <1>1, <1>2, NextBytes, PTL DEF Spec

-----------------------------------------------------------------------------
(* The vectors, and who owns a connection's cleanup.                       *)

\* While the worker sends, j is a listener of the vector it goes through.
AtListener == worker.at = "send" => clients = <<>> \/ worker.j \in DOMAIN clients

\* Only who is asked for is removed.
Asked == remover.at # "idle" => remover.id \in Ids

\* A connection is listed by its own thread, once; until then its cleanup is with that
\* thread.
Owned ==
  \A c \in Conns :
    /\ Listed(c) => conn[c][1] = "served"
    /\ conn[c][1] # "served" => cleaned[c] = 0

HubIInv == TypeOK /\ Locks /\ AtListener /\ Asked /\ Owned /\ EntriesWhole /\ ClosedOnce

Stages == {"none", "reading", "appending", "served"}
Read == Ids \cup {Garbage}

LEMMA InitHub == Init => HubIInv
<1> SUFFICES ASSUME Init PROVE HubIInv
  OBVIOUS
<1>1. clients = <<>> /\ DOMAIN clients = {}
  BY DEF Init
<1>2. TypeOK
  <2>1. clients \in Seq(Listener) /\ notifications \in Seq(Ids)
    BY DEF Init
  <2>2. /\ worker \in [at : {"sleep", "locked", "send"}, i : Nat, j : Nat]
        /\ remover \in [at : {"idle", "first", "try"}, id : Read, first : Mutexes]
    BY DEF Init, Asleep, Idle, Mutexes, Read
  <2>3. conn \in [Conns -> Stages \X Read]
    BY DEF Init, Stages, Read
  <2> QED BY <2>1, <2>2, <2>3 DEF Init, TypeOK, Stages, Read
<1>3. Locks
  BY InitLocks DEF LocksInv
<1>4. AtListener /\ Asked
  BY DEF Init, AtListener, Asked, Asleep, Idle
<1>5. \A c \in Conns : ~Listed(c)
  BY <1>1 DEF Listed
<1>6. Owned /\ EntriesWhole /\ ClosedOnce
  BY <1>1, <1>5 DEF Init, Owned, EntriesWhole, ClosedOnce
<1> QED BY <1>2, <1>3, <1>4, <1>6 DEF HubIInv

LEMMA HubLocks == HubIInv => LocksInv
BY DEF HubIInv, TypeOK, LocksInv, LocksTypeOK

LEMMA Entries ==
  ASSUME TypeOK
  PROVE  /\ Len(clients) \in Nat /\ DOMAIN clients = 1..Len(clients)
         /\ \A k \in DOMAIN clients :
              clients[k] \in Listener /\ clients[k].conn \in Conns /\ clients[k].id \in Read
<1>1. clients \in Seq(Listener)
  BY DEF TypeOK
<1>2. \A l \in Listener : l.conn \in Conns /\ l.id \in Read
  BY DEF Listener, Read
<1> QED BY <1>1, <1>2

\* Steps which leave vectors, connections and their cleanups alone.
LEMMA OutsideVectors ==
  ASSUME HubIInv, TypeOK', Locks', UNCHANGED <<clients, conn, cleaned>>, AtListener', Asked'
  PROVE  HubIInv'
<1>1. \A c \in Conns : Listed(c)' <=> Listed(c)
  BY DEF Listed
<1>2. Owned' /\ ClosedOnce'
  BY <1>1 DEF HubIInv, Owned, ClosedOnce
<1>3. EntriesWhole'
  BY DEF HubIInv, EntriesWhole
<1> QED BY <1>2, <1>3 DEF HubIInv

\* Steps of a connection before it is handed over.
LEMMA BeforeServed ==
  ASSUME HubIInv, NEW c \in Conns, Accept(c) \/ ReadId(c), UNCHANGED plan
  PROVE  HubIInv'
<1> USE DEF HubIInv
<1>1. PICK v \in Stages \X Read :
        /\ conn' = [conn EXCEPT ![c] = v]
        /\ conn[c][1] # "served" /\ v[1] # "served"
  <2>1. plan.junk \subseteq Read /\ IdOf[c] \in Read
    BY ConstantsAssumption DEF ConstantsAssumption, TypeOK, Read
  <2>2. \A i \in Read : <<"appending", i>> \in Stages \X Read
    BY DEF Stages
  <2>3. CASE Accept(c)
    <3>1. <<"reading", Garbage>> \in Stages \X Read
      BY DEF Stages, Read
    <3> QED BY <2>3, <3>1 DEF Accept
  <2>4. CASE ReadId(c)
    BY <2>1, <2>2, <2>4 DEF ReadId
  <2> QED BY <2>3, <2>4
<1>2. /\ UNCHANGED <<plan, clients, notifications, notificationsMutex, clientsMutex, worker,
                     sent, packets, peer, cleaned, push, remover, pushes, removes, crashed>>
  BY DEF Accept, ReadId, calls
<1>3. conn \in [Conns -> Stages \X Read] /\ v \in Stages \X Read
  BY <1>1 DEF TypeOK, Stages, Read
<1>4. /\ conn' \in [Conns -> Stages \X Read]
      /\ \A d \in Conns : conn'[d] = IF d = c THEN v ELSE conn[d]
  BY <1>1, <1>3
<1>5. TypeOK'
  <2>1. conn' \in [Conns -> {"none", "reading", "appending", "served"} \X (Ids \cup {Garbage})]
    BY <1>4 DEF Stages, Read
  <2> QED BY <1>2, <2>1 DEF TypeOK
<1>6. Locks' /\ AtListener' /\ Asked'
  BY <1>2 DEF Locks, Holder, AtListener, Asked
<1>7. \A d \in Conns : Listed(d)' <=> Listed(d)
  BY <1>2 DEF Listed
<1>8. ~Listed(c)
  BY <1>1 DEF Owned
<1>10. Owned'
  BY <1>1, <1>2, <1>4, <1>7, <1>8 DEF Owned
<1>11. ClosedOnce'
  BY <1>2, <1>7 DEF ClosedOnce
<1>12. EntriesWhole'
  <2>1. \A k \in DOMAIN clients : clients[k].conn \in Conns /\ clients[k].conn # c
    BY <1>8, Entries DEF Listed
  <2> QED BY <1>2, <1>4, <2>1 DEF EntriesWhole
<1> QED BY <1>5, <1>6, <1>10, <1>11, <1>12

\* What handing a connection over changes.
LEMMA Appended ==
  ASSUME TypeOK, NEW c \in Conns, AppendListener(c)
  PROVE  /\ conn' \in [Conns -> Stages \X Read]
         /\ \A d \in Conns \ {c} : conn'[d] = conn[d]
         /\ conn'[c][1] = "served" /\ conn'[c][2] = conn[c][2]
         /\ clients' \in Seq(Listener) /\ DOMAIN clients' = 1..Len(clients) + 1
         /\ DOMAIN clients = 1..Len(clients) /\ Len(clients) \in Nat
         /\ \A k \in 1..Len(clients) : clients'[k] = clients[k]
         /\ clients'[Len(clients) + 1].id = conn[c][2]
         /\ clients'[Len(clients) + 1].conn = c
<1> DEFINE l == [id |-> conn[c][2], conn |-> c]
<1>1. conn \in [Conns -> Stages \X Read]
  BY DEF TypeOK, Stages, Read
<1>2. PICK a \in Stages, b \in Read : conn[c] = <<a, b>>
  BY <1>1
<1>3. conn' = [conn EXCEPT ![c] = <<"served", b>>]
  <2>1. [conn[c] EXCEPT ![1] = "served"] = <<"served", b>>
    BY <1>2
  <2> QED BY <2>1 DEF AppendListener
<1>4. <<"served", b>> \in Stages \X Read
  BY <1>2 DEF Stages
<1>5. l \in Listener /\ l.id = conn[c][2] /\ l.conn = c
  BY <1>2 DEF Listener, Read
<1>6. clients' = Append(clients, l) /\ clients \in Seq(Listener)
  BY DEF AppendListener, TypeOK
<1> HIDE DEF l
<1>7. /\ clients' \in Seq(Listener) /\ DOMAIN clients' = 1..Len(clients) + 1
      /\ DOMAIN clients = 1..Len(clients) /\ Len(clients) \in Nat
      /\ \A k \in 1..Len(clients) : clients'[k] = clients[k]
      /\ clients'[Len(clients) + 1] = l
  BY <1>5, <1>6
<1> QED BY <1>1, <1>2, <1>3, <1>4, <1>5, <1>7

\* A connection is handed over, to the end of the vector.
LEMMA AppendHub ==
  ASSUME HubIInv, NEW c \in Conns, AppendListener(c), UNCHANGED plan
  PROVE  HubIInv'
<1> USE DEF HubIInv
<1> DEFINE n == Len(clients) + 1
<1>1. /\ conn[c][1] = "appending" /\ clientsMutex = Free
      /\ UNCHANGED <<plan, notifications, notificationsMutex, clientsMutex, worker, peer,
                     sent, packets, cleaned, push, remover, pushes, removes, crashed>>
  BY DEF AppendListener, calls
<1>2. /\ conn' \in [Conns -> Stages \X Read]
      /\ \A d \in Conns \ {c} : conn'[d] = conn[d]
      /\ conn'[c][1] = "served" /\ conn'[c][2] = conn[c][2]
  BY Appended
<1>3. /\ clients' \in Seq(Listener) /\ DOMAIN clients' = 1..n
      /\ DOMAIN clients = 1..Len(clients) /\ Len(clients) \in Nat
      /\ \A k \in 1..Len(clients) : clients'[k] = clients[k]
      /\ clients'[n].id = conn[c][2] /\ clients'[n].conn = c
  BY Appended
<1>4. TypeOK'
  <2>1. conn' \in [Conns -> {"none", "reading", "appending", "served"} \X (Ids \cup {Garbage})]
    BY <1>2 DEF Stages, Read
  <2> QED BY <1>1, <1>3, <2>1 DEF TypeOK
<1>5. Locks' /\ Asked'
  BY <1>1 DEF Locks, Holder, Asked
<1>6. AtListener'
  <2>1. worker.at # "send"
    BY <1>1, FreeAssumption DEF Locks
  <2> QED BY <1>1, <2>1 DEF AtListener
<1>7. \A d \in Conns : Listed(d)' => d = c \/ Listed(d)
  BY <1>3 DEF Listed
<1>8. ~Listed(c) /\ cleaned[c] = 0
  BY <1>1 DEF Owned
<1>9. Owned'
  <2> SUFFICES ASSUME NEW d \in Conns
               PROVE  /\ Listed(d)' => conn'[d][1] = "served"
                      /\ conn'[d][1] # "served" => cleaned'[d] = 0
    BY DEF Owned
  <2>1. CASE d = c
    BY <1>2, <2>1 DEF Owned
  <2>2. CASE d # c
    BY <1>1, <1>2, <1>7, <2>2 DEF Owned
  <2> QED BY <2>1, <2>2
<1>10. ClosedOnce'
  <2> SUFFICES ASSUME NEW d \in Conns
               PROVE  /\ Listed(d)' => cleaned'[d] <= 0
                      /\ ~Listed(d)' => cleaned'[d] <= 1
    BY DEF ClosedOnce
  <2>1. cleaned'[d] = cleaned[d] /\ cleaned[d] \in Nat
    BY <1>1 DEF TypeOK
  <2>2. (Listed(d) => cleaned[d] <= 0) /\ (~Listed(d) => cleaned[d] <= 1)
    BY DEF ClosedOnce
  <2> QED BY <1>7, <1>8, <2>1, <2>2
<1>11. EntriesWhole'
  <2>1. \A k \in 1..Len(clients) : clients[k].conn # c /\ clients[k].conn \in Conns
    BY <1>3, <1>8, Entries DEF Listed
  <2>2. \A k \in 1..n : k \in 1..Len(clients) \/ k = n
    BY <1>3
  <2>3. ASSUME NEW k \in 1..n PROVE clients'[k].id = conn'[clients'[k].conn][2]
    <3>1. CASE k \in 1..Len(clients)
      BY <1>2, <1>3, <2>1, <3>1 DEF EntriesWhole
    <3>2. CASE k = n
      BY <1>2, <1>3, <3>2
    <3> QED BY <2>2, <3>1, <3>2
  <2>4. ASSUME NEW k \in 1..n, NEW m \in 1..n, clients'[k].conn = clients'[m].conn
        PROVE  k = m
    BY <1>3, <2>1, <2>2, <2>4 DEF EntriesWhole
  <2> QED BY <1>3, <2>3, <2>4 DEF EntriesWhole
<1> QED BY <1>4, <1>5, <1>6, <1>9, <1>10, <1>11

\* The worker's steps: it stays within the vectors, which wait for it.
LEMMA WorkHub ==
  ASSUME HubIInv, Work, UNCHANGED plan
  PROVE  HubIInv'
<1> USE DEF HubIInv
<1>1. Locks' /\ worker' \in [at : {"sleep", "locked", "send"}, i : Nat, j : Nat]
  BY HubLocks, WorkLocks DEF LocksInv, LocksTypeOK
<1>2. UNCHANGED <<plan, clients, conn, cleaned, peer, packets, push, remover, pushes, removes,
                  crashed>>
  BY DEF Work, LockNotifications, NothingQueued, LockClients, Send, Clear, calls
<1>3. Asked'
  BY <1>2 DEF Asked
<1>4. /\ notifications' \in Seq(Ids)
      /\ notificationsMutex' \in {Free, "worker", "serve"}
      /\ clientsMutex' \in {Free, "worker", "serve"}
  <2>1. notifications' = notifications \/ notifications' = <<>>
    BY DEF Work, LockNotifications, NothingQueued, LockClients, Send, Clear
  <2>2. /\ notificationsMutex' \in {notificationsMutex, Free, "worker"}
        /\ clientsMutex' \in {clientsMutex, Free, "worker"}
    BY DEF Work, LockNotifications, NothingQueued, LockClients, Send, Clear
  <2>3. notifications \in Seq(Ids)
    BY DEF TypeOK
  <2>4. notifications' \in Seq(Ids)
    BY <2>1, <2>3, <<>> \in Seq(Ids)
  <2> QED BY <2>2, <2>4 DEF TypeOK
<1>5. Len(clients) \in Nat /\ DOMAIN clients = 1..Len(clients)
  BY Entries
<1>6. sent' \in [Conns -> Nat] /\ AtListener'
  <2>1. CASE Send
    <3>1. worker.at = "send" /\ clients # <<>> /\ worker' = Step
      BY <2>1 DEF Send, Sending
    <3>2. worker.j \in DOMAIN clients /\ clients[worker.j].conn \in Conns
      BY <3>1, Entries DEF AtListener
    <3>3. sent' \in [Conns -> Nat]
      <4> DEFINE to == clients[worker.j]
      <4>1. UNCHANGED sent \/ sent' = [sent EXCEPT ![to.conn] = @ + 1]
        BY <2>1 DEF Send
      <4>2. sent \in [Conns -> Nat]
        BY DEF TypeOK
      <4> QED BY <3>2, <4>1, <4>2
    <3>4. worker'.j \in DOMAIN clients
      <4>1. worker \in [at : {"sleep", "locked", "send"}, i : Nat, j : Nat]
        BY DEF TypeOK
      <4>2. CASE worker.j < Len(clients)
        <5>1. worker' = [worker EXCEPT !.j = worker.j + 1]
          BY <3>1, <4>2 DEF Step
        <5>2. worker'.j = worker.j + 1
          BY <4>1, <5>1
        <5> QED BY <1>5, <3>2, <4>2, <5>2
      <4>3. CASE ~(worker.j < Len(clients))
        <5> DEFINE w == [worker EXCEPT !.i = worker.i + 1]
        <5>1. worker' = [w EXCEPT !.j = 1]
          BY <3>1, <4>3 DEF Step
        <5>2. w \in [at : {"sleep", "locked", "send"}, i : Nat, j : Nat]
          BY <4>1
        <5> HIDE DEF w
        <5>3. worker'.j = 1
          BY <5>1, <5>2
        <5> QED BY <1>5, <3>2, <5>3
      <4> QED BY <4>2, <4>3
    <3> QED BY <1>2, <3>3, <3>4 DEF AtListener
  <2>2. CASE LockClients
    <3>1. worker'.j = 1 /\ UNCHANGED sent
      BY <2>2 DEF LockClients
    <3>2. clients = <<>> \/ 1 \in DOMAIN clients
      <4>1. clients \in Seq(Listener)
        BY DEF TypeOK
      <4>2. Len(clients) = 0 => clients = <<>>
        BY <4>1
      <4> QED BY <1>5, <4>2
    <3> QED BY <1>2, <3>1, <3>2 DEF AtListener, TypeOK
  <2>3. CASE LockNotifications \/ NothingQueued \/ Clear
    <3>1. worker'.at # "send" /\ UNCHANGED sent
      BY <2>3 DEF LockNotifications, NothingQueued, Clear, Asleep, TypeOK
    <3> QED BY <3>1 DEF AtListener, TypeOK
  <2> QED BY <2>1, <2>2, <2>3 DEF Work
<1>7. TypeOK'
  BY <1>1, <1>2, <1>4, <1>6 DEF TypeOK
<1> QED BY <1>1, <1>2, <1>3, <1>6, <1>7, OutsideVectors

\* The rest of what leaves vectors, connections and cleanups alone.
LEMMA OtherHub ==
  ASSUME HubIInv, UNCHANGED plan,
         \/ \E c \in Conns : PeerCloses(c) \/ ReadPacket(c)
         \/ SendFails \/ (\E id \in plan.patch : CallPush(id))
         \/ (\E id \in plan.ids : CallRemove(id))
         \/ Push \/ LockFirst \/ BackOff
  PROVE  HubIInv'
<1> USE DEF HubIInv
<1>1. Locks'
  <2>1. CASE (\E id \in plan.ids : CallRemove(id)) \/ LockFirst \/ BackOff
    BY <2>1, HubLocks, RemoveLocks DEF LocksInv
  <2>2. CASE \/ \E c \in Conns : PeerCloses(c) \/ ReadPacket(c)
             \/ SendFails \/ (\E id \in plan.patch : CallPush(id)) \/ Push
    BY <2>2, HubLocks, OutsideLocks
    DEF PeerCloses, ReadPacket, SendFails, CallPush, Push, calls, LocksInv
  <2> QED BY <2>1, <2>2
<1>2. UNCHANGED <<plan, clients, conn, cleaned, worker, sent>>
  BY DEF PeerCloses, ReadPacket, SendFails, CallPush, CallRemove, Push, LockFirst, BackOff, SetHolder
<1>3. AtListener'
  BY <1>2 DEF AtListener
<1>4. plan.patch \subseteq Ids /\ plan.ids \subseteq Ids
  BY ConstantsAssumption DEF ConstantsAssumption, TypeOK
<1>5. Asked' /\ remover' \in [at : {"idle", "first", "try"}, id : Read, first : Mutexes]
  <2>1. remover \in [at : {"idle", "first", "try"}, id : Read, first : Mutexes]
    BY DEF TypeOK, Read
  <2>2. CASE UNCHANGED remover
    BY <2>1, <2>2 DEF Asked
  <2>3. ASSUME NEW id \in plan.ids, CallRemove(id)
        PROVE  Asked' /\ remover' \in [at : {"idle", "first", "try"}, id : Read, first : Mutexes]
    BY <1>4, <2>3 DEF CallRemove, Asked, Read, Mutexes
  <2>4. CASE LockFirst
    BY <2>1, <2>4 DEF LockFirst, Asked
  <2>5. CASE BackOff
    <3> DEFINE r == [remover EXCEPT !.at = "first"]
    <3>1. remover.at = "try" /\ remover' = [r EXCEPT !.first = Other(remover.first)]
      BY <2>5 DEF BackOff
    <3>2. r \in [at : {"idle", "first", "try"}, id : Read, first : Mutexes] /\ r.id = remover.id
      BY <2>1
    <3>3. Other(remover.first) \in Mutexes
      BY DEF Other, Mutexes
    <3> HIDE DEF r
    <3>4. remover' \in [at : {"idle", "first", "try"}, id : Read, first : Mutexes]
          /\ remover'.id = remover.id
      BY <3>1, <3>2, <3>3
    <3> QED BY <3>1, <3>4 DEF Asked
  <2> QED BY <2>2, <2>3, <2>4, <2>5
      DEF PeerCloses, ReadPacket, SendFails, CallPush, Push, calls
<1>6. /\ notificationsMutex' \in {Free, "worker", "serve"}
      /\ clientsMutex' \in {Free, "worker", "serve"}
  BY DEF PeerCloses, ReadPacket, SendFails, CallPush, CallRemove, Push, LockFirst, BackOff,
         SetHolder, TypeOK
<1>7. notifications' \in Seq(Ids) /\ push' \in Ids \cup {Free}
  <2>1. notifications \in Seq(Ids) /\ push \in Ids \cup {Free}
    BY DEF TypeOK
  <2>2. CASE Push
    BY <2>1, <2>2 DEF Push
  <2>3. ASSUME NEW id \in plan.patch, CallPush(id)
        PROVE  notifications' \in Seq(Ids) /\ push' \in Ids \cup {Free}
    BY <1>4, <2>1, <2>3 DEF CallPush
  <2> QED BY <2>1, <2>2, <2>3
      DEF PeerCloses, ReadPacket, SendFails, CallRemove, LockFirst, BackOff, calls
<1>8. /\ peer' \in [Conns -> {"up", "gone"}] /\ packets' \in [Conns -> Nat]
      /\ pushes' \in Nat /\ removes' \in Nat
  <2>1. peer' \in [Conns -> {"up", "gone"}]
    BY DEF PeerCloses, ReadPacket, SendFails, CallPush, CallRemove, Push, LockFirst, BackOff, TypeOK
  <2>2. packets' \in [Conns -> Nat]
    BY DEF PeerCloses, ReadPacket, SendFails, CallPush, CallRemove, Push, LockFirst, BackOff, TypeOK
  <2>3. pushes' \in Nat /\ removes' \in Nat
    BY DEF PeerCloses, ReadPacket, SendFails, CallPush, CallRemove, Push, LockFirst, BackOff,
           TypeOK, calls
  <2> QED BY <2>1, <2>2, <2>3
<1>9. crashed' \in BOOLEAN
  BY DEF PeerCloses, ReadPacket, SendFails, CallPush, CallRemove, Push, LockFirst, BackOff, TypeOK
<1>10. TypeOK'
  BY <1>2, <1>5, <1>6, <1>7, <1>8, <1>9 DEF TypeOK, Read
<1> QED BY <1>1, <1>2, <1>3, <1>5, <1>10, OutsideVectors

\* remove: who is removed is gone from both vectors, the others are where they belong,
\* and the cleanups that run are those of connections which were listed and are no more.
LEMMA EraseHub ==
  ASSUME HubIInv, EraseBoth, UNCHANGED plan
  PROVE  HubIInv'
<1> USE DEF HubIInv
<1> DEFINE id == remover.id
           stay == Stay(clients, Of(id))
           from(i) == AtPlace(stay, i)
<1>0. Locks'
  BY HubLocks, RemoveLocks DEF LocksInv
<1>1. /\ remover.at = "try" /\ remover' = Idle
      /\ clients' = Erased(clients, Of(id)) /\ notifications' = WithoutQueued(id)
      /\ UNCHANGED <<plan, worker, conn, peer, sent, packets, push, pushes, removes, crashed>>
  BY DEF EraseBoth, EraseIf
<1>2. /\ clients \in Seq(Listener) /\ Of(id) \in SUBSET DOMAIN clients
      /\ Len(clients) \in Nat /\ DOMAIN clients = 1..Len(clients)
  BY Entries DEF Of, TypeOK
<1>3. /\ clients' \in Seq(Listener) /\ Len(clients') \in Nat /\ DOMAIN clients' = 1..Len(clients')
      /\ \A i \in DOMAIN clients' : /\ from(i) \in stay /\ Place(stay, from(i)) = i
                                    /\ clients'[i] = clients[from(i)]
  <2> HIDE DEF id, Of, from
  <2> QED BY <1>1, <1>2, ErasedFacts DEF from
<1>4. notifications' \in Seq(Ids)
  <2>1. notifications \in Seq(Ids)
    BY DEF TypeOK
  <2>2. {k \in DOMAIN notifications : notifications[k] = id} \in SUBSET DOMAIN notifications
    OBVIOUS
  <2> QED BY <1>1, <2>1, <2>2, ErasedFacts DEF WithoutQueued
<1>5. PICK left \in Nat :
        cleaned' = [c \in Conns |->
          IF \E k \in Of(id) : k > left /\ clients[k].conn = c THEN cleaned[c] + 1 ELSE cleaned[c]]
  <2>1. cleaned' = [c \in Conns |->
          IF c \in {clients[k].conn : k \in {m \in Of(id) : m > Len(clients')}}
            THEN cleaned[c] + 1 ELSE cleaned[c]]
    BY DEF EraseBoth, EraseIf
  <2>2. \A c : c \in {clients[k].conn : k \in {m \in Of(id) : m > Len(clients')}} <=>
               \E k \in Of(id) : k > Len(clients') /\ clients[k].conn = c
    OBVIOUS
  <2>3. cleaned' = [c \in Conns |->
          IF \E k \in Of(id) : k > Len(clients') /\ clients[k].conn = c
            THEN cleaned[c] + 1 ELSE cleaned[c]]
    BY <2>1, <2>2
  <2> QED BY <1>3, <2>3
<1> HIDE DEF id, stay, from
<1>6. TypeOK'
  <2>1. /\ notificationsMutex' \in {notificationsMutex, Free}
        /\ clientsMutex' \in {clientsMutex, Free}
    BY DEF EraseBoth, SetHolder
  <2>2. remover' \in [at : {"idle", "first", "try"}, id : Ids \cup {Garbage}, first : Mutexes]
    BY <1>1 DEF Idle, Mutexes
  <2>3. cleaned' \in [Conns -> Nat]
    BY <1>5 DEF TypeOK
  <2> QED BY <1>1, <1>3, <1>4, <2>1, <2>2, <2>3 DEF TypeOK
<1>7. AtListener'
  <2>1. worker.at # "send"
    BY FreeAssumption DEF EraseBoth, Locks, Holder, Other, Mutexes
  <2> QED BY <1>1, <2>1 DEF AtListener
<1>8. Asked'
  BY <1>1 DEF Asked, Idle
<1>9. EntriesWhole'
  <2>1. \A i \in DOMAIN clients' : from(i) \in DOMAIN clients
    BY <1>3 DEF stay, Stay
  <2>2. ASSUME NEW i \in DOMAIN clients', NEW j \in DOMAIN clients',
               clients'[i].conn = clients'[j].conn
        PROVE  i = j
    <3>1. from(i) = from(j)
      BY <1>3, <2>1, <2>2 DEF EntriesWhole
    <3> QED BY <1>3, <3>1
  <2>3. \A i \in DOMAIN clients' : clients'[i].id = conn'[clients'[i].conn][2]
    BY <1>1, <1>3, <2>1 DEF EntriesWhole
  <2> QED BY <2>2, <2>3 DEF EntriesWhole
<1>10. \A c \in Conns : Listed(c)' => Listed(c) /\ \A k \in Of(id) : clients[k].conn # c
  <2> SUFFICES ASSUME NEW c \in Conns, NEW i \in DOMAIN clients', clients'[i].conn = c
               PROVE  Listed(c) /\ \A k \in Of(id) : clients[k].conn # c
    BY DEF Listed
  <2>1. from(i) \in DOMAIN clients /\ from(i) \notin Of(id) /\ clients[from(i)].conn = c
    BY <1>3 DEF stay, Stay
  <2> QED BY <1>2, <2>1 DEF Listed, EntriesWhole
<1>11. \A c \in Conns : \/ cleaned'[c] = cleaned[c]
                        \/ Listed(c) /\ ~Listed(c)' /\ cleaned'[c] = cleaned[c] + 1
  <2> SUFFICES ASSUME NEW c \in Conns, cleaned'[c] # cleaned[c]
               PROVE  Listed(c) /\ ~Listed(c)' /\ cleaned'[c] = cleaned[c] + 1
    OBVIOUS
  <2>1. PICK k \in Of(id) : clients[k].conn = c
    BY <1>5
  <2>2. cleaned'[c] = cleaned[c] + 1
    BY <1>5
  <2> QED BY <1>2, <1>10, <2>1, <2>2 DEF Listed
<1>12. Owned'
  BY <1>1, <1>10, <1>11 DEF Owned
<1>13. ClosedOnce'
  <2> SUFFICES ASSUME NEW c \in Conns
               PROVE  /\ Listed(c)' => cleaned'[c] <= 0
                      /\ ~Listed(c)' => cleaned'[c] <= 1
    BY DEF ClosedOnce
  <2>1. (Listed(c) => cleaned[c] <= 0) /\ (~Listed(c) => cleaned[c] <= 1) /\ cleaned[c] \in Nat
    BY DEF ClosedOnce, TypeOK
  <2> QED BY <1>10, <1>11, <2>1
<1> QED BY <1>0, <1>6, <1>7, <1>8, <1>9, <1>12, <1>13

LEMMA NextHub == HubIInv /\ [Next]_vars => HubIInv'
<1> SUFFICES ASSUME HubIInv, [Next]_vars PROVE HubIInv'
  OBVIOUS
<1>1. CASE UNCHANGED vars
  <2>1. TypeOK' /\ Locks' /\ AtListener' /\ Asked' /\ UNCHANGED <<clients, conn, cleaned>>
    BY <1>1 DEF vars, calls, HubIInv, TypeOK, Locks, Holder, AtListener, Asked
  <2> QED BY <2>1, OutsideVectors
<1>2. plan.conns \subseteq Conns
  BY ConstantsAssumption DEF ConstantsAssumption, HubIInv, TypeOK
<1> QED BY <1>1, <1>2, BeforeServed, AppendHub, WorkHub, OtherHub, EraseHub DEF Next

\* worker, clientConnection and remove together: entries stay whole however the vector is
\* shuffled, and a connection is closed at most once and never while it is listed.
THEOREM HubSafe == Spec => []HubInv
<1>1. HubIInv => HubInv
  BY DEF HubIInv, HubInv
<1> QED BY <1>1, InitHub, NextHub, PTL DEF Spec

-----------------------------------------------------------------------------
(* The hub the vectors and the threads implement.                          *)

listening == {clients[k].id : k \in DOMAIN clients} \ {Garbage}
waiting == {notifications[k] : k \in DOMAIN notifications}
connectedIds == {IdOf[c] : c \in {d \in Served : conn[d][2] = IdOf[d]}}
strayIds == {conn[c][2] : c \in {d \in Served : conn[d][2] # IdOf[d]}} \ {Garbage}

\* A step of the hub, or none.
HubStep == Hub!Next \/ UNCHANGED <<listening, waiting, connectedIds, strayIds>>

LEMMA InitRefines == Init => Hub!Init
<1> SUFFICES ASSUME Init PROVE Hub!Init
  OBVIOUS
<1>1. listening = {} /\ waiting = {}
  BY DEF Init, listening, waiting
<1>2. \A c \in Conns : conn[c][1] # "served"
  BY DEF Init
<1>3. connectedIds = {} /\ strayIds = {}
  BY <1>2 DEF connectedIds, strayIds, Served
<1> QED BY <1>1, <1>3 DEF Hub!Init, listening, waiting, connectedIds, strayIds

\* Nothing is listed, queued or connected that was not.
LEMMA SameHub ==
  ASSUME UNCHANGED <<clients, notifications, conn>>
  PROVE  UNCHANGED <<listening, waiting, connectedIds, strayIds>>
BY DEF listening, waiting, connectedIds, strayIds, Served

\* Until a connection is handed over, the hub does not know it.
LEMMA BeforeRefines ==
  ASSUME HubIInv, NEW c \in Conns, Accept(c) \/ ReadId(c)
  PROVE  UNCHANGED <<listening, waiting, connectedIds, strayIds>>
<1>1. UNCHANGED <<clients, notifications>>
  BY DEF Accept, ReadId
<1>2. PICK v : conn' = [conn EXCEPT ![c] = v] /\ conn[c][1] # "served" /\ v[1] # "served"
  BY DEF Accept, ReadId
<1>3. \A d \in Conns : \/ conn'[d] = conn[d]
                       \/ conn[d][1] # "served" /\ conn'[d][1] # "served"
  <2>1. conn \in [Conns -> Stages \X Read]
    BY DEF HubIInv, TypeOK, Stages, Read
  <2>2. conn'[c] = v /\ \A d \in Conns \ {c} : conn'[d] = conn[d]
    BY <1>2, <2>1
  <2>3. conn[c][1] # "served" /\ conn'[c][1] # "served"
    BY ONLY <1>2, <2>2
  <2> QED BY ONLY <2>2, <2>3
<1>4. Served' = Served /\ \A d \in Served : conn'[d] = conn[d]
  BY <1>3 DEF Served
<1>5. /\ \A i : i \in connectedIds' <=> i \in connectedIds
      /\ \A i : i \in strayIds' <=> i \in strayIds
  BY <1>4 DEF connectedIds, strayIds
<1>6. connectedIds' = connectedIds /\ strayIds' = strayIds
  BY <1>5
<1> QED BY <1>1, <1>6 DEF listening, waiting

\* clientConnection is Connect when it read its client's id, Stray when it read another's,
\* and nothing when it read nobody's.
LEMMA AppendRefines ==
  ASSUME HubIInv, NEW c \in Conns, AppendListener(c)
  PROVE  HubStep
<1> USE DEF HubIInv
<1> DEFINE n == Len(clients) + 1
<1>1. conn[c][1] = "appending" /\ UNCHANGED notifications
  BY DEF AppendListener
<1>2. /\ \A d \in Conns \ {c} : conn'[d] = conn[d]
      /\ conn'[c][1] = "served" /\ conn'[c][2] = conn[c][2]
  BY Appended
<1>3. /\ DOMAIN clients' = 1..n /\ DOMAIN clients = 1..Len(clients) /\ Len(clients) \in Nat
      /\ \A k \in 1..Len(clients) : clients'[k] = clients[k]
      /\ clients'[n].id = conn[c][2]
  BY Appended
<1>4. \A i : i \in listening' <=> i \in listening \/ i \in {conn[c][2]} \ {Garbage}
  <2>1. \A i : (\E k \in 1..n : clients'[k].id = i) <=>
                 (\E k \in 1..Len(clients) : clients[k].id = i) \/ i = conn[c][2]
    <3>1. n \in 1..n /\ \A k \in 1..n : k \in 1..Len(clients) \/ k = n
      BY <1>3
    <3>2. \A k \in 1..Len(clients) : k \in 1..n
      BY <1>3
    <3> HIDE DEF n
    <3> QED BY <1>3, <3>1, <3>2
  <2>2. \A i : i \in listening <=> i # Garbage /\ \E k \in DOMAIN clients : clients[k].id = i
    BY DEF listening
  <2>3. \A i : i \in listening' <=> i # Garbage /\ \E k \in DOMAIN clients' : clients'[k].id = i
    BY DEF listening
  <2> HIDE DEF n
  <2> QED BY <1>3, <2>1, <2>2, <2>3
<1>5. /\ Served' = Served \cup {c} /\ c \notin Served
      /\ \A d \in Served : conn'[d] = conn[d]
  BY <1>1, <1>2 DEF Served
<1>9. /\ \A i : i \in connectedIds' <=> i \in connectedIds \/ (i = IdOf[c] /\ i = conn[c][2])
      /\ \A i : i \in strayIds' <=>
                i \in strayIds \/ (i = conn[c][2] /\ i # IdOf[c] /\ i # Garbage)
  <2>1. conn'[c][2] = conn[c][2]
    BY <1>2
  <2> QED BY <1>5, <2>1 DEF connectedIds, strayIds
<1>10. IdOf[c] \in Ids /\ IdOf[c] # Garbage
  BY ConstantsAssumption DEF ConstantsAssumption
<1>6. waiting' = waiting
  BY <1>1 DEF waiting
<1>7. CASE conn[c][2] = Garbage
  <2>1. listening' = listening /\ connectedIds' = connectedIds /\ strayIds' = strayIds
    BY <1>4, <1>7, <1>9, <1>10
  <2> QED BY <1>6, <2>1 DEF HubStep
<1>8. CASE conn[c][2] = IdOf[c]
  <2> DEFINE id == IdOf[c]
  <2>1. conn[c][2] = id /\ id \in Ids /\ id # Garbage
    BY <1>8, <1>10
  <2>2. id \notin connectedIds
    <3> SUFFICES ASSUME NEW d \in Served, IdOf[d] = id PROVE FALSE
      BY DEF connectedIds
    <3>1. d = c
      BY ConstantsAssumption DEF ConstantsAssumption, Served
    <3> QED BY <1>5, <3>1
  <2>3. /\ listening' = listening \cup {id} /\ connectedIds' = connectedIds \cup {id}
        /\ strayIds' = strayIds
    BY <1>4, <1>9, <2>1
  <2>4. Hub!Connect(id)
    BY <1>6, <2>2, <2>3 DEF Hub!Connect, listening, waiting, connectedIds, strayIds, Served
  <2> QED BY <2>1, <2>4 DEF HubStep, Hub!Next
<1>11. CASE conn[c][2] # Garbage /\ conn[c][2] # IdOf[c]
  <2>1. PICK id \in Ids : id = conn[c][2]
    BY <1>11 DEF TypeOK
  <2>2. /\ listening' = listening \cup {id} /\ strayIds' = strayIds \cup {id}
        /\ connectedIds' = connectedIds
    BY <1>4, <1>9, <1>11, <2>1
  <2>3. Hub!Stray(id)
    BY <1>6, <2>2 DEF Hub!Stray, listening, waiting, connectedIds, strayIds, Served
  <2> QED BY <2>1, <2>3 DEF HubStep, Hub!Next
<1> QED BY <1>7, <1>8, <1>11

\* Push, Flush (or nothing, when nothing was queued) and Drop.
LEMMA PushRefines ==
  ASSUME HubIInv, Push
  PROVE  HubStep
<1>1. push \in Ids /\ notifications \in Seq(Ids)
  BY DEF Push, HubIInv, TypeOK
<1>2. UNCHANGED <<clients, conn>> /\ notifications' = Append(notifications, push)
  BY DEF Push
<1>3. \A i : i \in waiting' <=> i \in waiting \/ i = push
  <2> DEFINE n == Len(notifications)
  <2>1. /\ n \in Nat /\ DOMAIN notifications = 1..n /\ DOMAIN notifications' = 1..n + 1
        /\ \A k \in 1..n : notifications'[k] = notifications[k]
        /\ notifications'[n + 1] = push
    BY <1>1, <1>2
  <2>2. \A k \in 1..n + 1 : k \in 1..n \/ k = n + 1
    BY <2>1
  <2>3. (\A k \in 1..n : k \in 1..n + 1) /\ n + 1 \in 1..n + 1
    BY <2>1
  <2>4. \A i : i \in waiting <=> \E k \in DOMAIN notifications : notifications[k] = i
    BY DEF waiting
  <2>5. \A i : i \in waiting' <=> \E k \in DOMAIN notifications' : notifications'[k] = i
    BY DEF waiting
  <2> HIDE DEF n
  <2> QED BY <2>1, <2>2, <2>3, <2>4, <2>5
<1>4. waiting' = waiting \cup {push}
  BY <1>3
<1>5. listening' = listening /\ connectedIds' = connectedIds /\ strayIds' = strayIds
  BY <1>2 DEF listening, connectedIds, strayIds, Served
<1>6. PICK i \in Ids : i = push
  BY <1>1
<1>7. Hub!Push(i)
  BY <1>4, <1>5, <1>6 DEF Hub!Push, listening, waiting, connectedIds, strayIds, Served
<1> QED BY <1>7 DEF HubStep, Hub!Next

LEMMA ClearRefines ==
  ASSUME HubIInv, Clear
  PROVE  HubStep
<1>1. UNCHANGED <<clients, conn>> /\ notifications' = <<>>
  BY DEF Clear
<1>2. waiting' = {}
  BY <1>1 DEF waiting
<1>3. listening' = listening /\ connectedIds' = connectedIds /\ strayIds' = strayIds
  BY <1>1 DEF listening, connectedIds, strayIds, Served
<1>4. CASE waiting = {}
  BY <1>2, <1>3, <1>4 DEF HubStep
<1>5. CASE waiting # {}
  <2>1. Hub!Flush
    BY <1>2, <1>3, <1>5 DEF Hub!Flush, listening, waiting, connectedIds, strayIds, Served
  <2> QED BY <2>1 DEF HubStep, Hub!Next
<1> QED BY <1>4, <1>5

LEMMA EraseRefines ==
  ASSUME HubIInv, EraseBoth
  PROVE  HubStep
<1> DEFINE id == remover.id
           erased == {k \in DOMAIN notifications : notifications[k] = id}
<1>1. id \in Ids /\ id # Garbage
  BY ConstantsAssumption DEF EraseBoth, HubIInv, Asked, ConstantsAssumption
<1>2. /\ clients' = Erased(clients, Of(id)) /\ notifications' = Erased(notifications, erased)
      /\ UNCHANGED conn
  BY DEF EraseBoth, EraseIf, WithoutQueued
<1>3. /\ clients \in Seq(Listener) /\ Of(id) \in SUBSET DOMAIN clients
      /\ notifications \in Seq(Ids) /\ erased \in SUBSET DOMAIN notifications
  BY DEF HubIInv, TypeOK, Of
<1>4. /\ \A k \in DOMAIN clients : k \in Stay(clients, Of(id)) <=> clients[k].id # id
      /\ \A k \in Stay(clients, Of(id)) : k \in DOMAIN clients
      /\ \A k \in DOMAIN notifications :
           k \in Stay(notifications, erased) <=> notifications[k] # id
      /\ \A k \in Stay(notifications, erased) : k \in DOMAIN notifications
  BY DEF Stay, Of
<1> HIDE DEF id, erased
<1>5. /\ \A i \in DOMAIN clients' :
           \E k \in Stay(clients, Of(id)) : clients'[i] = clients[k]
      /\ \A k \in Stay(clients, Of(id)) : \E i \in DOMAIN clients' : clients'[i] = clients[k]
  BY <1>2, <1>3, ErasedFacts
<1>6. /\ \A i \in DOMAIN notifications' :
           \E k \in Stay(notifications, erased) : notifications'[i] = notifications[k]
      /\ \A k \in Stay(notifications, erased) :
           \E i \in DOMAIN notifications' : notifications'[i] = notifications[k]
  BY <1>2, <1>3, ErasedFacts
<1>7. \A i : i \in listening' <=> i \in listening /\ i # id
  <2>1. \A i : i \in listening <=> i # Garbage /\ \E k \in DOMAIN clients : clients[k].id = i
    BY DEF listening
  <2>2. \A i : i \in listening' <=> i # Garbage /\ \E k \in DOMAIN clients' : clients'[k].id = i
    BY DEF listening
  <2> QED BY ONLY <1>4, <1>5, <2>1, <2>2
<1>8. \A i : i \in waiting' <=> i \in waiting /\ i # id
  <2>1. \A i : i \in waiting <=> \E k \in DOMAIN notifications : notifications[k] = i
    BY DEF waiting
  <2>2. \A i : i \in waiting' <=> \E k \in DOMAIN notifications' : notifications'[k] = i
    BY DEF waiting
  <2> QED BY ONLY <1>4, <1>6, <2>1, <2>2
<1>9. connectedIds' = connectedIds /\ strayIds' = strayIds
  BY <1>2 DEF connectedIds, strayIds, Served
<1>10. listening' = listening \ {id} /\ waiting' = waiting \ {id}
  BY <1>7, <1>8
<1>11. PICK i \in Ids : i = id
  BY <1>1
<1>12. Hub!Drop({i})
  BY <1>9, <1>10, <1>11 DEF Hub!Drop, listening, waiting, connectedIds, strayIds, Served
<1> QED BY <1>12 DEF HubStep, Hub!Next

LEMMA NextRefines == HubIInv /\ [Next]_vars => HubStep
<1> SUFFICES ASSUME HubIInv, [Next]_vars PROVE HubStep
  OBVIOUS
<1>1. CASE UNCHANGED vars
  BY <1>1, SameHub DEF vars, HubStep
<1>2. plan.conns \subseteq Conns
  BY ConstantsAssumption DEF ConstantsAssumption, HubIInv, TypeOK
<1>3. ASSUME NEW c \in Conns, Accept(c) \/ ReadId(c) PROVE HubStep
  BY <1>3, BeforeRefines DEF HubStep
<1>4. ASSUME NEW c \in Conns, PeerCloses(c) \/ ReadPacket(c) PROVE HubStep
  BY <1>4, SameHub DEF PeerCloses, ReadPacket, HubStep
<1>5. CASE LockNotifications \/ NothingQueued \/ LockClients \/ Send \/ SendFails
  BY <1>5, SameHub DEF LockNotifications, NothingQueued, LockClients, Send, SendFails, HubStep
<1>6. ASSUME NEW id, CallPush(id) \/ CallRemove(id) PROVE HubStep
  BY <1>6, SameHub DEF CallPush, CallRemove, HubStep
<1>7. CASE LockFirst \/ BackOff
  BY <1>7, SameHub DEF LockFirst, BackOff, HubStep
<1> QED BY <1>1, <1>2, <1>3, <1>4, <1>5, <1>6, <1>7, AppendRefines, PushRefines, ClearRefines,
           EraseRefines DEF Next, Work

\* NotificationsServer with its worker, its threads and its two mutexes implements the hub
\* that the room counts on: a session connects once, a push queues its id, a pass of the
\* worker forgets everything at once, and a removed id is gone from listeners and queue
\* together, to be listed again by nothing but a connection that broke before its id came.
THEOREM ImplementsHub == Spec => RefinesHub
<1>1. HubStep => [Hub!Next]_Hub!hubVars
  BY DEF HubStep, Hub!hubVars, listening, waiting, connectedIds, strayIds
<1>2. HubIInv /\ [Next]_vars => [Hub!Next]_Hub!hubVars
  BY <1>1, NextRefines
<1> QED BY <1>2, InitHub, InitRefines, NextHub, PTL DEF Spec, RefinesHub, Hub!Spec
=============================================================================
