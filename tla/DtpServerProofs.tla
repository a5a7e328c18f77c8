--------------------------- MODULE DtpServerProofs ---------------------------
(***************************************************************************)
(* Theorems about DtpServer, for any set of clients and threads, any bound *)
(* and any choice of what can go wrong.  The argument: IInv is inductive   *)
(* (Init_IInv, Next_IInv); the safety properties are parts of it or follow *)
(* from it.                                                                *)
(***************************************************************************)
EXTENDS DtpServer, SequenceTheorems, TLAPS

USE DEF TypeOK, serverVars, sharedVars, appVars, netVars, vars

-----------------------------------------------------------------------------
(* Facts about sequences of connection objects *)

\* Replacing an element keeps a sequence of S, its length and its others.
LEMMA SeqExcept ==
    ASSUME NEW S, NEW s \in Seq(S), NEW n \in DOMAIN s, NEW e \in S
    PROVE  /\ [s EXCEPT ![n] = e] \in Seq(S)
           /\ DOMAIN [s EXCEPT ![n] = e] = DOMAIN s
           /\ [s EXCEPT ![n] = e][n] = e
           /\ \A m \in DOMAIN s : m # n => [s EXCEPT ![n] = e][m] = s[m]
  <1>1. DOMAIN s = 1 .. Len(s)
    BY LenProperties
  <1> QED
    BY <1>1, ExceptSeq

\* Rewriting every element of a sequence gives one of the same length.
LEMMA SeqMap ==
    ASSUME NEW S, NEW s \in Seq(S), NEW f,
           f = [n \in DOMAIN s |-> f[n]], \A n \in DOMAIN s : f[n] \in S
    PROVE  f \in Seq(S) /\ DOMAIN f = DOMAIN s
  <1>1. DOMAIN s = 1 .. Len(s) /\ Len(s) \in Nat
    BY LenProperties
  <1>2. f \in [1 .. Len(s) -> S]
    BY <1>1
  <1> QED
    BY <1>1, <1>2, SeqDef

\* Every connection object is a Conn.
LEMMA ConnElement ==
    ASSUME TypeOK, NEW n \in DOMAIN conn
    PROVE  conn[n] \in Conn
  BY LenProperties, ElementOfSeq

\* The object of a client or of a handle exists.
LEMMA Objects ==
    ASSUME IInv
    PROVE  /\ \A c \in Cid : InMap(c) => clients[c] \in DOMAIN conn
           /\ \A t \in App : handle[t] # 0 => handle[t] \in DOMAIN conn
           /\ \A n \in DOMAIN conn : conn[n] \in Conn
  BY ConnElement DEF IInv, TableInv, HandleInv, InMap

\* Closing and processing keep an object a Conn with its id; what is closed
\* stays closed.
LEMMA QuicheKeeps ==
    ASSUME NEW q \in Conn
    PROVE  /\ CloseQuiche(q) \in Conn
           /\ CloseQuiche(q).scid = q.scid
           /\ CloseQuiche(q).dirty = q.dirty
           /\ q.phase = "closed" => CloseQuiche(q).phase = "closed"
           /\ \A k \in AllKinds : \A r \in Processed(q, k) :
                /\ r \in Conn
                /\ r.scid = q.scid
                /\ r.dirty = q.dirty
                /\ q.phase = "closed" => r.phase = "closed"
  <1>1. /\ CloseQuiche(q) \in Conn
        /\ CloseQuiche(q).scid = q.scid
        /\ CloseQuiche(q).dirty = q.dirty
        /\ q.phase = "closed" => CloseQuiche(q).phase = "closed"
    BY DEF CloseQuiche, Conn, Phase
  <1>2. ASSUME NEW k \in AllKinds, NEW r \in Processed(q, k)
        PROVE  /\ r \in Conn /\ r.scid = q.scid /\ r.dirty = q.dirty
               /\ q.phase = "closed" => r.phase = "closed"
    BY <1>2 DEF Processed, Conn, Phase
  <1> QED
    BY <1>1, <1>2

-----------------------------------------------------------------------------
(* What a step may do to the connection objects *)

\* No step drops an object, gives it another id or reopens it.
ConnStep ==
    /\ conn' \in Seq(Conn)
    /\ \A n \in DOMAIN conn :
         /\ n \in DOMAIN conn'
         /\ conn'[n].scid = conn[n].scid
         /\ conn[n].phase = "closed" => conn'[n].phase = "closed"

\* The datagram in hand and its connection exist when it is fed to it.
LEMMA InHand ==
    ASSUME IInv, pc = "recv"
    PROVE  /\ Head(buf).kind \in AllKinds
           /\ Head(buf).cid \in Cid
           /\ Current \in DOMAIN conn
           /\ conn[Current] \in Conn
  <1>1. buf \in Seq(Packet) /\ Len(buf) = 1
    BY DEF IInv
  <1>2. Head(buf) = buf[1] /\ buf[1] \in Packet
    BY <1>1
  <1>3. Head(buf) \in Packet
    BY <1>2
  <1>4. Head(buf).kind \in AllKinds /\ Head(buf).cid \in Cid
    BY <1>3, ServerAssumption DEF Packet
  <1> QED
    BY <1>4, Objects DEF IInv, WorkInv, Current, InMap

\* A client of the write pass has an object.
LEMMA WriteTarget ==
    ASSUME IInv, pc = "write", NEW c \in todo
    PROVE  /\ c \in Cid
           /\ clients[c] \in DOMAIN conn
           /\ conn[clients[c]] \in Conn
  BY Objects DEF IInv, WorkInv, Keys

\* A step that closes or processes one object is a ConnStep.
LEMMA OneObject ==
    ASSUME TypeOK, NEW n \in DOMAIN conn, NEW q \in Conn,
           q.scid = conn[n].scid,
           conn[n].phase = "closed" => q.phase = "closed",
           conn' = [conn EXCEPT ![n] = q]
    PROVE  /\ ConnStep
           /\ conn'[n] = q
           /\ \A m \in DOMAIN conn : m # n => conn'[m] = conn[m]
  BY SeqExcept DEF ConnStep

\* ConnStep, for the steps of the loop ...
LEMMA ServerConnStep ==
    ASSUME IInv, ServerStep
    PROVE  ConnStep
  <1> USE DEF IInv
  <1>0. CASE UNCHANGED conn
    BY <1>0 DEF ConnStep
  <1>1. CASE Top \/ PollEvents \/ PollTimeout \/ ReadDrained \/ WriteDone \/ Gc \/ IoPanic
    BY <1>0, <1>1 DEF Top, PollEvents, PollTimeout, ReadDrained, WriteDone, Gc, IoPanic
  <1>2. ASSUME NEW X \in SUBSET Cid, OnTimeout(X)
        PROVE  ConnStep
    <2>1. ASSUME NEW n \in DOMAIN conn
          PROVE  /\ conn'[n] \in Conn
                 /\ conn'[n].scid = conn[n].scid
                 /\ conn[n].phase = "closed" => conn'[n].phase = "closed"
      <3>1. conn[n] \in Conn
        BY Objects
      <3>2. conn'[n] = conn[n] \/ conn'[n] = [conn[n] EXCEPT !.phase = "closed"]
        BY <1>2 DEF OnTimeout
      <3> QED
        BY <3>1, <3>2 DEF Conn, Phase
    <2>2. conn' = [n \in DOMAIN conn |-> conn'[n]]
      BY <1>2 DEF OnTimeout
    <2>3. conn' \in Seq(Conn) /\ DOMAIN conn' = DOMAIN conn
      BY <2>1, <2>2, SeqMap
    <2> QED
      BY <2>1, <2>3 DEF ConnStep
  <1>3. ASSUME NEW p \in Packet, AcceptPacket(p)
        PROVE  ConnStep
    <2>1. FreshConn(p.cid) \in Conn
      BY DEF FreshConn, Conn, Phase, Packet
    <2>2. /\ conn' \in Seq(Conn)
          /\ \A n \in DOMAIN conn : n \in DOMAIN conn' /\ conn'[n] = conn[n]
      BY <1>3, <2>1, AppendProperties, LenProperties DEF AcceptPacket
    <2> QED
      BY <2>2 DEF ConnStep
  <1>4. ASSUME NEW p \in Packet,
                DropPacket(p) \/ AnswerPacket(p) \/ AcceptFails(p) \/ LookupPacket(p)
        PROVE  ConnStep
    BY <1>0, <1>4 DEF DropPacket, AnswerPacket, AcceptFails, LookupPacket
  <1>5. CASE RecvOk
    <2>1. PICK q \in Processed(conn[Current], Head(buf).kind) :
              conn' = [conn EXCEPT ![Current] = q]
      BY <1>5 DEF RecvOk
    <2>2. Current \in DOMAIN conn /\ conn[Current] \in Conn /\ Head(buf).kind \in AllKinds
      BY <1>5, InHand DEF RecvOk
    <2>3. /\ q \in Conn /\ q.scid = conn[Current].scid
          /\ conn[Current].phase = "closed" => q.phase = "closed"
      BY <2>1, <2>2, QuicheKeeps
    <2> QED
      BY <2>1, <2>2, <2>3, OneObject
  <1>6. CASE RecvErr
    <2>1. pc = "recv" /\ conn' = [conn EXCEPT ![Current] = CloseQuiche(conn[Current])]
      BY <1>6 DEF RecvErr
    <2> QED
      BY <2>1, InHand, QuicheKeeps, OneObject
  <1>7. ASSUME NEW c \in Cid, WriteClient(c)
        PROVE  ConnStep
    <2> DEFINE n == clients[c]
               seen == [conn[n] EXCEPT !.dirty = FALSE]
    <2>1. n \in DOMAIN conn /\ conn[n] \in Conn
      BY <1>7, WriteTarget DEF WriteClient
    <2>2. /\ seen \in Conn
          /\ seen.scid = conn[n].scid
          /\ seen.phase = conn[n].phase
      BY <2>1 DEF Conn, Phase
    <2>3. \/ conn' = [conn EXCEPT ![n] = seen]
          \/ conn' = [conn EXCEPT ![n] = CloseQuiche(seen)]
          \/ UNCHANGED conn
      BY <1>7 DEF WriteClient
    <2> HIDE DEF n, seen
    <2>4. CASE conn' = [conn EXCEPT ![n] = seen]
      BY <2>1, <2>2, <2>4, OneObject
    <2>5. CASE conn' = [conn EXCEPT ![n] = CloseQuiche(seen)]
      BY <2>1, <2>2, <2>5, QuicheKeeps, OneObject
    <2> QED
      BY <1>0, <2>3, <2>4, <2>5
  <1> QED
    BY <1>1, <1>2, <1>3, <1>4, <1>5, <1>6, <1>7 DEF ServerStep, ReadPacket

\* ... of the application, and of the network.
LEMMA AllConnStep ==
    ASSUME IInv, [Next]_vars
    PROVE  ConnStep
  <1> USE DEF IInv
  <1>0. CASE UNCHANGED conn
    BY <1>0 DEF ConnStep
  <1>1. CASE ServerStep
    BY <1>1, ServerConnStep
  <1>2. ASSUME NEW t \in App, DtpSend(t)
        PROVE  ConnStep
    <2> DEFINE n == handle[t]
               q == [conn[n] EXCEPT !.dirty = TRUE]
    <2>1. n \in DOMAIN conn /\ conn[n] \in Conn
      BY <1>2, Objects DEF DtpSend, CanLock, HandleInv
    <2>2. q \in Conn /\ q.scid = conn[n].scid /\ q.phase = conn[n].phase
      BY <2>1 DEF Conn, Phase
    <2>3. conn' = [conn EXCEPT ![n] = q]
      BY <1>2 DEF DtpSend
    <2> HIDE DEF n, q
    <2> QED
      BY <2>1, <2>2, <2>3, OneObject
  <1>3. ASSUME NEW t \in App,
               \/ DtpAccept(t) \/ DtpCloseTest(t) \/ DtpCloseRefused(t)
               \/ DtpCloseMark(t) \/ TouchPoisoned(t)
        PROVE  ConnStep
    BY <1>0, <1>3 DEF DtpAccept, DtpCloseTest, DtpCloseRefused, DtpCloseMark,
                      TouchPoisoned
  <1>4. ASSUME NEW p \in Packet, Arrive(p)
        PROVE  ConnStep
    BY <1>0, <1>4 DEF Arrive
  <1>5. CASE UNCHANGED vars
    BY <1>0, <1>5
  <1> QED
    BY <1>1, <1>2, <1>3, <1>4, <1>5 DEF Next, AppStep

-----------------------------------------------------------------------------
(* Types *)

\* The initial states satisfy the invariant.
LEMMA InitIInv == Init => IInv
  <1> SUFFICES ASSUME Init PROVE IInv
    OBVIOUS
  <1>1. TypeOK
    BY EmptySeq, ServerAssumption
       DEF Init, ServerPc, StatusEntry, Status, NoEntry, AppPc
  <1>2. TableInv /\ HandleInv /\ WorkInv /\ WakeInv /\ PollInv
    BY DEF Init, TableInv, HandleInv, WorkInv, WakeInv, PollInv, InMap, NoEntry
  <1> QED
    BY <1>1, <1>2 DEF IInv

\* Taking a datagram out of the socket.
LEMMA ReceivingType ==
    ASSUME TypeOK, NEW p \in Packet, Receiving(p)
    PROVE  sock' \in Seq(Packet)
  BY HeadTailProperties DEF Receiving

\* The types of what a step of the loop changes.
LEMMA ServerTypes ==
    ASSUME IInv, ServerStep
    PROVE  TypeOK'
  <1> USE DEF IInv, ServerPc
  <1>0. conn' \in Seq(Conn)
    BY ServerConnStep DEF ConnStep
  <1>a. Len(<<>>) = 0 /\ <<>> \in Seq(Packet)
    BY EmptySeq
  <1>b. Keys \subseteq Cid
    BY DEF Keys
  <1>1. CASE Top \/ PollEvents \/ PollTimeout
    BY <1>0, <1>1 DEF Top, PollEvents, PollTimeout
  <1>2. ASSUME NEW X \in SUBSET Cid, OnTimeout(X)
        PROVE  TypeOK'
    BY <1>0, <1>b, <1>2 DEF OnTimeout
  <1>3. CASE ReadDrained \/ WriteDone \/ IoPanic
    BY <1>0, <1>b, <1>3 DEF ReadDrained, WriteDone, IoPanic
  <1>4. ASSUME NEW p \in Packet, DropPacket(p) \/ AcceptFails(p)
        PROVE  TypeOK'
    BY <1>0, <1>4, ReceivingType DEF DropPacket, AcceptFails, Receiving
  <1>5. ASSUME NEW p \in Packet, AnswerPacket(p)
        PROVE  TypeOK'
    <2>1. sock' \in Seq(Packet) /\ p.cid \in Cid
      BY <1>5, ReceivingType DEF AnswerPacket, Packet
    <2>2. /\ pc' \in ServerPc \ {"recv"}
          /\ todo' \in SUBSET Cid
          /\ retried' \in SUBSET Cid
      BY <1>5, <1>b, <2>1 DEF AnswerPacket
    <2> QED
      BY <1>0, <1>5, <2>1, <2>2 DEF AnswerPacket, Receiving
  <1>6. ASSUME NEW p \in Packet, AcceptPacket(p)
        PROVE  TypeOK'
    <2>1. sock' \in Seq(Packet) /\ p.cid \in Cid /\ Len(conn) \in Nat
      BY <1>6, ReceivingType, LenProperties DEF AcceptPacket, Packet
    <2>2. /\ clients' \in [Cid -> Nat]
          /\ client_status' \in [Cid -> StatusEntry]
      BY <1>6, <2>1 DEF AcceptPacket, StatusEntry, Status
    <2>3. buf' \in Seq(Packet) /\ Len(buf') = 1
      BY <1>6 DEF AcceptPacket
    <2> QED
      BY <1>0, <1>6, <2>1, <2>2, <2>3 DEF AcceptPacket, Receiving
  <1>7. ASSUME NEW p \in Packet, LookupPacket(p)
        PROVE  TypeOK'
    <2>1. sock' \in Seq(Packet)
      BY <1>7, ReceivingType DEF LookupPacket
    <2>2. buf' \in Seq(Packet) /\ Len(buf') = 1
      BY <1>7 DEF LookupPacket
    <2> QED
      BY <1>0, <1>7, <2>1, <2>2 DEF LookupPacket, Receiving
  <1>8. CASE RecvOk
    BY <1>0, <1>a, <1>8 DEF RecvOk
  <1>9. CASE RecvErr
    <2>1. Current \in Nat
      BY <1>9, InHand DEF RecvErr, Current
    <2>2. held' \in SUBSET Nat /\ pc' \in {"read", "stuck"}
      BY <1>9, <2>1 DEF RecvErr
    <2> QED
      BY <1>0, <1>a, <1>9, <2>2 DEF RecvErr
  <1>10. ASSUME NEW c \in Cid, WriteClient(c)
         PROVE  TypeOK'
    BY <1>0, <1>10 DEF WriteClient
  <1>11. CASE Gc
    BY <1>0, <1>11 DEF Gc
  <1> QED
    BY <1>1, <1>2, <1>3, <1>4, <1>5, <1>6, <1>7, <1>8, <1>9, <1>10, <1>11
       DEF ServerStep, ReadPacket

\* The types of what any step changes.
LEMMA NextTypes ==
    ASSUME IInv, [Next]_vars
    PROVE  TypeOK'
  <1> USE DEF IInv
  <1>0. conn' \in Seq(Conn)
    BY AllConnStep DEF ConnStep
  <1>1. CASE ServerStep
    BY <1>1, ServerTypes
  <1>2. ASSUME NEW t \in App, DtpAccept(t)
        PROVE  TypeOK'
    BY <1>0, <1>2 DEF DtpAccept, StatusEntry, Status, AppPc
  <1>3. ASSUME NEW t \in App,
               DtpSend(t) \/ DtpCloseTest(t) \/ DtpCloseRefused(t) \/ TouchPoisoned(t)
        PROVE  TypeOK'
    BY <1>0, <1>3 DEF DtpSend, DtpCloseTest, DtpCloseRefused, TouchPoisoned, AppPc
  <1>4. ASSUME NEW t \in App, DtpCloseMark(t)
        PROVE  TypeOK'
    BY <1>0, <1>4 DEF DtpCloseMark, StatusEntry, Status, AppPc
  <1>5. ASSUME NEW p \in Packet, Arrive(p)
        PROVE  TypeOK'
    BY <1>0, <1>5, AppendProperties DEF Arrive
  <1>6. CASE UNCHANGED vars
    BY <1>6
  <1> QED
    BY <1>1, <1>2, <1>3, <1>4, <1>5, <1>6 DEF Next, AppStep

-----------------------------------------------------------------------------
(* The tables and the handles *)

\* A step that leaves tables and handles alone keeps what they say, whatever
\* it does to the objects.
LEMMA TablesFrame ==
    ASSUME IInv, ConnStep, UNCHANGED <<clients, client_status, app, handle>>
    PROVE  TableInv' /\ HandleInv'
  <1>1. TableInv'
    <2>1. TableInv
      BY DEF IInv
    <2>2. ASSUME NEW c \in Cid, clients[c] # 0
          PROVE  /\ clients[c] \in DOMAIN conn'
                 /\ conn'[clients[c]].scid = c
                 /\ IsClosed(clients[c]) => IsClosed(clients[c])'
      BY <2>1, <2>2 DEF TableInv, ConnStep, IsClosed
    <2> QED
      BY <2>1, <2>2 DEF TableInv
  <1>2. HandleInv'
    <2>1. HandleInv
      BY DEF IInv
    <2>2. ASSUME NEW t \in App, handle[t] # 0
          PROVE  /\ handle[t] \in DOMAIN conn'
                 /\ conn'[handle[t]].scid = conn[handle[t]].scid
                 /\ IsClosed(handle[t]) => IsClosed(handle[t])'
      BY <2>1, <2>2 DEF HandleInv, ConnStep, IsClosed
    <2> QED
      BY <2>1, <2>2 DEF HandleInv
  <1> QED
    BY <1>1, <1>2

\* A new connection gets an object no entry or thread refers to yet.
LEMMA AcceptPacketTables ==
    ASSUME IInv, NEW p \in Packet, AcceptPacket(p)
    PROVE  TableInv' /\ HandleInv'
  <1> USE DEF IInv
  <1> DEFINE n == Len(conn) + 1
  <1>1. /\ n \in Nat \ {0}
        /\ n \notin DOMAIN conn
        /\ n \in DOMAIN conn'
        /\ conn'[n].scid = p.cid
        /\ \A m \in DOMAIN conn : m \in DOMAIN conn' /\ conn'[m] = conn[m]
    <2>1. FreshConn(p.cid) \in Conn /\ FreshConn(p.cid).scid = p.cid
      BY DEF FreshConn, Conn, Phase, Packet
    <2> QED
      BY <2>1, AppendProperties, LenProperties DEF AcceptPacket
  <1>2. /\ p.cid \in Cid
        /\ clients[p.cid] = 0
        /\ clients' = [clients EXCEPT ![p.cid] = n]
        /\ client_status' = [client_status EXCEPT ![p.cid] =
                               [obj |-> n, status |-> "Connected"]]
        /\ UNCHANGED <<app, handle>>
    BY DEF AcceptPacket, InMap, Packet
  <1> HIDE DEF n
  <1>3. TableInv'
    BY <1>1, <1>2 DEF TableInv, IsClosed
  <1>4. \A t \in App : handle[t] # 0 => conn[handle[t]].scid # p.cid
    BY <1>2 DEF HandleInv
  <1>5. HandleInv'
    BY <1>1, <1>2, <1>4, Objects DEF HandleInv, IsClosed, Conn
  <1> QED
    BY <1>3, <1>5

\* Only closed connections nobody holds are collected.
LEMMA GcTables ==
    ASSUME IInv, Gc
    PROVE  TableInv' /\ HandleInv'
  <1> USE DEF IInv, Gc, Collectable, InMap, IsClosed
  <1>1. TableInv'
    BY DEF TableInv
  <1>2. HandleInv'
    BY Objects DEF HandleInv, Conn
  <1> QED
    BY <1>1, <1>2

\* The thread that takes a Connected connection is its only holder.
LEMMA DtpAcceptTables ==
    ASSUME IInv, NEW t \in App, DtpAccept(t)
    PROVE  TableInv' /\ HandleInv'
  <1> USE DEF IInv
  <1>1. PICK c \in Cid :
           /\ client_status[c].status = "Connected"
           /\ client_status' = [client_status EXCEPT ![c].status = "Accepted"]
           /\ handle' = [handle EXCEPT ![t] = client_status[c].obj]
    BY DEF DtpAccept
  <1> DEFINE n == client_status[c].obj
  <1>2. /\ c \in Cid
        /\ n # 0 /\ n \in DOMAIN conn
        /\ clients[c] = n
        /\ conn[n].scid = c
    BY <1>1 DEF TableInv
  <1>3. /\ client_status'[c] = [obj |-> n, status |-> "Accepted"]
        /\ \A d \in Cid : d # c => client_status'[d] = client_status[d]
    BY <1>1 DEF StatusEntry
  <1>4. app[t] = "idle" /\ app' = [app EXCEPT ![t] = "open"]
        /\ UNCHANGED <<clients, conn>>
    BY DEF DtpAccept
  <1>5. TableInv'
    <2> HIDE DEF n
    <2>1. UNCHANGED <<clients, conn>>
      BY <1>4
    <2>2. client_status'[c].obj = n /\ client_status'[c].status = "Accepted"
      BY <1>3
    <2> DEFINE Row(d) ==
             /\ clients[d] # 0 =>
                  /\ clients[d] \in DOMAIN conn
                  /\ conn[clients[d]].scid = d
                  /\ client_status[d].obj = clients[d]
             /\ client_status[d].obj = 0 <=> client_status[d].status = "Absent"
             /\ client_status[d].status \in {"Connected", "Accepted"} => clients[d] # 0
             /\ client_status[d].status = "Close" /\ clients[d] # 0
                  => conn[clients[d]].phase = "closed"
    <2>3. Row(c)'
      BY <1>2, <2>1, <2>2
    <2>4. ASSUME NEW d \in Cid, d # c
          PROVE  Row(d)'
      BY <1>3, <2>1, <2>4 DEF TableInv, IsClosed
    <2> QED
      BY <2>3, <2>4 DEF TableInv, IsClosed
  <1>6. \A u \in App : handle[u] # 0 => handle[u] # n /\ conn[handle[u]].scid # c
    BY <1>1, <1>2 DEF HandleInv
  <1>7. HandleInv'
    <2>1. \A u \in App : u # t => handle'[u] = handle[u] /\ app'[u] = app[u]
      BY <1>1, <1>4
    <2>2. handle'[t] = n /\ app'[t] = "open"
      BY <1>1, <1>4
    <2>3. \A u \in App : handle[u] # 0 => conn[handle[u]].scid \in Cid
      BY Objects DEF Conn
    <2>4. client_status'[c].obj = n /\ client_status'[c].status = "Accepted"
      BY <1>3
    <2>5. UNCHANGED <<clients, conn>>
      BY <1>4
    <2> HIDE DEF n
    <2> DEFINE Held(u) ==
             /\ handle[u] = 0 => app[u] = "idle"
             /\ app[u] = "idle" => handle[u] = 0
             /\ handle[u] # 0 =>
                  /\ handle[u] \in DOMAIN conn
                  /\ clients[conn[handle[u]].scid] = handle[u]
                  /\ client_status[conn[handle[u]].scid].status = "Accepted"
             /\ app[u] = "marking" => conn[handle[u]].phase = "closed"
    <2>6. Held(t)'
      BY <1>2, <2>2, <2>4, <2>5
    <2>7. ASSUME NEW u \in App, u # t
          PROVE  Held(u)'
      <3>1. Held(u)
        BY DEF HandleInv, IsClosed
      <3>2. handle[u] # 0 =>
              client_status'[conn[handle[u]].scid] = client_status[conn[handle[u]].scid]
        BY <1>3, <1>6, <2>3
      <3> QED
        BY <2>1, <2>5, <2>7, <3>1, <3>2
    <2>8. \A u \in App : Held(u)'
      BY <2>6, <2>7
    <2>9. \A u, v \in App : handle'[u] # 0 /\ handle'[u] = handle'[v] => u = v
      BY <1>6, <2>1, <2>2 DEF HandleInv
    <2> QED
      BY <2>8, <2>9 DEF HandleInv, IsClosed
  <1> QED
    BY <1>5, <1>7

\* Marking a connection and giving it back go together.
LEMMA DtpCloseMarkTables ==
    ASSUME IInv, NEW t \in App, DtpCloseMark(t)
    PROVE  TableInv' /\ HandleInv'
  <1> USE DEF IInv
  <1> DEFINE n == handle[t]
             c == conn[n].scid
  <1>1. /\ n # 0 /\ n \in DOMAIN conn /\ c \in Cid
        /\ clients[c] = n
        /\ client_status[c].status = "Accepted" /\ client_status[c].obj = n
        /\ conn[n].phase = "closed"
    BY Objects DEF DtpCloseMark, HandleInv, TableInv, IsClosed, Conn
  <1>2. /\ client_status' = [client_status EXCEPT ![c].status = "Close"]
        /\ app' = [app EXCEPT ![t] = "idle"]
        /\ handle' = [handle EXCEPT ![t] = 0]
        /\ UNCHANGED <<clients, conn>>
    BY <1>1 DEF DtpCloseMark
  <1>3. /\ client_status'[c] = [obj |-> n, status |-> "Close"]
        /\ \A d \in Cid : d # c => client_status'[d] = client_status[d]
    BY <1>1, <1>2 DEF StatusEntry
  <1>4. TableInv'
    BY <1>1, <1>2, <1>3 DEF TableInv, IsClosed
  <1>5. \A u \in App : u # t /\ handle[u] # 0 => conn[handle[u]].scid # c
    BY <1>1 DEF HandleInv
  <1>6. \A u \in App : handle[u] # 0 => conn[handle[u]].scid \in Cid
    BY Objects DEF Conn
  <1>7. HandleInv'
    <2>1. \A u \in App : u # t => handle'[u] = handle[u] /\ app'[u] = app[u]
      BY <1>2
    <2>2. handle'[t] = 0 /\ app'[t] = "idle"
      BY <1>2
    <2> HIDE DEF n, c
    <2> QED
      BY <1>2, <1>3, <1>5, <1>6, <2>1, <2>2 DEF HandleInv, IsClosed
  <1> QED
    BY <1>4, <1>7

\* The steps of a thread that change its state but not what it holds.
LEMMA AppPcTables ==
    ASSUME IInv, NEW t \in App,
           DtpCloseTest(t) \/ DtpCloseRefused(t) \/ TouchPoisoned(t)
    PROVE  TableInv' /\ HandleInv'
  <1> USE DEF IInv
  <1>1. /\ app[t] \in {"open", "closing"}
        /\ \/ app' = [app EXCEPT ![t] = "panicked"]
           \/ app' = [app EXCEPT ![t] = "closing"]
           \/ app' = [app EXCEPT ![t] = "marking"] /\ IsClosed(handle[t])
        /\ UNCHANGED <<clients, client_status, conn, handle>>
    BY DEF DtpCloseTest, DtpCloseRefused, TouchPoisoned, CanLock
  <1>2. TableInv'
    BY <1>1 DEF TableInv, IsClosed
  <1>3. HandleInv'
    BY <1>1 DEF HandleInv, IsClosed
  <1> QED
    BY <1>2, <1>3

\* What the tables and the handles say, after any step.
LEMMA NextTables ==
    ASSUME IInv, [Next]_vars
    PROVE  TableInv' /\ HandleInv'
  <1>1. CASE UNCHANGED <<clients, client_status, app, handle>>
    BY <1>1, AllConnStep, TablesFrame
  <1>2. CASE ServerStep
    <2>1. ASSUME NEW p \in Packet, AcceptPacket(p)
          PROVE  TableInv' /\ HandleInv'
      BY <2>1, AcceptPacketTables
    <2>2. CASE Gc
      BY <2>2, GcTables
    <2>3. ASSUME NEW p \in Packet,
                DropPacket(p) \/ AnswerPacket(p) \/ AcceptFails(p) \/ LookupPacket(p)
          PROVE  UNCHANGED <<clients, client_status, app, handle>>
      BY <2>3 DEF DropPacket, AnswerPacket, AcceptFails, LookupPacket
    <2>4. ASSUME Top \/ PollEvents \/ PollTimeout \/ ReadDrained \/ RecvOk \/ RecvErr
                 \/ WriteDone \/ IoPanic \/ (\E X \in SUBSET Cid : OnTimeout(X))
                 \/ (\E c \in Cid : WriteClient(c))
          PROVE  UNCHANGED <<clients, client_status, app, handle>>
      BY <2>4 DEF Top, PollEvents, PollTimeout, ReadDrained, RecvOk, RecvErr,
                  WriteDone, IoPanic, OnTimeout, WriteClient
    <2> QED
      BY <1>1, <1>2, <2>1, <2>2, <2>3, <2>4 DEF ServerStep, ReadPacket
  <1>3. ASSUME NEW t \in App, AppStep(t)
        PROVE  TableInv' /\ HandleInv'
    <2>1. CASE DtpSend(t)
      BY <1>1, <2>1 DEF DtpSend
    <2> QED
      BY <1>3, <2>1, DtpAcceptTables, DtpCloseMarkTables, AppPcTables DEF AppStep
  <1>4. ASSUME NEW p \in Packet, Arrive(p)
        PROVE  TableInv' /\ HandleInv'
    BY <1>1, <1>4 DEF Arrive
  <1>5. CASE UNCHANGED vars
    BY <1>1, <1>5
  <1> QED
    BY <1>2, <1>3, <1>4, <1>5 DEF Next

-----------------------------------------------------------------------------
(* The work in hand and the data not yet seen *)

\* The datagram in hand and the clients of the write pass, after any step.
LEMMA NextWork ==
    ASSUME IInv, [Next]_vars
    PROVE  WorkInv'
  <1> USE DEF IInv, WorkInv, Keys, InMap
  <1>0. CASE UNCHANGED <<pc, buf, todo, clients>>
    BY <1>0
  <1>1. CASE Top \/ PollEvents \/ PollTimeout \/ RecvOk \/ RecvErr \/ WriteDone \/ Gc \/ IoPanic
    BY <1>1 DEF Top, PollEvents, PollTimeout, RecvOk, RecvErr, WriteDone, Gc, IoPanic
  <1>2. CASE ReadDrained \/ \E X \in SUBSET Cid : OnTimeout(X)
    BY <1>2 DEF ReadDrained, OnTimeout
  <1>3. ASSUME NEW p \in Packet, DropPacket(p) \/ AcceptFails(p)
        PROVE  WorkInv'
    BY <1>0, <1>3 DEF DropPacket, AcceptFails
  <1>4. ASSUME NEW p \in Packet, AnswerPacket(p)
        PROVE  WorkInv'
    BY <1>4 DEF AnswerPacket
  <1>5. ASSUME NEW p \in Packet, AcceptPacket(p)
        PROVE  WorkInv'
    <2>1. p.cid \in Cid /\ Len(conn) + 1 # 0
      BY LenProperties DEF Packet
    <2>2. pc' = "recv" /\ Head(buf') = p /\ clients'[p.cid] = Len(conn) + 1
      BY <1>5, <2>1 DEF AcceptPacket
    <2> QED
      BY <2>1, <2>2
  <1>6. ASSUME NEW p \in Packet, LookupPacket(p)
        PROVE  WorkInv'
    <2>1. pc' = "recv" /\ Head(buf') = p /\ clients'[p.cid] # 0
      BY <1>6 DEF LookupPacket
    <2> QED
      BY <2>1
  <1>7. ASSUME NEW c \in Cid, WriteClient(c)
        PROVE  WorkInv'
    BY <1>7 DEF WriteClient
  <1>8. CASE ServerStep
    BY <1>1, <1>2, <1>3, <1>4, <1>5, <1>6, <1>7, <1>8 DEF ServerStep, ReadPacket
  <1>9. ASSUME NEW t \in App, AppStep(t)
        PROVE  WorkInv'
    BY <1>0, <1>9 DEF AppStep, DtpAccept, DtpSend, DtpCloseTest, DtpCloseRefused,
                      DtpCloseMark, TouchPoisoned
  <1>10. ASSUME NEW p \in Packet, Arrive(p)
         PROVE  WorkInv'
    BY <1>0, <1>10 DEF Arrive
  <1>11. CASE UNCHANGED vars
    BY <1>0, <1>11
  <1> QED
    BY <1>8, <1>9, <1>10, <1>11 DEF Next

\* One client of the write pass: its data is seen, that of the others is not
\* touched.
LEMMA WriteClientWake ==
    ASSUME IInv, NEW c \in Cid, WriteClient(c)
    PROVE  WakeInv'
  <1> USE DEF IInv
  <1> DEFINE n == clients[c]
             seen == [conn[n] EXCEPT !.dirty = FALSE]
  <1>1. /\ pc = "write" /\ c \in todo /\ todo' = todo \ {c}
        /\ pc' \in {"write", "dead"}
        /\ UNCHANGED <<clients, woken>>
    BY DEF WriteClient
  <1>2. n \in DOMAIN conn /\ conn[n] \in Conn
    BY <1>1, WriteTarget
  <1>3. CASE pc' = "dead"
    BY <1>3 DEF WakeInv
  <1>4. CASE pc' = "write"
    <2>1. /\ seen \in Conn /\ seen.scid = conn[n].scid /\ seen.phase = conn[n].phase
          /\ seen.dirty = FALSE
      BY <1>2 DEF Conn, Phase
    <2>2. \/ conn' = [conn EXCEPT ![n] = seen]
          \/ conn' = [conn EXCEPT ![n] = CloseQuiche(seen)]
      BY <1>1, <1>4 DEF WriteClient
    <2> HIDE DEF n, seen
    <2>3. CloseQuiche(seen) \in Conn /\ CloseQuiche(seen).dirty = FALSE
          /\ CloseQuiche(seen).scid = seen.scid
          /\ (seen.phase = "closed" => CloseQuiche(seen).phase = "closed")
      BY <2>1, QuicheKeeps
    <2>4. /\ conn'[n].dirty = FALSE
          /\ \A m \in DOMAIN conn : m # n => conn'[m] = conn[m]
      BY <1>2, <2>1, <2>2, <2>3, OneObject
    <2>5. ASSUME NEW d \in Cid, d # c, clients[d] # 0
          PROVE  conn'[clients[d]] = conn[clients[d]]
      <3>1. clients[d] \in DOMAIN conn /\ clients[d] # n
        BY <1>1, <2>5, WriteTarget DEF TableInv, n, WorkInv, Keys, InMap
      <3> QED
        BY <2>4, <3>1
    <2> QED
      BY <1>1, <2>4, <2>5 DEF WakeInv, n
  <1> QED
    BY <1>1, <1>3, <1>4

\* Data not yet seen has its wake or its write pass, after any step.
LEMMA NextWake ==
    ASSUME IInv, [Next]_vars
    PROVE  WakeInv'
  <1> USE DEF IInv
  <1>0. CASE UNCHANGED <<pc, todo, clients, conn, woken>>
    BY <1>0 DEF WakeInv
  <1>1. CASE Top \/ PollEvents \/ PollTimeout
    BY <1>1 DEF Top, PollEvents, PollTimeout, WakeInv
  <1>2. CASE ReadDrained \/ \E X \in SUBSET Cid : OnTimeout(X)
    <2>1. pc' = "write" /\ todo' = Keys /\ UNCHANGED clients
      BY <1>2 DEF ReadDrained, OnTimeout
    <2> QED
      BY <2>1 DEF WakeInv, Keys, InMap
  <1>3. ASSUME NEW p \in Packet, DropPacket(p) \/ AcceptFails(p)
        PROVE  WakeInv'
    BY <1>0, <1>3 DEF DropPacket, AcceptFails, WakeInv
  <1>4. ASSUME NEW p \in Packet, AnswerPacket(p)
        PROVE  WakeInv'
    <2>1. /\ pc' \in {"read", "dead"} \/ (pc' = "write" /\ todo' = Keys)
          /\ UNCHANGED clients
      BY <1>4 DEF AnswerPacket
    <2> QED
      BY <2>1 DEF WakeInv, Keys, InMap
  <1>5. ASSUME NEW p \in Packet, AcceptPacket(p) \/ LookupPacket(p)
        PROVE  WakeInv'
    BY <1>5 DEF AcceptPacket, LookupPacket, WakeInv
  <1>6. CASE RecvOk \/ RecvErr
    BY <1>6 DEF RecvOk, RecvErr, WakeInv
  <1>7. CASE WriteDone \/ IoPanic
    BY <1>7 DEF WriteDone, IoPanic, WakeInv
  <1>8. CASE Gc
    BY <1>8 DEF Gc, WakeInv
  <1>9. CASE ServerStep
    BY <1>1, <1>2, <1>3, <1>4, <1>5, <1>6, <1>7, <1>8, <1>9, WriteClientWake
       DEF ServerStep, ReadPacket
  <1>10. ASSUME NEW t \in App, DtpSend(t)
         PROVE  WakeInv'
    BY <1>10 DEF DtpSend, WakeInv
  <1>11. ASSUME NEW t \in App, AppStep(t)
         PROVE  WakeInv'
    BY <1>0, <1>10, <1>11 DEF AppStep, DtpAccept, DtpCloseTest, DtpCloseRefused,
                              DtpCloseMark, TouchPoisoned
  <1>12. ASSUME NEW p \in Packet, Arrive(p)
         PROVE  WakeInv'
    BY <1>0, <1>12 DEF Arrive
  <1>13. CASE UNCHANGED vars
    BY <1>0, <1>13
  <1> QED
    BY <1>9, <1>11, <1>12, <1>13 DEF Next

-----------------------------------------------------------------------------
(* The poll *)

\* Nothing that happens during a poll gives a connection a timer.
LEMMA AliveShrinks ==
    ASSUME IInv, ConnStep, UNCHANGED clients, NEW c \in Alive'
    PROVE  c \in Alive
  BY Objects DEF Alive, Keys, InMap, IsClosed, ConnStep

\* Top arms the poll for what there is; the loop ends when it keeps a mutex.
LEMMA NextPoll ==
    ASSUME IInv, [Next]_vars
    PROVE  PollInv'
  <1> USE DEF IInv, PollInv
  <1>0. CASE UNCHANGED <<pc, armed, held, clients>>
    BY <1>0, AllConnStep, AliveShrinks
  <1>1. CASE ServerStep
    <2>1. CASE Top
      BY <2>1 DEF Top, Alive, Keys, InMap, IsClosed
    <2>2. CASE PollEvents \/ PollTimeout \/ ReadDrained \/ RecvOk \/ WriteDone \/ Gc \/ IoPanic
      BY <2>2 DEF PollEvents, PollTimeout, ReadDrained, RecvOk, WriteDone, Gc, IoPanic
    <2>3. ASSUME NEW X \in SUBSET Cid, OnTimeout(X) PROVE PollInv'
      BY <2>3 DEF OnTimeout
    <2>4. ASSUME NEW p \in Packet, DropPacket(p) \/ AcceptFails(p) PROVE PollInv'
      BY <1>0, <2>4 DEF DropPacket, AcceptFails, Receiving
    <2>5. ASSUME NEW p \in Packet, AnswerPacket(p) \/ AcceptPacket(p) \/ LookupPacket(p)
          PROVE  PollInv'
      BY <2>5 DEF AnswerPacket, AcceptPacket, LookupPacket, Receiving
    <2>6. CASE RecvErr
      BY <2>6 DEF RecvErr
    <2>7. ASSUME NEW c \in Cid, WriteClient(c) PROVE PollInv'
      BY <2>7 DEF WriteClient
    <2> QED
      BY <1>1, <2>1, <2>2, <2>3, <2>4, <2>5, <2>6, <2>7 DEF ServerStep, ReadPacket
  <1>2. ASSUME NEW t \in App, AppStep(t)
        PROVE  PollInv'
    BY <1>0, <1>2 DEF AppStep, DtpAccept, DtpSend, DtpCloseTest, DtpCloseRefused,
                      DtpCloseMark, TouchPoisoned
  <1>3. ASSUME NEW p \in Packet, Arrive(p)
        PROVE  PollInv'
    BY <1>0, <1>3 DEF Arrive
  <1>4. CASE UNCHANGED vars
    BY <1>0, <1>4
  <1> QED
    BY <1>1, <1>2, <1>3, <1>4 DEF Next

-----------------------------------------------------------------------------
(* The theorems *)

\* The tables, the handles, the work in hand and the pending wake agree in every
\* reachable state of the server.
THEOREM Invariant == Spec => []IInv
  <1>1. Init => IInv
    BY InitIInv
  <1>2. IInv /\ [Next]_vars => IInv'
    BY NextTypes, NextTables, NextWork, NextWake, NextPoll DEF IInv
  <1> QED
    BY <1>1, <1>2, PTL DEF Spec

\* Every variable keeps its type.
THEOREM TypeCorrect == Spec => []TypeOK
  <1>1. IInv => TypeOK
    BY DEF IInv
  <1> QED
    BY <1>1, Invariant, PTL

\* The garbage collector never pulls a connection from under a DtpConnection the
\* application still holds (ffi.rs 593-597).
THEOREM HandlesStayServed == Spec => []LiveHandleNotCollected
  <1>1. IInv => LiveHandleNotCollected
    BY DEF IInv, HandleInv, LiveHandleNotCollected
  <1> QED
    BY <1>1, Invariant, PTL

\* However many threads sit in dtp_accept, each connection goes to one of them.
THEOREM SingleOwner == Spec => []OneOwner
  <1>1. IInv => OneOwner
    <2> SUFFICES ASSUME IInv, NEW t \in App, handle[t] # 0
                 PROVE  client_status[conn[handle[t]].scid] =
                          [obj |-> handle[t], status |-> "Accepted"]
      BY DEF IInv, HandleInv, OneOwner
    <2> DEFINE c == conn[handle[t]].scid
    <2>1. c \in Cid
      BY Objects DEF Conn
    <2>2. client_status[c].obj = handle[t] /\ client_status[c].status = "Accepted"
      BY <2>1 DEF IInv, HandleInv, TableInv
    <2>3. client_status[c] \in StatusEntry
      BY <2>1 DEF IInv
    <2> HIDE DEF c
    <2>4. client_status[c] = [obj |-> handle[t], status |-> "Accepted"]
      BY <2>2, <2>3 DEF StatusEntry
    <2> QED
      BY <2>4 DEF c
  <1> QED
    BY <1>1, Invariant, PTL

\* The garbage collector never reaches `unreachable!' (server.rs 422).
THEOREM GcFindsStatus == Spec => []StatusCoversClients
  <1>1. IInv => StatusCoversClients
    BY DEF IInv, TableInv, StatusCoversClients, Keys, InMap
  <1> QED
    BY <1>1, Invariant, PTL

\* The loop never blocks in poll over data dtp_send has written.
THEOREM WakesAreKept == Spec => []NoLostWake
  <1>1. IInv => NoLostWake
    BY DEF IInv, WakeInv, NoLostWake, Keys, InMap
  <1> QED
    BY <1>1, Invariant, PTL

-----------------------------------------------------------------------------
(* The server implements ConnOwnership *)

USE DEF Own!AInit, Own!ANext, Own!avars, Own!Offer, Own!Take, Own!Release, Own!Collect

\* Who owns what depends on the handles and on the ids of the objects only.
LEMMA OwnersFrame ==
    ASSUME IInv, ConnStep, UNCHANGED handle
    PROVE  \A c \in Cid : Owners(c)' = Owners(c)
  BY DEF IInv, HandleInv, ConnStep, Owners

\* A step that touches neither tables nor handles is a stutter.
LEMMA OwnStutter ==
    ASSUME IInv, ConnStep, UNCHANGED <<clients, client_status, handle>>
    PROVE  UNCHANGED Own!avars
  <1>1. \A c \in Cid : Stage(c)' = Stage(c)
    BY DEF Stage
  <1> QED
    BY <1>1, OwnersFrame

\* A new connection is offered.
LEMMA OwnOffer ==
    ASSUME IInv, ConnStep, NEW p \in Packet, AcceptPacket(p)
    PROVE  Own!Offer(p.cid)
  <1>1. /\ p.cid \in Cid /\ clients[p.cid] = 0
        /\ clients' = [clients EXCEPT ![p.cid] = Len(conn) + 1]
        /\ client_status' = [client_status EXCEPT ![p.cid] =
                               [obj |-> Len(conn) + 1, status |-> "Connected"]]
        /\ UNCHANGED handle
        /\ Len(conn) + 1 # 0
    BY LenProperties DEF AcceptPacket, InMap, Packet, IInv
  <1>2. Stage(p.cid) = "absent" /\ Stage(p.cid)' = "offered"
    BY <1>1 DEF Stage, IInv
  <1>3. \A c \in Cid : c # p.cid => Stage(c)' = Stage(c)
    BY <1>1 DEF Stage, IInv
  <1>4. \A c \in Cid : Owners(c)' = Owners(c)
    BY <1>1, OwnersFrame
  <1> QED
    BY <1>1, <1>2, <1>3, <1>4

\* A thread that owns nothing takes it.
LEMMA OwnTake ==
    ASSUME IInv, IInv', ConnStep, NEW t \in App, DtpAccept(t)
    PROVE  \E c \in Cid : Own!Take(c, t)
  <1>1. PICK c \in Cid :
           /\ client_status[c].status = "Connected"
           /\ client_status' = [client_status EXCEPT ![c].status = "Accepted"]
           /\ handle' = [handle EXCEPT ![t] = client_status[c].obj]
    BY DEF DtpAccept
  <1>2. app[t] = "idle" /\ handle[t] = 0 /\ UNCHANGED <<clients, conn>>
    BY DEF DtpAccept, IInv, HandleInv
  <1>3. /\ clients[c] # 0 /\ client_status[c].obj = clients[c]
        /\ conn[clients[c]].scid = c
    BY <1>1 DEF IInv, TableInv
  <1>4. /\ client_status'[c].status = "Accepted"
        /\ \A d \in Cid : d # c => client_status'[d] = client_status[d]
    BY <1>1 DEF IInv, StatusEntry
  <1>5. Stage(c) = "offered" /\ Stage(c)' = "owned"
    BY <1>1, <1>2, <1>3, <1>4 DEF Stage
  <1>6. \A d \in Cid : d # c => Stage(d)' = Stage(d)
    BY <1>2, <1>4 DEF Stage
  <1>7. \A d \in Cid : t \notin Owners(d)
    BY <1>2 DEF Owners
  <1>8. handle'[t] = clients[c] /\ \A u \in App : u # t => handle'[u] = handle[u]
    BY <1>1, <1>3 DEF IInv
  <1>9. Owners(c)' = {t}
    <2>1. \A u \in App : handle[u] # 0 => conn[handle[u]].scid # c
      BY <1>1, <1>3 DEF IInv, HandleInv
    <2> QED
      BY <1>2, <1>3, <1>8, <2>1 DEF Owners
  <1>10. \A d \in Cid : d # c => Owners(d)' = Owners(d)
    BY <1>2, <1>3, <1>8 DEF Owners
  <1> QED
    BY <1>1, <1>5, <1>6, <1>7, <1>9, <1>10

\* The owner gives it back.
LEMMA OwnRelease ==
    ASSUME IInv, ConnStep, NEW t \in App, DtpCloseMark(t)
    PROVE  \E c \in Cid : Own!Release(c, t)
  <1>0. PICK n, c : n = handle[t] /\ c = conn[n].scid
    OBVIOUS
  <1>1. /\ n # 0 /\ n \in DOMAIN conn /\ c \in Cid
        /\ clients[c] = n
        /\ client_status[c].status = "Accepted" /\ client_status[c].obj = n
    BY <1>0, Objects DEF IInv, DtpCloseMark, HandleInv, TableInv, Conn
  <1>2. /\ client_status' = [client_status EXCEPT ![c].status = "Close"]
        /\ handle' = [handle EXCEPT ![t] = 0]
        /\ UNCHANGED <<clients, conn>>
    BY <1>0, <1>1 DEF DtpCloseMark
  <1>3. /\ client_status'[c].status = "Close"
        /\ \A d \in Cid : d # c => client_status'[d] = client_status[d]
    BY <1>1, <1>2 DEF IInv, StatusEntry
  <1>4. handle'[t] = 0 /\ \A u \in App : u # t => handle'[u] = handle[u]
    BY <1>2 DEF IInv
  <1>5. \A u \in App : u # t /\ handle[u] # 0 => conn[handle[u]].scid # c
    BY <1>0, <1>1 DEF IInv, HandleInv
  <1>6. Owners(c) = {t} /\ Owners(c)' = {}
    <2>1. handle[t] # 0 /\ conn[handle[t]].scid = c
      BY <1>0, <1>1
    <2>2. Owners(c) = {t}
      BY <1>5, <2>1 DEF Owners
    <2>3. Owners(c)' = {}
      BY <1>2, <1>4, <1>5 DEF Owners
    <2> QED
      BY <2>2, <2>3
  <1>7. \A d \in Cid : d # c => Owners(d)' = Owners(d)
    BY <1>0, <1>1, <1>2, <1>4 DEF Owners
  <1>8. Stage(c) = "owned" /\ Stage(c)' = "released"
    <2>1. clients'[c] # 0 /\ clients[c] # 0
      BY <1>1, <1>2
    <2>2. Stage(c) = "owned"
      BY <1>1, <2>1 DEF Stage
    <2>3. Stage(c)' = "released"
      BY <1>3, <2>1 DEF Stage
    <2> QED
      BY <2>2, <2>3
  <1>9. \A d \in Cid : d # c => Stage(d)' = Stage(d)
    BY <1>2, <1>3 DEF Stage
  <1>10. Own!Release(c, t)
    BY <1>1, <1>6, <1>7, <1>8, <1>9
  <1> QED
    BY <1>1, <1>10

\* Only what was given back is collected.
LEMMA OwnCollect ==
    ASSUME IInv, ConnStep, Gc
    PROVE  \E S \in SUBSET Cid : Own!Collect(S)
  <1> DEFINE S == {c \in Cid : Collectable(c)}
  <1>1. \A c \in S : Stage(c) = "released"
    BY DEF Collectable, InMap, Stage
  <1>2. \A c \in Cid : Stage(c)' = IF c \in S THEN "absent" ELSE Stage(c)
    BY DEF Gc, Stage
  <1>3. \A c \in Cid : Owners(c)' = Owners(c)
    BY OwnersFrame DEF Gc
  <1> HIDE DEF S
  <1>4. Own!Collect(S)
    BY <1>1, <1>2, <1>3 DEF S
  <1> QED
    BY <1>4 DEF S

\* Every step of the server is a step of ConnOwnership or a stutter.
LEMMA OwnNext ==
    ASSUME IInv, IInv', [Next]_vars
    PROVE  [Own!ANext]_(Own!avars)
  <1>0. ConnStep
    BY AllConnStep
  <1>1. CASE UNCHANGED <<clients, client_status, handle>>
    BY <1>0, <1>1, OwnStutter
  <1>2. CASE ServerStep
    <2>1. ASSUME NEW p \in Packet, AcceptPacket(p)
          PROVE  [Own!ANext]_(Own!avars)
      <3>1. p.cid \in Cid
        BY DEF Packet
      <3> QED
        BY <1>0, <2>1, <3>1, OwnOffer
    <2>2. CASE Gc
      BY <1>0, <2>2, OwnCollect
    <2>3. ASSUME NEW p \in Packet,
                DropPacket(p) \/ AnswerPacket(p) \/ AcceptFails(p) \/ LookupPacket(p)
          PROVE  UNCHANGED <<clients, client_status, handle>>
      BY <2>3 DEF DropPacket, AnswerPacket, AcceptFails, LookupPacket
    <2>4. ASSUME Top \/ PollEvents \/ PollTimeout \/ ReadDrained \/ RecvOk \/ RecvErr
                 \/ WriteDone \/ IoPanic \/ (\E X \in SUBSET Cid : OnTimeout(X))
                 \/ (\E c \in Cid : WriteClient(c))
          PROVE  UNCHANGED <<clients, client_status, handle>>
      BY <2>4 DEF Top, PollEvents, PollTimeout, ReadDrained, RecvOk, RecvErr,
                  WriteDone, IoPanic, OnTimeout, WriteClient
    <2> QED
      BY <1>1, <1>2, <2>1, <2>2, <2>3, <2>4 DEF ServerStep, ReadPacket
  <1>3. ASSUME NEW t \in App, AppStep(t)
        PROVE  [Own!ANext]_(Own!avars)
    <2>1. CASE DtpAccept(t)
      BY <1>0, <2>1, OwnTake
    <2>2. CASE DtpCloseMark(t)
      BY <1>0, <2>2, OwnRelease
    <2>3. CASE DtpSend(t) \/ DtpCloseTest(t) \/ DtpCloseRefused(t) \/ TouchPoisoned(t)
      BY <1>1, <2>3 DEF DtpSend, DtpCloseTest, DtpCloseRefused, TouchPoisoned
    <2> QED
      BY <1>3, <2>1, <2>2, <2>3 DEF AppStep
  <1>4. ASSUME NEW p \in Packet, Arrive(p)
        PROVE  [Own!ANext]_(Own!avars)
    BY <1>1, <1>4 DEF Arrive
  <1>5. CASE UNCHANGED vars
    BY <1>1, <1>5
  <1> QED
    BY <1>2, <1>3, <1>4, <1>5 DEF Next

\* The server implements ConnOwnership: offered, taken by one thread, given back
\* by it, and only then collected.
THEOREM Refinement == Spec => Ownership
  <1>1. Init => Own!AInit
    BY DEF Init, Stage, Owners
  <1>2. IInv /\ IInv' /\ [Next]_vars => [Own!ANext]_(Own!avars)
    BY OwnNext
  <1> QED
    BY <1>1, <1>2, Invariant, PTL DEF Spec, Ownership, Own!ASpec
=============================================================================
